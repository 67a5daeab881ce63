--------------------------- MODULE Recovery_proof ---------------------------
(***************************************************************************)
(* Proofs about Recovery, for any number of zones, any history of starts,  *)
(* stops, crashes and failing writes, and any configuration: the types of  *)
(* every runtime, and that the file always has what startup needs to find  *)
(* water of ours.                                                          *)
(***************************************************************************)
EXTENDS Recovery, StateMachine_proof

(* What a session's state says of its pulse: WATERING has an open one,     *)
(* SOAKING a closed one.                                                   *)
Sound(state, s) ==
    /\ state = "WATERING" => OpenPulse(s)
    /\ state = "SOAKING" => s # NoSession /\ ~OpenPulse(s)
    /\ s # NoSession => s.cycle \in 1 .. MaxCycles

-----------------------------------------------------------------------------
(* Decisions and the open pulse. *)

(* A decision keeps an open pulse unless OFF was seen ("off"), has a new   *)
(* one persisted, and removes a blocker only when OFF was seen.            *)
Careful(i, off, d) ==
    /\ Sound(d.state, d.session)
    /\ OpenPulse(i.session) /\ ~off => OpenPulse(d.session)
    /\ OpenPulse(d.session) => OpenPulse(i.session) \/ Has(d, Persist)
    /\ \A n \in DOMAIN d.actions : d.actions[n].act = "RemoveBlocker" => off

(* The same pulse of the same session. *)
SamePulse(s, t) ==
    s # NoSession /\ t # NoSession
    /\ t.intent = s.intent /\ t.offAt = s.offAt /\ t.cycle = s.cycle

(* The pulse goes on. *)
LEMMA PulseGoesOn ==
  ASSUME NEW i, NEW off \in BOOLEAN, NEW d, NEW st, NEW s, NEW f, NEW closed, NEW reason, NEW acts,
         Made(st, s, f, closed, reason, acts, d),
         Sound(i.state, i.session), s = i.session \/ SamePulse(i.session, s),
         st = i.state \/ st \notin {"WATERING", "SOAKING"},
         off \/ \A n \in DOMAIN acts : acts[n].act # "RemoveBlocker"
  PROVE  Careful(i, off, d)
BY DEF Made, Careful, Sound, SamePulse, OpenPulse

(* The session ends. *)
LEMMA PulseEnds ==
  ASSUME NEW i, NEW off \in BOOLEAN, NEW d, NEW st, NEW f, NEW closed, NEW reason, NEW acts,
         Made(st, NoSession, f, closed, reason, acts, d),
         st \notin {"WATERING", "SOAKING"}, off \/ ~OpenPulse(i.session),
         off \/ \A n \in DOMAIN acts : acts[n].act # "RemoveBlocker"
  PROVE  Careful(i, off, d)
BY DEF Made, Careful, Sound, OpenPulse

(* _start_auto_pulse: the new pulse is persisted first. *)
LEMMA PulseStarts ==
  ASSUME NEW i \in Situations, i.now \in Nat, NEW off \in BOOLEAN, NEW row, NEW s \in OpenSessions,
         s.cycle \in 0 .. MaxCycles - 1
  PROVE  Careful(i, off, StartPulse(i, row, s))
<1> DEFINE fresh == i.obs.at + SensorMaxAge
           cycle == s.cycle + 1
           generation == s.generation + 1
           next == [s EXCEPT
                    !.cycle = cycle, !.intent = i.now,
                    !.commanded = NoTime, !.confirmed = NoTime, !.offAt = NoTime,
                    !.soakEnds = NoTime, !.freshUntil = fresh,
                    !.generation = generation]
           acts == <<Persist, ArmWatchdog(Token(next.generation, fresh)), TurnOn,
                     ArmTimer("ON_CONFIRM_TIMEOUT", i.now + ActuatorConfirmTimeout)>>
           d == StartPulse(i, row, s)
<1>1. cycle \in 1 .. MaxCycles
  BY Constants
<1>2. /\ next # NoSession /\ next.intent = i.now /\ next.offAt = NoTime /\ next.cycle = cycle
  <2> HIDE DEF fresh, cycle, generation
  <2> QED BY DEF OpenSessions, NoSession
<1>3. i.now # NoTime
  BY DEF NoTime
<1>4. Made("WATERING", next, i.fault, NoSession, NoReason, acts, d)
  BY DEF Made, StartPulse, With, Go, NoOp
<1>5. /\ 1 \in DOMAIN acts /\ acts[1] = Persist
      /\ \A n \in DOMAIN acts : acts[n].act # "RemoveBlocker"
  BY DEF Persist, ArmWatchdog, TurnOn, ArmTimer
<1> HIDE DEF d, next, acts, cycle
<1>6. OpenPulse(next)
  BY <1>2, <1>3 DEF OpenPulse
<1>7. Careful(i, off, d)
  BY <1>1, <1>2, <1>4, <1>5, <1>6 DEF Made, Careful, Sound, Has
<1> QED BY <1>7 DEF d

(* Action lists without the removal of a blocker. *)
Unremoving(acts) == \A n \in DOMAIN acts : acts[n].act # "RemoveBlocker"

LEMMA UnremovingLists ==
  /\ Unremoving(<< >>) /\ Unremoving(<<Persist>>) /\ Unremoving(<<ExecuteOff>>)
  /\ Unremoving(<<RequestSlot>>) /\ Unremoving(<<ReleaseSlot>>)
  /\ Unremoving(<<Persist, ReleaseSlot>>) /\ Unremoving(<<Persist, ExecuteOff>>)
  /\ Unremoving(<<Persist, ScheduleEvaluation>>)
  /\ Unremoving(<<Persist, ExecuteOff, ReleaseSlot>>)
  /\ \A r : Unremoving(<<Persist, AddBlocker(r)>>)
            /\ Unremoving(<<Persist, AddBlocker(r), ExecuteOff>>)
  /\ \A b, r : Unremoving(<<SetExternalOn(b), AddBlocker(r)>>)
  /\ \A t : Unremoving(<<ArmWatchdog(t)>>)
  /\ \A k, at : Unremoving(<<Persist, ArmTimer(k, at)>>) /\ Unremoving(<<ArmTimer(k, at)>>)
BY DEF Unremoving, Persist, ExecuteOff, RequestSlot, ReleaseSlot, ScheduleEvaluation,
       AddBlocker, SetExternalOn, ArmWatchdog, ArmTimer

(* A decision that leaves the session alone. *)
LEMMA SessionStays ==
  ASSUME NEW i, NEW off \in BOOLEAN, NEW d, NEW st, NEW f, NEW closed, NEW reason, NEW acts,
         Made(st, i.session, f, closed, reason, acts, d),
         Sound(i.state, i.session),
         st = i.state \/ st \notin {"WATERING", "SOAKING"},
         off \/ Unremoving(acts)
  PROVE  Careful(i, off, d)
BY PulseGoesOn DEF Unremoving

(* Nothing happens. *)
LEMMA NoOpCareful ==
  ASSUME NEW i, NEW off \in BOOLEAN, Sound(i.state, i.session)
  PROVE  Careful(i, off, NoOp(i))
BY PlainMade, UnremovingLists, SessionStays

(* Noted flow from elsewhere. *)
LEMMA ExternalFlowCareful ==
  ASSUME NEW i, NEW on \in BOOLEAN, NEW row, Sound(i.state, i.session)
  PROVE  Careful(i, ~on, ExternalFlow(i, row, on))
<1> DEFINE acts == <<SetExternalOn(on), IF on THEN AddBlocker("external_flow")
                                        ELSE RemoveBlocker("external_flow")>>
           d == ExternalFlow(i, row, on)
<1>1. Made(i.state, i.session, i.fault, NoSession, NoReason, acts, d)
  BY PlainMade DEF ExternalFlow
<1>2. on => Unremoving(acts)
  BY UnremovingLists
<1> HIDE DEF d, acts
<1>3. Careful(i, ~on, d)
  BY <1>1, <1>2, SessionStays
<1> QED BY <1>3 DEF d

(* Every event in IDLE but a manual start. *)
LEMMA IdleCareful ==
  ASSUME NEW i \in Situations, i.now \in Nat, NEW e \in Events, i.state = "IDLE",
         Sound(i.state, i.session), e.kind # "ManualStartRequested"
  PROVE  Careful(i, OffSeen(e), DecideIdle(i, e))
<1> DEFINE d == DecideIdle(i, e)
           new == NewSession("AUTO", i.now)
<1>1. OffSeen(e) \in BOOLEAN
  BY DEF OffSeen
<1>2. \/ d = Go(i, "T2", "IDLE", << >>) \/ d = Go(i, "T2", "IDLE", <<ReleaseSlot>>)
      \/ d = Go(i, "none", "IDLE", <<RequestSlot>>)
      \/ d = Go(i, "T4", "DISABLED", <<Persist, ReleaseSlot>>)
      \/ d = NoOp(i) \/ d = StartPulse(i, "T1", new)
      \/ d = DecideConfigurationInvalid(i, "T5")
      \/ d = ExternalFlow(i, "T54", TRUE)
      \/ (OffSeen(e) /\ d = ExternalFlow(i, "T58", FALSE))
  BY DEF DecideIdle, EvaluateAutoStart, Do, OffSeen
<1>3. d = StartPulse(i, "T1", new) => Careful(i, OffSeen(e), d)
  <2>1. new \in OpenSessions
    BY NewSessionOpen DEF Situations
  <2>2. new.cycle = 0 /\ 0 \in 0 .. MaxCycles - 1
    BY ConfigAssumption DEF NewSession, ConfigValid
  <2> HIDE DEF d, new
  <2> QED BY <1>1, <2>1, <2>2, PulseStarts
<1>4. d = DecideConfigurationInvalid(i, "T5") => Careful(i, OffSeen(e), d)
  <2>1. Made("FAULT", i.session, "CONFIGURATION_INVALID", NoSession, NoReason, <<Persist>>,
             DecideConfigurationInvalid(i, "T5"))
    BY DEF DecideConfigurationInvalid, Latch, Go, NoOp, Made
  <2> HIDE DEF d
  <2> QED BY <1>1, <2>1, UnremovingLists, SessionStays
<1>5. d = ExternalFlow(i, "T54", TRUE) => Careful(i, OffSeen(e), d)
  <2> HIDE DEF d
  <2>1. Careful(i, ~TRUE, ExternalFlow(i, "T54", TRUE))
    BY ExternalFlowCareful
  <2> QED BY <1>1, <2>1 DEF Careful
<1>6. OffSeen(e) /\ d = ExternalFlow(i, "T58", FALSE) => Careful(i, OffSeen(e), d)
  <2> HIDE DEF d
  <2>1. Careful(i, ~FALSE, ExternalFlow(i, "T58", FALSE))
    BY ExternalFlowCareful
  <2> QED BY <1>1, <2>1 DEF Careful
<1> HIDE DEF d
<1>7. d = NoOp(i) => Careful(i, OffSeen(e), d)
  BY <1>1, NoOpCareful
<1>8. \/ d = Go(i, "T2", "IDLE", << >>) \/ d = Go(i, "T2", "IDLE", <<ReleaseSlot>>)
      \/ d = Go(i, "none", "IDLE", <<RequestSlot>>)
      \/ d = Go(i, "T4", "DISABLED", <<Persist, ReleaseSlot>>)
      => Careful(i, OffSeen(e), d)
  BY <1>1, PlainMade, UnremovingLists, SessionStays
<1>9. Careful(i, OffSeen(e), d)
  BY <1>2, <1>3, <1>4, <1>5, <1>6, <1>7, <1>8
<1> QED BY <1>9 DEF d

(* OFF evidence closes what was left open. *)
LEMMA CloseCareful ==
  ASSUME NEW i, i.state \notin {"WATERING", "SOAKING"}, NEW at
  PROVE  Careful(i, TRUE, CloseOpenAccounting(i, at))
<1> DEFINE closed == CloseRuntime(i.session, at, i.session.pending)
           acts == <<Persist, RemoveBlocker("integration_off_unconfirmed"), ReleaseSlot>>
           d == CloseOpenAccounting(i, at)
<1>1. Made(i.state, NoSession, i.fault, closed, i.session.pending, acts, d)
  BY DEF Made, CloseOpenAccounting, Close, Do, Go, NoOp
<1> HIDE DEF d, acts, closed
<1>2. Careful(i, TRUE, d)
  BY <1>1, PulseEnds
<1> QED BY <1>2 DEF d

(* Every event in DISABLED. *)
LEMMA DisabledCareful ==
  ASSUME NEW i, NEW e, i.state = "DISABLED", Sound(i.state, i.session)
  PROVE  Careful(i, OffSeen(e), DecideDisabled(i, e))
<1> DEFINE d == DecideDisabled(i, e)
<1>1. OffSeen(e) \in BOOLEAN
  BY DEF OffSeen
<1>2. \/ d = Go(i, "T46", "FAULT", <<Persist>>)
      \/ d = Go(i, "T47", "IDLE", <<Persist, ScheduleEvaluation>>)
      \/ d = ExternalFlow(i, "T55", TRUE)
      \/ (OffSeen(e) /\ d = ExternalFlow(i, "T59", FALSE))
      \/ (OffSeen(e) /\ d = CloseOpenAccounting(i, e.at))
      \/ d = NoOp(i)
  BY DEF DecideDisabled, OffSeen
<1> HIDE DEF d
<1>3. d = ExternalFlow(i, "T55", TRUE) => Careful(i, OffSeen(e), d)
  <2>1. Careful(i, ~TRUE, ExternalFlow(i, "T55", TRUE))
    BY ExternalFlowCareful
  <2> QED BY <1>1, <2>1 DEF Careful
<1>4. OffSeen(e) /\ d = ExternalFlow(i, "T59", FALSE) => Careful(i, OffSeen(e), d)
  <2>1. Careful(i, ~FALSE, ExternalFlow(i, "T59", FALSE))
    BY ExternalFlowCareful
  <2> QED BY <1>1, <2>1 DEF Careful
<1>5. OffSeen(e) /\ d = CloseOpenAccounting(i, e.at) => Careful(i, OffSeen(e), d)
  <2>1. Careful(i, TRUE, CloseOpenAccounting(i, e.at))
    BY CloseCareful
  <2> QED BY <1>1, <2>1 DEF Careful
<1>6. d = NoOp(i) => Careful(i, OffSeen(e), d)
  BY <1>1, NoOpCareful
<1>7. \/ d = Go(i, "T46", "FAULT", <<Persist>>)
      \/ d = Go(i, "T47", "IDLE", <<Persist, ScheduleEvaluation>>)
      => Careful(i, OffSeen(e), d)
  BY <1>1, PlainMade, UnremovingLists, SessionStays
<1>8. Careful(i, OffSeen(e), d)
  BY <1>2, <1>3, <1>4, <1>5, <1>6, <1>7
<1> QED BY <1>8 DEF d

(* Every event in FAULT but a manual start. *)
LEMMA FaultCareful ==
  ASSUME NEW i, NEW e, i.state = "FAULT", Sound(i.state, i.session),
         e.kind # "ManualStartRequested"
  PROVE  Careful(i, OffSeen(e), DecideFault(i, e))
<1> DEFINE d == DecideFault(i, e)
<1>1. OffSeen(e) \in BOOLEAN
  BY DEF OffSeen
<1>2. \/ Made("IDLE", i.session, NoFault, NoSession, NoReason, <<Persist>>, d)
      \/ Made("FAULT", i.session, "CONFIGURATION_INVALID", NoSession, NoReason, <<Persist>>, d)
      \/ d = Go(i, "T44", "FAULT", << >>)
      \/ d = Go(i, "T45", "DISABLED", <<Persist, ReleaseSlot>>)
      \/ d = ExternalFlow(i, "none", TRUE)
      \/ (OffSeen(e) /\ d = ExternalFlow(i, "none", FALSE))
      \/ (OffSeen(e) /\ d = CloseOpenAccounting(i, e.at))
      \/ d = NoOp(i)
  BY DEF DecideFault, OffSeen, FaultAutoClear, ClearFaultRequest, DecideConfigurationInvalid,
         Latch, Go, NoOp, Made
<1> HIDE DEF d
<1>3. d = ExternalFlow(i, "none", TRUE) => Careful(i, OffSeen(e), d)
  <2>1. Careful(i, ~TRUE, ExternalFlow(i, "none", TRUE))
    BY ExternalFlowCareful
  <2> QED BY <1>1, <2>1 DEF Careful
<1>4. OffSeen(e) /\ d = ExternalFlow(i, "none", FALSE) => Careful(i, OffSeen(e), d)
  <2>1. Careful(i, ~FALSE, ExternalFlow(i, "none", FALSE))
    BY ExternalFlowCareful
  <2> QED BY <1>1, <2>1 DEF Careful
<1>5. OffSeen(e) /\ d = CloseOpenAccounting(i, e.at) => Careful(i, OffSeen(e), d)
  <2>1. Careful(i, TRUE, CloseOpenAccounting(i, e.at))
    BY CloseCareful
  <2> QED BY <1>1, <2>1 DEF Careful
<1>6. d = NoOp(i) => Careful(i, OffSeen(e), d)
  BY <1>1, NoOpCareful
<1>7. \/ Made("IDLE", i.session, NoFault, NoSession, NoReason, <<Persist>>, d)
      \/ Made("FAULT", i.session, "CONFIGURATION_INVALID", NoSession, NoReason, <<Persist>>, d)
      => Careful(i, OffSeen(e), d)
  BY <1>1, UnremovingLists, SessionStays
<1>8. \/ d = Go(i, "T44", "FAULT", << >>) \/ d = Go(i, "T45", "DISABLED", <<Persist, ReleaseSlot>>)
      => Careful(i, OffSeen(e), d)
  BY <1>1, PlainMade, UnremovingLists, SessionStays
<1>9. Careful(i, OffSeen(e), d)
  BY <1>2, <1>3, <1>4, <1>5, <1>6, <1>7, <1>8
<1> QED BY <1>9 DEF d
-----------------------------------------------------------------------------
(* WATERING. *)

(* What a termination, a confirmation or a report changes of a session is  *)
(* not its pulse.                                                          *)
LEMMA SamePulseKept ==
  ASSUME NEW s \in OpenSessions, NEW x, NEW y
  PROVE  /\ SamePulse(s, [s EXCEPT !.pending = x]) /\ SamePulse(s, [s EXCEPT !.confirmed = x])
         /\ SamePulse(s, [s EXCEPT !.freshUntil = x, !.generation = y])
<1>1. DOMAIN s # {"mode"}
  BY DEF OpenSessions
<1>2. DOMAIN [s EXCEPT !.pending = x] # DOMAIN NoSession
      /\ DOMAIN [s EXCEPT !.confirmed = x] # DOMAIN NoSession
      /\ DOMAIN [s EXCEPT !.freshUntil = x, !.generation = y] # DOMAIN NoSession
  BY <1>1 DEF NoSession
<1> QED BY <1>2, OpenIsOpen DEF SamePulse, OpenSessions

(* _commit_termination, also of startup *)
LEMMA CommitCareful ==
  ASSUME NEW i, i.session \in OpenSessions, Sound(i.state, i.session),
         NEW off \in BOOLEAN, NEW reason, NEW fault
  PROVE  Careful(i, off, CommitTermination(i, reason, fault))
<1> DEFINE d == CommitTermination(i, reason, fault)
           s == [i.session EXCEPT !.pending = reason]
           f == IF fault = NoFault THEN i.fault ELSE fault
<1>1. Made(i.state, s, f, NoSession, NoReason, <<Persist, ExecuteOff>>, d)
  BY DEF CommitTermination, With, Latch, Do, Go, NoOp, Made
<1>2. SamePulse(i.session, s)
  BY SamePulseKept
<1> HIDE DEF d, s, f
<1>3. Careful(i, off, d)
  BY <1>1, <1>2, UnremovingLists, PulseGoesOn DEF Unremoving
<1> QED BY <1>3 DEF d

(* _on_confirmed *)
LEMMA OnConfirmedCareful ==
  ASSUME NEW i, i.session \in OpenSessions, Sound(i.state, i.session),
         NEW off \in BOOLEAN, NEW at
  PROVE  Careful(i, off, DecideOnConfirmed(i, at))
<1> DEFINE d == DecideOnConfirmed(i, at)
           s == [i.session EXCEPT !.confirmed = at]
           kind == IF i.session.mode = "AUTO" THEN "PULSE_END" ELSE "MANUAL_END"
           end == IF i.session.mode = "AUTO" THEN at + PulseDuration
                  ELSE at + i.session.effective
           acts == IF i.session.pending = NoReason THEN <<Persist, ArmTimer(kind, end)>>
                   ELSE <<Persist>>
<1>1. Made(i.state, s, i.fault, NoSession, NoReason, acts, d)
  BY DEF DecideOnConfirmed, With, Do, Go, NoOp, Made
<1>2. SamePulse(i.session, s)
  BY SamePulseKept
<1>3. Unremoving(acts)
  <2> HIDE DEF kind, end
  <2> QED BY UnremovingLists
<1> HIDE DEF d, s, acts
<1>4. Careful(i, off, d)
  BY <1>1, <1>2, <1>3, PulseGoesOn DEF Unremoving
<1> QED BY <1>4 DEF d

(* _watering_moisture *)
LEMMA WateringMoistureCareful ==
  ASSUME NEW i, i.session \in OpenSessions, Sound(i.state, i.session), i.state = "WATERING",
         NEW off \in BOOLEAN, NEW obs
  PROVE  Careful(i, off, WateringMoisture(i, obs))
<1> DEFINE d == WateringMoisture(i, obs)
           fresh == obs.at + SensorMaxAge
           generation == i.session.generation + 1
           token == Token(generation, fresh)
           s == [i.session EXCEPT !.freshUntil = fresh, !.generation = generation]
<1>1. \/ Made(i.state, i.session, i.fault, NoSession, NoReason, << >>, d)
      \/ Made(i.state, s, i.fault, NoSession, NoReason, <<ArmWatchdog(token)>>, d)
      \/ d = CommitTermination(i, "SENSOR_FAULT", "SENSOR_INVALID")
      \/ d = CommitTermination(i, "SENSOR_FAULT", "SENSOR_UNAVAILABLE")
  BY DEF WateringMoisture, With, Go, NoOp, Made, Token
<1>2. SamePulse(i.session, s)
  <2> HIDE DEF fresh, generation
  <2> QED BY SamePulseKept
<1> HIDE DEF d, s, token
<1>3. Careful(i, off, d)
  BY <1>1, <1>2, UnremovingLists, PulseGoesOn, CommitCareful DEF Unremoving
<1> QED BY <1>3 DEF d

(* _watchdog_fired *)
LEMMA WatchdogFiredCareful ==
  ASSUME NEW i, i.session \in OpenSessions, Sound(i.state, i.session),
         NEW off \in BOOLEAN, NEW token
  PROVE  Careful(i, off, DecideWatchdogFired(i, token))
<1> DEFINE d == DecideWatchdogFired(i, token)
           again == Token(i.session.generation, i.session.freshUntil)
<1>1. \/ Made(i.state, i.session, i.fault, NoSession, NoReason, << >>, d)
      \/ Made(i.state, i.session, i.fault, NoSession, NoReason, <<ArmWatchdog(again)>>, d)
      \/ d = CommitTermination(i, "SENSOR_FAULT", "SENSOR_STALE")
  BY DEF DecideWatchdogFired, Do, Go, NoOp, Made
<1> HIDE DEF d, again
<1>2. Careful(i, off, d)
  BY <1>1, UnremovingLists, PulseGoesOn, CommitCareful DEF Unremoving
<1> QED BY <1>2 DEF d

(* _finalize_watering, on OFF evidence *)
LEMMA FinalizeCareful ==
  ASSUME NEW i \in Situations, i.session \in OpenSessions, NEW reason, NEW at \in Int, NEW extra
  PROVE  Careful(i, TRUE, FinalizeWatering(i, reason, at, extra))
<1> DEFINE d == FinalizeWatering(i, reason, at, extra)
           closed == CloseRuntime(i.session, at, reason)
           dest == IF reason = "MANUAL_COMPLETE" THEN ManualDestination(i, closed)
                   ELSE PostDestination(i, closed, reason)
           acts == extra \o <<Persist, RemoveBlocker("integration_off_unconfirmed"), ReleaseSlot>>
<1>1. Made(dest[1], NoSession, dest[2], closed, reason, acts, d)
  BY DEF Made, FinalizeWatering, Close, Latch, Go, NoOp
<1>2. dest[1] \notin {"WATERING", "SOAKING"}
  <2>1. closed \in OpenSessions
    BY CloseRuntimeOpen
  <2> HIDE DEF closed
  <2>2. dest[1] \in {"DISABLED", "IDLE", "FAULT"}
    BY <2>1, DestinationTyped
  <2> QED BY <2>2
<1> HIDE DEF d, acts, closed, dest
<1>3. Careful(i, TRUE, d)
  BY <1>1, <1>2, PulseEnds
<1> QED BY <1>3 DEF d

(* _pulse_off_to_soaking *)
LEMMA PulseOffCareful ==
  ASSUME NEW i \in Situations, i.session \in OpenSessions, Sound(i.state, i.session),
         OpenPulse(i.session), NEW at \in Nat
  PROVE  Careful(i, TRUE, PulseOffToSoaking(i, at))
<1> DEFINE d == PulseOffToSoaking(i, at)
           soakEnds == at + SoakDuration
           closed == CloseRuntime(i.session, at, "TARGET_REACHED")
           s == [closed EXCEPT !.soakEnds = soakEnds]
           acts == <<Persist, ArmTimer("SOAK_END", soakEnds), ReleaseSlot>>
<1>1. Made("SOAKING", s, i.fault, NoSession, NoReason, acts, d)
  BY DEF Made, PulseOffToSoaking, With, Go, NoOp
<1>2. s # NoSession /\ ~OpenPulse(s) /\ s.cycle = i.session.cycle
  <2>1. closed \in OpenSessions
    BY CloseRuntimeOpen
  <2>2. closed.offAt = at /\ closed.cycle = i.session.cycle
    BY DEF CloseRuntime, OpenSessions
  <2> HIDE DEF closed, soakEnds
  <2>3. s.offAt = at /\ s.cycle = i.session.cycle /\ s.mode \in {"AUTO", "MANUAL"}
    BY <2>1, <2>2 DEF OpenSessions
  <2>4. s # NoSession
    BY <2>3 DEF NoSession
  <2> HIDE DEF s
  <2> QED BY <2>3, <2>4 DEF OpenPulse, NoTime
<1>3. i.session # NoSession
  BY DEF OpenPulse
<1> HIDE DEF d, acts, s
<1>4. Careful(i, TRUE, d)
  BY <1>1, <1>2, <1>3 DEF Made, Careful, Sound
<1> QED BY <1>4 DEF d

(* _off_not_confirmed *)
LEMMA OffNotConfirmedCareful ==
  ASSUME NEW i, i.session \in OpenSessions, Sound(i.state, i.session), NEW off \in BOOLEAN
  PROVE  Careful(i, off, OffNotConfirmedWhileWatering(i))
<1> DEFINE d == OffNotConfirmedWhileWatering(i)
           reason == IF i.session.pending = "RESTART_RECOVERY" THEN "RESTART_RECOVERY"
                     ELSE "ACTUATOR_FAULT"
           s == [i.session EXCEPT !.pending = reason]
           acts == <<Persist, AddBlocker("integration_off_unconfirmed")>>
<1>1. Made("FAULT", s, "ACTUATOR_OFF_TIMEOUT", NoSession, NoReason, acts, d)
  BY DEF Made, OffNotConfirmedWhileWatering, With, Latch, Go, NoOp
<1>2. SamePulse(i.session, s)
  <2> HIDE DEF reason
  <2> QED BY SamePulseKept
<1>3. Unremoving(acts)
  BY UnremovingLists
<1> HIDE DEF d, s, acts
<1>4. Careful(i, off, d)
  BY <1>1, <1>2, <1>3, PulseGoesOn DEF Unremoving
<1> QED BY <1>4 DEF d

(* _startup_persisted_watering: the session that was WATERING when a run   *)
(* ended.                                                                  *)
LEMMA StartupWateringCareful ==
  ASSUME NEW i \in Situations, i.now \in Nat, i.session \in OpenSessions,
         Sound(i.state, i.session), NEW finding
  PROVE  Careful(i, finding = "OFF", StartupPersistedWatering(i, finding))
<1> DEFINE d == StartupPersistedWatering(i, finding)
           s == [i.session EXCEPT !.pending = "RESTART_RECOVERY"]
           j == [i EXCEPT !.session = s]
           acts == <<Persist, AddBlocker("integration_off_unconfirmed"), ExecuteOff>>
<1>1. SamePulse(i.session, s)
  BY SamePulseKept
<1>2. CASE finding = "OFF"
  <2>1. d = FinalizeWatering(j, "RESTART_RECOVERY", i.now, << >>)
    BY <1>2 DEF StartupPersistedWatering
  <2>2. s \in OpenSessions
    BY DEF OpenSessions, ReasonOrNone, Reasons
  <2> HIDE DEF d, s
  <2>3. j \in Situations /\ j.session = s /\ i.now \in Int
    BY <2>2 DEF Situations, Sessions
  <2> HIDE DEF j
  <2>4. Careful(j, TRUE, d)
    BY <2>1, <2>2, <2>3, FinalizeCareful
  <2>5. OpenPulse(i.session) = OpenPulse(s)
    BY <1>1 DEF SamePulse, OpenPulse
  <2>6. Careful(i, finding = "OFF", d)
    BY <1>2, <2>3, <2>4, <2>5 DEF Careful
  <2> QED BY <2>6 DEF d
<1>3. CASE finding # "OFF"
  <2>1. Made(i.state, s, i.fault, NoSession, NoReason, acts, d)
    BY <1>3 DEF StartupPersistedWatering, With, Do, Go, NoOp, Made
  <2>2. Unremoving(acts)
    BY UnremovingLists
  <2> HIDE DEF d, s, acts
  <2>3. Careful(i, FALSE, d)
    BY <1>1, <2>1, <2>2, PulseGoesOn DEF Unremoving
  <2>4. Careful(i, finding = "OFF", d)
    BY <1>3, <2>3 DEF Careful
  <2> QED BY <2>4 DEF d
<1> QED BY <1>2, <1>3

(* Every event in WATERING. *)
LEMMA WateringCareful ==
  ASSUME NEW i \in Situations, NEW e \in Events, i.state = "WATERING",
         Sound(i.state, i.session), i.session \in OpenSessions,
         e.kind = "OffConfirmed" => e.at \in Nat
  PROVE  Careful(i, OffSeen(e), DecideWatering(i, e))
<1> DEFINE d == DecideWatering(i, e)
           commits == \E reason, fault : d = CommitTermination(i, reason, fault)
           ends == OffSeen(e) /\ \E reason, extra : d = FinalizeWatering(i, reason, e.at, extra)
<1>1. OffSeen(e) \in BOOLEAN /\ OpenPulse(i.session)
  BY DEF OffSeen, Sound
<1>2. \/ commits \/ ends
      \/ d = DecideOnConfirmed(i, e.at) \/ d = WateringMoisture(i, e.obs)
      \/ d = DecideWatchdogFired(i, e.token) \/ d = OffNotConfirmedWhileWatering(i)
      \/ d = Go(i, "none", i.state, <<ExecuteOff>>)
      \/ (e.kind = "OffConfirmed" /\ d = PulseOffToSoaking(i, e.at))
      \/ d = NoOp(i)
  <2>1. e.kind # "StartupPersistedWatering"
    BY EventTyped
  <2>2. CASE e.kind \in DOMAIN TerminalRequests
    <3>1. d = CommitTermination(i, TerminalRequests[e.kind], NoFault) \/ d = NoOp(i)
      BY <2>2 DEF DecideWatering, TerminalRequests
    <3> HIDE DEF d
    <3> QED BY <3>1
  <2>3. CASE e.kind \in {"OffConfirmed", "ExternalActuatorOff"}
    <3>1. \/ d = FinalizeWatering(i, i.session.pending, e.at, << >>)
          \/ d = FinalizeWatering(i, "EXTERNAL_ACTUATOR_STATE_CHANGE", e.at, <<ExecuteOff>>)
          \/ d = FinalizeWatering(i, "MANUAL_COMPLETE", e.at, << >>)
          \/ (e.kind = "OffConfirmed" /\ d = PulseOffToSoaking(i, e.at))
      BY <2>3 DEF DecideWatering, TerminalRequests
    <3>2. OffSeen(e)
      BY <2>3 DEF OffSeen
    <3> HIDE DEF d
    <3> QED BY <3>1, <3>2
  <2>4. CASE e.kind \notin DOMAIN TerminalRequests \cup {"OffConfirmed", "ExternalActuatorOff"}
    <3>1. \/ d = CommitTermination(i, "ACTUATOR_FAULT", "ACTUATOR_ON_TIMEOUT")
          \/ d = CommitTermination(i, "MANUAL_COMPLETE", NoFault)
          \/ d = CommitTermination(i, "ACTUATOR_FAULT", "ACTUATOR_UNAVAILABLE")
          \/ d = DecideOnConfirmed(i, e.at) \/ d = WateringMoisture(i, e.obs)
          \/ d = DecideWatchdogFired(i, e.token) \/ d = OffNotConfirmedWhileWatering(i)
          \/ d = Go(i, "none", i.state, <<ExecuteOff>>) \/ d = NoOp(i)
      BY <2>1, <2>4 DEF DecideWatering, Do
    <3> HIDE DEF d
    <3> QED BY <3>1
  <2> QED BY <2>2, <2>3, <2>4
<1> HIDE DEF d
<1>3. commits => Careful(i, OffSeen(e), d)
  BY <1>1, CommitCareful
<1>4. ends => Careful(i, OffSeen(e), d)
  <2>1. OffSeen(e) => e.at \in Int
    BY EventTyped DEF OffSeen
  <2>2. ASSUME NEW reason, NEW extra, OffSeen(e), d = FinalizeWatering(i, reason, e.at, extra)
        PROVE  Careful(i, TRUE, d)
    BY <2>1, <2>2, FinalizeCareful
  <2> QED BY <1>1, <2>2 DEF Careful
<1>5. e.kind = "OffConfirmed" /\ d = PulseOffToSoaking(i, e.at) => Careful(i, OffSeen(e), d)
  <2>1. e.kind = "OffConfirmed" /\ d = PulseOffToSoaking(i, e.at) => Careful(i, TRUE, d)
    BY <1>1, PulseOffCareful
  <2> QED BY <2>1 DEF OffSeen, Careful
<1>6. d = Go(i, "none", i.state, <<ExecuteOff>>) => Careful(i, OffSeen(e), d)
  BY <1>1, PlainMade, UnremovingLists, SessionStays
<1>7. d = NoOp(i) => Careful(i, OffSeen(e), d)
  BY <1>1, NoOpCareful
<1>8. \/ d = DecideOnConfirmed(i, e.at) \/ d = WateringMoisture(i, e.obs)
      \/ d = DecideWatchdogFired(i, e.token) \/ d = OffNotConfirmedWhileWatering(i)
      => Careful(i, OffSeen(e), d)
  BY <1>1, OnConfirmedCareful, WateringMoistureCareful, WatchdogFiredCareful,
     OffNotConfirmedCareful
<1> HIDE DEF commits, ends
<1>9. Careful(i, OffSeen(e), d)
  BY <1>2, <1>3, <1>4, <1>5, <1>6, <1>7, <1>8
<1> QED BY <1>9 DEF d

-----------------------------------------------------------------------------
(* SOAKING, which has no open pulse. *)

(* The soak ends. *)
LEMMA SoakEnds ==
  ASSUME NEW i, i.state = "SOAKING", Sound(i.state, i.session), NEW off \in BOOLEAN,
         NEW row, NEW st, st \notin {"WATERING", "SOAKING"}, NEW acts, Unremoving(acts) \/ off,
         NEW s, NEW reason, NEW fault
  PROVE  /\ Careful(i, off, FinalizeSoaking(i, row, st, acts, s, reason))
         /\ Careful(i, off, Latch(FinalizeSoaking(i, row, st, acts, s, reason), fault))
<1> DEFINE d == FinalizeSoaking(i, row, st, acts, s, reason)
           latched == Latch(d, fault)
<1>1. /\ Made(st, NoSession, i.fault, s, reason, acts, d)
      /\ Made(st, NoSession, fault, s, reason, acts, latched)
  BY DEF Made, FinalizeSoaking, Close, Go, NoOp, Latch
<1>2. ~OpenPulse(i.session)
  BY DEF Sound
<1> HIDE DEF d, latched
<1>3. Careful(i, off, d) /\ Careful(i, off, latched)
  BY <1>1, <1>2, PulseEnds DEF Unremoving
<1> QED BY <1>3 DEF d, latched

(* Every way in which the soak of a running zone ends. *)
LEMMA FinalizeSoakingCareful ==
  ASSUME NEW i, i.state = "SOAKING", Sound(i.state, i.session), NEW off \in BOOLEAN,
         NEW row, NEW reason
  PROVE  /\ Careful(i, off, FinalizeSoakingCompletion(i, row, reason))
         /\ \A fault : Careful(i, off, FinalizeSoakingFault(i, row, reason, fault))
         /\ \A st : st \notin {"WATERING", "SOAKING"} =>
              Careful(i, off, FinalizeSoakingCancel(i, row, reason, st))
<1>1. Careful(i, off, FinalizeSoakingCompletion(i, row, reason))
  BY UnremovingLists, SoakEnds DEF FinalizeSoakingCompletion
<1>2. \A fault : Careful(i, off, FinalizeSoakingFault(i, row, reason, fault))
  BY UnremovingLists, SoakEnds DEF FinalizeSoakingFault
<1>3. \A st : st \notin {"WATERING", "SOAKING"} =>
        Careful(i, off, FinalizeSoakingCancel(i, row, reason, st))
  BY UnremovingLists, SoakEnds DEF FinalizeSoakingCancel
<1> QED BY <1>1, <1>2, <1>3

(* _soaking_recheck *)
LEMMA SoakingRecheckCareful ==
  ASSUME NEW i \in Situations, i.now \in Nat, i.state = "SOAKING",
         i.session \in OpenSessions, Sound(i.state, i.session), NEW off \in BOOLEAN
  PROVE  Careful(i, off, SoakingRecheck(i))
<1> DEFINE d == SoakingRecheck(i)
<1>1. \/ d = FinalizeSoakingCompletion(i, "T24", "TARGET_REACHED")
      \/ d = FinalizeSoakingCompletion(i, "T26", "MAX_CYCLES")
      \/ d = FinalizeSoakingCompletion(i, "T27", "MAX_SESSION_RUNTIME")
      \/ d = FinalizeSoakingCompletion(i, "T28", "DAILY_RUNTIME_LIMIT")
      \/ d = FinalizeSoakingFault(i, "T32", "ACTUATOR_FAULT", "ACTUATOR_UNAVAILABLE")
      \/ d = Go(i, "none", i.state, <<RequestSlot>>)
      \/ (i.session.cycle < MaxCycles /\ d = StartPulse(i, "T25", i.session))
  BY DEF SoakingRecheck, Do
<1> HIDE DEF d
<1>2. \/ d = FinalizeSoakingCompletion(i, "T24", "TARGET_REACHED")
      \/ d = FinalizeSoakingCompletion(i, "T26", "MAX_CYCLES")
      \/ d = FinalizeSoakingCompletion(i, "T27", "MAX_SESSION_RUNTIME")
      \/ d = FinalizeSoakingCompletion(i, "T28", "DAILY_RUNTIME_LIMIT")
      \/ d = FinalizeSoakingFault(i, "T32", "ACTUATOR_FAULT", "ACTUATOR_UNAVAILABLE")
      => Careful(i, off, d)
  BY FinalizeSoakingCareful
<1>3. d = Go(i, "none", i.state, <<RequestSlot>>) => Careful(i, off, d)
  BY PlainMade, UnremovingLists, SessionStays
<1>4. i.session.cycle < MaxCycles /\ d = StartPulse(i, "T25", i.session) => Careful(i, off, d)
  <2>1. i.session.cycle \in 1 .. MaxCycles
    BY OpenIsOpen DEF Sound
  <2>2. i.session.cycle < MaxCycles => i.session.cycle \in 0 .. MaxCycles - 1
    BY <2>1, Constants
  <2> QED BY <2>2, PulseStarts
<1>5. Careful(i, off, d)
  BY <1>1, <1>2, <1>3, <1>4
<1> QED BY <1>5 DEF d

(* Interference is noted in the session and waits for OFF evidence. *)
LEMMA InterferenceCareful ==
  ASSUME NEW i, i.state = "SOAKING", i.session \in OpenSessions, Sound(i.state, i.session),
         NEW off \in BOOLEAN
  PROVE  /\ Careful(i, off, With(Do(i, <<Persist, AddBlocker("integration_off_unconfirmed"),
                                         ExecuteOff>>),
                                 [i.session EXCEPT !.pending = "EXTERNAL_ACTUATOR_STATE_CHANGE"]))
         /\ Careful(i, off, SoakingOffNotConfirmed(i))
<1> DEFINE acts == <<Persist, AddBlocker("integration_off_unconfirmed"), ExecuteOff>>
           s == [i.session EXCEPT !.pending = "EXTERNAL_ACTUATOR_STATE_CHANGE"]
           t == [i.session EXCEPT !.pending = "ACTUATOR_FAULT"]
           d == With(Do(i, acts), s)
           given == SoakingOffNotConfirmed(i)
<1>1. /\ Made(i.state, s, i.fault, NoSession, NoReason, acts, d)
      /\ Made("FAULT", t, "ACTUATOR_OFF_TIMEOUT", NoSession, NoReason, <<Persist>>, given)
  BY DEF With, Do, Go, NoOp, Made, SoakingOffNotConfirmed, Latch
<1>2. SamePulse(i.session, s) /\ SamePulse(i.session, t)
  BY SamePulseKept
<1>3. Unremoving(acts) /\ Unremoving(<<Persist>>)
  BY UnremovingLists
<1> HIDE DEF d, given, s, t, acts
<1>4. Careful(i, off, d) /\ Careful(i, off, given)
  BY <1>1, <1>2, <1>3, PulseGoesOn DEF Unremoving
<1> QED BY <1>4 DEF d, given, acts, s

(* A post-soak report, deadline or evaluation. *)
LEMMA SoakingReportCareful ==
  ASSUME NEW i \in Situations, i.now \in Nat, i.state = "SOAKING",
         i.session \in OpenSessions, Sound(i.state, i.session), NEW off \in BOOLEAN,
         NEW obs, NEW e
  PROVE  /\ Careful(i, off, SoakingMoisture(i, obs)) /\ Careful(i, off, SoakingGrace(i))
         /\ Careful(i, off, SoakingDeadlineOrEvaluate(i, e))
<1>1. Careful(i, off, SoakingRecheck(i))
  BY SoakingRecheckCareful
<1>2. \A reason, fault, row : Careful(i, off, FinalizeSoakingFault(i, row, reason, fault))
  BY FinalizeSoakingCareful
<1>3. /\ Careful(i, off, NoOp(i)) /\ Careful(i, off, Go(i, "T22", "SOAKING", << >>))
      /\ Careful(i, off, Go(i, "none", i.state, <<ReleaseSlot>>))
      /\ \A at : Careful(i, off, Go(i, "T23", "SOAKING", <<ArmTimer("GRACE", at)>>))
  BY NoOpCareful, PlainMade, UnremovingLists, SessionStays
<1>4. Careful(i, off, SoakingMoisture(i, obs))
  <2> DEFINE d == SoakingMoisture(i, obs)
  <2>1. \/ d = Go(i, "T22", "SOAKING", << >>)
        \/ d = FinalizeSoakingFault(i, "T29", "SENSOR_FAULT", "SENSOR_INVALID")
        \/ d = FinalizeSoakingFault(i, "T30", "SENSOR_FAULT", "SENSOR_UNAVAILABLE")
        \/ d = SoakingRecheck(i) \/ d = NoOp(i)
    BY DEF SoakingMoisture
  <2> HIDE DEF d
  <2>2. Careful(i, off, d)
    BY <1>1, <1>2, <1>3, <2>1
  <2> QED BY <2>2 DEF d
<1>5. Careful(i, off, SoakingGrace(i))
  <2> DEFINE d == SoakingGrace(i)
  <2>1. \/ d = SoakingRecheck(i)
        \/ d = FinalizeSoakingFault(i, "T29", "SENSOR_FAULT", "SENSOR_INVALID")
        \/ d = FinalizeSoakingFault(i, "T30", "SENSOR_FAULT", "SENSOR_UNAVAILABLE")
        \/ d = FinalizeSoakingFault(i, "T31", "SENSOR_FAULT", "SENSOR_STALE")
    BY DEF SoakingGrace
  <2> HIDE DEF d
  <2>2. Careful(i, off, d)
    BY <1>1, <1>2, <2>1
  <2> QED BY <2>2 DEF d
<1>6. Careful(i, off, SoakingDeadlineOrEvaluate(i, e))
  <2> DEFINE d == SoakingDeadlineOrEvaluate(i, e)
             grace == Grace(i.session)
  <2>1. \/ d = NoOp(i) \/ d = SoakingRecheck(i)
        \/ d = Go(i, "none", i.state, <<ReleaseSlot>>)
        \/ d = Go(i, "T23", "SOAKING", <<ArmTimer("GRACE", grace)>>)
    BY DEF SoakingDeadlineOrEvaluate, Do
  <2> HIDE DEF d, grace
  <2>2. Careful(i, off, d)
    BY <1>1, <1>3, <2>1
  <2> QED BY <2>2 DEF d
<1> QED BY <1>4, <1>5, <1>6

(* Every event in SOAKING. *)
LEMMA SoakingCareful ==
  ASSUME NEW i \in Situations, i.now \in Nat, NEW e \in Events, i.state = "SOAKING",
         i.session \in OpenSessions, Sound(i.state, i.session)
  PROVE  Careful(i, OffSeen(e), DecideSoaking(i, e))
<1> DEFINE d == DecideSoaking(i, e)
           noted == With(Do(i, <<Persist, AddBlocker("integration_off_unconfirmed"), ExecuteOff>>),
                         [i.session EXCEPT !.pending = "EXTERNAL_ACTUATOR_STATE_CHANGE"])
<1>1. OffSeen(e) \in BOOLEAN
  BY DEF OffSeen
<1>2. \/ d = SoakingMoisture(i, e.obs) \/ d = SoakingDeadlineOrEvaluate(i, e)
      \/ d = SoakingGrace(i) \/ d = noted \/ d = SoakingOffNotConfirmed(i)
      \/ d = FinalizeSoakingFault(i, "T32", "ACTUATOR_FAULT", "ACTUATOR_UNAVAILABLE")
      \/ d = FinalizeSoakingCancel(i, "T35", "USER_STOP", "IDLE")
      \/ d = FinalizeSoakingCancel(i, "T36", "ZONE_DISABLED", "DISABLED")
      \/ d = FinalizeSoakingCancel(i, "T38", "CONFIG_RELOAD", "IDLE")
      \/ d = FinalizeSoakingCancel(i, "T39", "CONFIG_CHANGED", "IDLE")
      \/ d = Go(i, "T37", "SOAKING", <<Persist>>) \/ d = NoOp(i)
      \/ (OffSeen(e) /\ d = FinalizeSoakingExternal(i, e.at))
  <2>1. e.kind # "StartupPersistedSoaking"
    BY EventTyped
  <2>2. CASE i.session.pending # NoReason
    BY <2>2 DEF DecideSoaking, DecideSoakingPending, OffSeen
  <2>3. CASE i.session.pending = NoReason
    <3>1. d = DecideSoakingOpen(i, e)
      BY <2>3 DEF DecideSoaking
    <3> QED BY <2>1, <3>1 DEF DecideSoakingOpen
  <2> QED BY <2>2, <2>3
<1>3. Careful(i, OffSeen(e), noted) /\ Careful(i, OffSeen(e), SoakingOffNotConfirmed(i))
  BY <1>1, InterferenceCareful
<1> HIDE DEF d, noted
<1>4. OffSeen(e) /\ d = FinalizeSoakingExternal(i, e.at) => Careful(i, OffSeen(e), d)
  <2> SUFFICES ASSUME OffSeen(e), d = FinalizeSoakingExternal(i, e.at)
               PROVE  Careful(i, TRUE, d)
    BY DEF Careful
  <2> DEFINE acts == <<Persist, RemoveBlocker("integration_off_unconfirmed"), ReleaseSlot>>
             st == IF i.enabled THEN "IDLE" ELSE "DISABLED"
             s == CloseRuntime(i.session, e.at, "EXTERNAL_ACTUATOR_STATE_CHANGE")
             reason == "EXTERNAL_ACTUATOR_STATE_CHANGE"
  <2>1. d = FinalizeSoaking(i, "T33", st, acts, s, reason)
    BY DEF FinalizeSoakingExternal
  <2>2. st \notin {"WATERING", "SOAKING"}
    OBVIOUS
  <2> HIDE DEF acts, st, s, reason
  <2> QED BY <2>1, <2>2, SoakEnds
<1>5. Careful(i, OffSeen(e), NoOp(i))
      /\ Careful(i, OffSeen(e), Go(i, "T37", "SOAKING", <<Persist>>))
  BY <1>1, NoOpCareful, PlainMade, UnremovingLists, SessionStays
<1>6. \/ d = SoakingMoisture(i, e.obs) \/ d = SoakingDeadlineOrEvaluate(i, e)
      \/ d = SoakingGrace(i)
      => Careful(i, OffSeen(e), d)
  BY <1>1, SoakingReportCareful
<1>7. \/ d = FinalizeSoakingFault(i, "T32", "ACTUATOR_FAULT", "ACTUATOR_UNAVAILABLE")
      \/ d = FinalizeSoakingCancel(i, "T35", "USER_STOP", "IDLE")
      \/ d = FinalizeSoakingCancel(i, "T36", "ZONE_DISABLED", "DISABLED")
      \/ d = FinalizeSoakingCancel(i, "T38", "CONFIG_RELOAD", "IDLE")
      \/ d = FinalizeSoakingCancel(i, "T39", "CONFIG_CHANGED", "IDLE")
      => Careful(i, OffSeen(e), d)
  BY <1>1, FinalizeSoakingCareful
<1>8. Careful(i, OffSeen(e), d)
  BY <1>2, <1>3, <1>4, <1>5, <1>6, <1>7
<1> QED BY <1>8 DEF d
-----------------------------------------------------------------------------
(* All decisions of a running zone and of startup. *)

(* The events this model sends: nobody starts a manual run, and no OFF is  *)
(* dated before the clock began.                                           *)
Heard == {e \in Events : e.kind # "ManualStartRequested" /\ (OffSeen(e) => e.at \in Nat)}

Fine(i, off, d) == Typed(d) /\ Careful(i, off, d)

(* Every event of a running zone. *)
LEMMA DecisionFine ==
  ASSUME NEW i \in Situations, i.now \in Nat, NEW e \in Heard, Sound(i.state, i.session)
  PROVE  Fine(i, OffSeen(e), Decide(i, e))
<1> DEFINE d == Decide(i, e)
<1>1. e \in Events /\ e.kind # "ManualStartRequested" /\ (e.kind = "OffConfirmed" => e.at \in Nat)
  BY DEF Heard, OffSeen
<1>2. /\ Owning(i.state, i.session)
      /\ i.state \in {"WATERING", "SOAKING"} => i.session \in OpenSessions
  BY DEF Sound, Owning, OpenPulse, Situations, Sessions
<1>3. Typed(d)
  BY <1>1, <1>2, DecisionsJustified
<1>4. /\ i.state = "IDLE" => d = DecideIdle(i, e)
      /\ i.state = "DISABLED" => d = DecideDisabled(i, e)
      /\ i.state = "WATERING" => d = DecideWatering(i, e)
      /\ i.state = "SOAKING" => d = DecideSoaking(i, e)
      /\ i.state = "FAULT" => d = DecideFault(i, e)
  BY <1>1, EventTyped DEF Decide
<1>5. i.state \in {"IDLE", "DISABLED", "WATERING", "SOAKING", "FAULT"}
  BY DEF Situations, States
<1> HIDE DEF d
<1>6. CASE i.state = "IDLE"
  BY <1>1, <1>3, <1>4, <1>6, IdleCareful DEF Fine, d
<1>7. CASE i.state = "DISABLED"
  BY <1>3, <1>4, <1>7, DisabledCareful DEF Fine, d
<1>8. CASE i.state = "WATERING"
  BY <1>1, <1>2, <1>3, <1>4, <1>8, WateringCareful DEF Fine, d
<1>9. CASE i.state = "SOAKING"
  BY <1>1, <1>2, <1>3, <1>4, <1>9, SoakingCareful DEF Fine, d
<1>10. CASE i.state = "FAULT"
  BY <1>1, <1>3, <1>4, <1>10, FaultCareful DEF Fine, d
<1> QED BY <1>5, <1>6, <1>7, <1>8, <1>9, <1>10

(* A zone that a run left WATERING, and what startup finds of its valve. *)
LEMMA StartupFine ==
  ASSUME NEW i \in Situations, i.now \in Nat, i.state = "WATERING", Sound(i.state, i.session),
         NEW finding
  PROVE  Fine(i, finding = "OFF", Decide(i, Startup(finding)))
<1> DEFINE s == [i.session EXCEPT !.pending = "RESTART_RECOVERY"]
           j == [i EXCEPT !.session = s]
           e == At("OffConfirmed", i.now)
           acts == <<Persist, AddBlocker("integration_off_unconfirmed"), ExecuteOff>>
           d == StartupPersistedWatering(i, finding)
<1>1. Decide(i, Startup(finding)) = d
  BY DEF Decide, Startup, DecideWatering, TerminalRequests
<1>2. i.session \in OpenSessions
  BY DEF Sound, OpenPulse, Situations, Sessions
<1>3. Careful(i, finding = "OFF", d)
  BY <1>2, StartupWateringCareful
<1>4. "RESTART_RECOVERY" \in ReasonOrNone
  BY DEF ReasonOrNone, Reasons
<1>5. s \in OpenSessions
  BY <1>2, <1>4 DEF OpenSessions
<1>6. e \in Events /\ OffSeen(e) /\ e.at = i.now
  BY DEF At, Events, OffSeen
<1>7. CASE finding = "OFF"
  <2>1. d = FinalizeWatering(j, "RESTART_RECOVERY", e.at, << >>)
    BY <1>6, <1>7 DEF StartupPersistedWatering
  <2> HIDE DEF d, s
  <2>2. j \in Situations /\ j.session = s
    BY <1>5 DEF Situations, Sessions
  <2> HIDE DEF j, e
  <2>3. << >> \in {<< >>, <<ExecuteOff>>}
    OBVIOUS
  <2>4. Typed(FinalizeWatering(j, "RESTART_RECOVERY", e.at, << >>))
    BY <1>4, <1>5, <1>6, <2>2, <2>3, FinalizeWateringSound
  <2> QED BY <1>1, <1>3, <2>1, <2>4 DEF Fine
<1>8. CASE finding # "OFF"
  <2>1. Made("WATERING", s, i.fault, NoSession, NoReason, acts, d)
    BY <1>8 DEF StartupPersistedWatering, With, Do, Go, NoOp, Made
  <2>2. acts \in Seq(Actions)
    BY PlainActions DEF KeyReasons, Unconfirmed
  <2> HIDE DEF d, s, acts
  <2>3. Typed(d)
    BY <1>5, <2>1, <2>2, OpenIsOpen
       DEF Made, Typed, Situations, Sessions, States, ReasonOrNone, Owning
  <2> QED BY <1>1, <1>3, <2>3 DEF Fine
<1> QED BY <1>7, <1>8

(* A zone that a run left SOAKING. *)
LEMMA StartupSoakingFine ==
  ASSUME NEW i \in Situations, i.now \in Nat, i.state = "SOAKING", Sound(i.state, i.session),
         NEW trusted \in BOOLEAN, NEW off \in BOOLEAN
  PROVE  Fine(i, off, Decide(i, StartupSoaking(trusted)))
<1> DEFINE e == StartupSoaking(trusted)
           d == Decide(i, e)
           any == Event("AutoEvaluate")
           soak == ArmTimer("SOAK_END", i.session.soakEnds)
           at == Grace(i.session)
           grace == ArmTimer("GRACE", at)
           st == IF i.enabled THEN "IDLE" ELSE "DISABLED"
<1>1. i.session \in OpenSessions
  BY DEF Sound, Situations, Sessions
<1>2. any \in Events
  BY DEF any, Event, Events, PlainKinds
<1>3. \/ Made("SOAKING", i.session, i.fault, NoSession, NoReason, << >>, d)
      \/ Made("SOAKING", i.session, i.fault, NoSession, NoReason, <<Persist>> \o <<soak>>, d)
      \/ Made("SOAKING", i.session, i.fault, NoSession, NoReason, <<Persist>> \o <<grace>>, d)
      \/ Made("SOAKING", i.session, i.fault, NoSession, NoReason, <<Persist>> \o << >>, d)
      \/ Made(st, NoSession, i.fault, i.session, "RESTART_RECOVERY", <<Persist>>, d)
  <2>1. CASE i.session.pending # NoReason
    <3>1. d = NoOp(i)
      BY <2>1 DEF Decide, StartupSoaking, DecideSoaking, DecideSoakingPending
    <3> HIDE DEF d
    <3> QED BY <3>1, PlainMade
  <2>2. CASE i.session.pending = NoReason
    <3>1. d = StartupPersistedSoaking(i, e)
      BY <2>2 DEF Decide, StartupSoaking, DecideSoaking, DecideSoakingOpen
    <3>2. e.trusted = trusted /\ e.unsafeFault = NoFault
      BY DEF StartupSoaking
    <3> HIDE DEF e, d
    <3>3. CASE trusted
      BY <3>1, <3>2, <3>3 DEF StartupPersistedSoaking, Go, NoOp, Made
    <3>4. CASE ~trusted
      BY <3>1, <3>2, <3>4 DEF StartupPersistedSoaking, FinalizeSoaking, Close, Go, NoOp, Made
    <3> QED BY <3>3, <3>4
  <2> QED BY <2>1, <2>2
<1>4. ASSUME NEW t, Soaking(t), Unremoving(t)
      PROVE  Soaking(<<Persist>> \o t) /\ Unremoving(<<Persist>> \o t)
  <2>1. Soaking(<<Persist>>) /\ Unremoving(<<Persist>>)
    BY SoakTuples, UnremovingLists
  <2> QED BY <1>4, <2>1, HasInConcat DEF Soaking, Unremoving
<1>5. /\ Soaking(<<soak>>) /\ Soaking(<<grace>>) /\ Soaking(<< >>)
      /\ Unremoving(<<soak>>) /\ Unremoving(<<grace>>) /\ Unremoving(<< >>)
  <2>1. at \in Int /\ i.session.soakEnds \in Int
    BY <1>1, Constants DEF Grace, OpenSessions
  <2> HIDE DEF at
  <2>2. soak \in Actions /\ grace \in Actions
    BY <2>1, PlainActions DEF TimerKinds
  <2>3. Soaking(<<soak>>) /\ Soaking(<<grace>>)
    BY <2>2 DEF Soaking, ArmTimer, TurnOn, RemoveBlocker
  <2> QED BY <2>3, SoakTuples, UnremovingLists
<1>6. i.fault \in FaultOrNone /\ st \in States /\ st \notin {"WATERING", "SOAKING"}
      /\ "RESTART_RECOVERY" \in ReasonOrNone /\ ~OpenPulse(i.session)
  BY DEF Situations, States, ReasonOrNone, Reasons, Sound
<1>7. /\ <<Persist>> \in Seq(Actions)
      /\ \A n \in DOMAIN <<Persist>> : <<Persist>>[n] \notin {TurnOn, RequestSlot}
      /\ \A n \in DOMAIN <<Persist>> : <<Persist>>[n] # RemoveBlocker(Unconfirmed)
  BY PlainActions DEF Persist, TurnOn, RequestSlot, RemoveBlocker
<1> HIDE DEF d, e, st, soak, grace, at, any
<1>8. CASE Made(st, NoSession, i.fault, i.session, "RESTART_RECOVERY", <<Persist>>, d)
  <2>1. Typed(d)
    BY <1>1, <1>2, <1>6, <1>7, <1>8, CloseSound
  <2>2. Careful(i, off, d)
    BY <1>6, <1>8, UnremovingLists, PulseEnds DEF Unremoving
  <2> QED BY <2>1, <2>2 DEF Fine, d, e
<1>9. ASSUME NEW acts, Soaking(acts), Unremoving(acts),
             Made("SOAKING", i.session, i.fault, NoSession, NoReason, acts, d)
      PROVE  Fine(i, off, d)
  <2>1. Typed(d)
    BY <1>1, <1>2, <1>9, SoakOnSound
  <2>2. Careful(i, off, d)
    BY <1>9, SessionStays
  <2> QED BY <2>1, <2>2 DEF Fine
<1>10. Fine(i, off, d)
  BY <1>3, <1>4, <1>5, <1>8, <1>9, SoakTuples, UnremovingLists DEF d, e
<1> QED BY <1>10 DEF d, e

(* What the compensation of an ON command decides: to end the session, or  *)
(* nothing.  It has an open pulse afterwards if it had one before.         *)
LEMMA CompensationFine ==
  ASSUME NEW i \in Situations, i.now \in Nat, Sound(i.state, i.session),
         NEW kind \in {"OnConfirmTimeout", "ConfigChangedPrepare"}
  PROVE  LET d == Decide(i, Event(kind))
             s == IF d.session # NoSession THEN d.session ELSE i.session
         IN  /\ Typed(d) /\ Sound(d.state, s) /\ s \in Sessions
             /\ OpenPulse(s) = OpenPulse(i.session)
<1> DEFINE e == Event(kind)
           d == Decide(i, e)
           s == IF d.session # NoSession THEN d.session ELSE i.session
<1>0. d = Decide(i, e)
  OBVIOUS
<1>1. e \in Heard /\ e.kind = kind /\ ~OffSeen(e)
  BY DEF Heard, Event, Events, PlainKinds, OffSeen
<1>2. Typed(d) /\ Careful(i, OffSeen(e), d)
  BY <1>0, <1>1, DecisionFine DEF Fine
<1>3. i.session \in Sessions
  BY DEF Situations
<1> HIDE DEF d, e
<1>4. \/ d = NoOp(i)
      \/ (i.state = "WATERING" /\ \E reason, fault : d = CommitTermination(i, reason, fault))
      \/ (i.state = "SOAKING" /\ d = FinalizeSoakingCancel(i, "T39", "CONFIG_CHANGED", "IDLE"))
  <2>1. i.state \in States /\ e.kind \notin {"StoreIntegrityLost", "ConfigurationInvalid"}
    BY <1>1 DEF Situations
  <2>2. CASE i.state = "WATERING"
    <3>1. d = DecideWatering(i, e)
      BY <1>0, <2>1, <2>2 DEF Decide
    <3>2. CASE e.kind = "ConfigChangedPrepare"
      <4>1. d = NoOp(i) \/ d = CommitTermination(i, "CONFIG_CHANGED", NoFault)
        BY <3>1, <3>2 DEF DecideWatering, TerminalRequests
      <4> QED BY <2>2, <4>1
    <3>3. CASE e.kind = "OnConfirmTimeout"
      <4>1. d = NoOp(i) \/ d = CommitTermination(i, "ACTUATOR_FAULT", "ACTUATOR_ON_TIMEOUT")
        BY <3>1, <3>3 DEF DecideWatering, TerminalRequests
      <4> QED BY <2>2, <4>1
    <3> QED BY <1>1, <3>2, <3>3
  <2>3. CASE i.state = "SOAKING"
    <3>1. d = DecideSoaking(i, e)
      BY <1>0, <2>1, <2>3 DEF Decide
    <3> QED BY <1>1, <2>3, <3>1 DEF DecideSoaking, DecideSoakingOpen, DecideSoakingPending
  <2>4. CASE i.state \notin {"WATERING", "SOAKING"}
    <3>1. \/ (i.state = "IDLE" /\ d = DecideIdle(i, e))
          \/ (i.state = "DISABLED" /\ d = DecideDisabled(i, e))
          \/ (i.state = "FAULT" /\ d = DecideFault(i, e))
      BY <1>0, <2>1, <2>4 DEF Decide, States
    <3> QED BY <1>1, <3>1 DEF DecideIdle, DecideDisabled, DecideFault
  <2> QED BY <2>2, <2>3, <2>4
<1>5. CASE d = NoOp(i)
  <2>1. d.session = i.session /\ d.state = i.state
    BY <1>5 DEF NoOp
  <2>2. s = i.session
    BY <2>1
  <2> HIDE DEF s
  <2> QED BY <1>2, <1>3, <2>1, <2>2 DEF d, e, s
<1>6. ASSUME i.state = "WATERING",
             NEW reason, NEW fault, d = CommitTermination(i, reason, fault)
      PROVE  d.session # NoSession /\ OpenPulse(d.session) /\ OpenPulse(i.session)
  BY <1>1, <1>2, <1>6 DEF Careful, Sound, OpenPulse
<1>7. CASE i.state = "SOAKING" /\ d = FinalizeSoakingCancel(i, "T39", "CONFIG_CHANGED", "IDLE")
  <2>1. d.state = "IDLE" /\ d.session = NoSession
    BY <1>7 DEF FinalizeSoakingCancel, FinalizeSoaking, Close, Go, NoOp
  <2> QED BY <1>2, <1>3, <2>1 DEF Sound, d, e
<1>8. CASE i.state = "WATERING" /\ \E reason, fault : d = CommitTermination(i, reason, fault)
  <2>1. d.session # NoSession /\ OpenPulse(d.session) /\ OpenPulse(i.session)
    BY <1>6, <1>8
  <2> QED BY <1>2, <2>1 DEF Careful, Typed, d, e
<1> QED BY <1>4, <1>5, <1>7, <1>8 DEF d, e
-----------------------------------------------------------------------------
(* Sequences and what is in them. *)

LEMMA Appended ==
  ASSUME NEW S, NEW q \in Seq(S), NEW x \in S
  PROVE  Append(q, x) \in Seq(S) /\ Range(Append(q, x)) = Range(q) \cup {x}
<1>1. /\ Append(q, x) \in Seq(S) /\ Len(Append(q, x)) = Len(q) + 1 /\ Len(q) \in Nat
      /\ \A n \in 1 .. Len(q) : Append(q, x)[n] = q[n]
      /\ Append(q, x)[Len(q) + 1] = x
      /\ DOMAIN q = 1 .. Len(q) /\ DOMAIN Append(q, x) = 1 .. Len(q) + 1
  BY AppendProperties, LenProperties
<1> QED BY <1>1 DEF Range

LEMMA Popped ==
  ASSUME NEW S, NEW q \in Seq(S), q # << >>
  PROVE  Head(q) \in S /\ Tail(q) \in Seq(S) /\ Range(q) = {Head(q)} \cup Range(Tail(q))
<1>1. /\ Head(q) = q[1] /\ Head(q) \in S
      /\ Tail(q) \in Seq(S) /\ Len(Tail(q)) = Len(q) - 1 /\ Len(q) \in Nat /\ Len(q) > 0
      /\ \A n \in 1 .. Len(q) - 1 : Tail(q)[n] = q[n + 1]
      /\ DOMAIN q = 1 .. Len(q) /\ DOMAIN Tail(q) = 1 .. Len(q) - 1
  <2>1. Len(q) \in Nat /\ DOMAIN q = 1 .. Len(q) /\ Len(q) > 0
    BY EmptySeq, LenProperties
  <2>2. Head(q) = q[1]
    OBVIOUS
  <2>3. /\ Head(q) \in S /\ Tail(q) \in Seq(S) /\ Len(Tail(q)) = Len(q) - 1
        /\ \A n \in 1 .. Len(Tail(q)) : Tail(q)[n] = q[n + 1]
    BY HeadTailProperties
  <2>4. DOMAIN Tail(q) = 1 .. Len(Tail(q))
    BY <2>3, LenProperties
  <2> QED BY <2>1, <2>2, <2>3, <2>4
<1>2. \A n \in 1 .. Len(q) : n = 1 \/ (n - 1 \in 1 .. Len(q) - 1 /\ q[n] = Tail(q)[n - 1])
  BY <1>1
<1>3. 1 \in 1 .. Len(q)
  BY <1>1
<1>4. \A n \in 1 .. Len(q) - 1 : n + 1 \in 1 .. Len(q)
  BY <1>1
<1>5. Range(Tail(q)) \subseteq Range(q) /\ q[1] \in Range(q)
  BY <1>1, <1>3, <1>4 DEF Range
<1>6. \A n \in 1 .. Len(q) : q[n] = q[1] \/ q[n] \in Range(Tail(q))
  BY <1>1, <1>2 DEF Range
<1>7. Range(q) \subseteq {q[1]} \cup Range(Tail(q))
  BY <1>1, <1>6 DEF Range
<1> QED BY <1>1, <1>5, <1>7

LEMMA Joined ==
  ASSUME NEW S, NEW q \in Seq(S), NEW r \in Seq(S)
  PROVE  q \o r \in Seq(S) /\ Range(q \o r) = Range(q) \cup Range(r)
<1>1. /\ q \o r \in Seq(S) /\ Len(q \o r) = Len(q) + Len(r) /\ Len(q) \in Nat /\ Len(r) \in Nat
      /\ \A n \in 1 .. Len(q) + Len(r) :
           (q \o r)[n] = IF n <= Len(q) THEN q[n] ELSE r[n - Len(q)]
      /\ DOMAIN q = 1 .. Len(q) /\ DOMAIN r = 1 .. Len(r)
      /\ DOMAIN (q \o r) = 1 .. Len(q) + Len(r)
  BY ConcatProperties, LenProperties
<1>2. ASSUME NEW n \in 1 .. Len(r)
      PROVE  Len(q) + n \in 1 .. Len(q) + Len(r) /\ (q \o r)[Len(q) + n] = r[n]
  BY <1>1
<1>3. ASSUME NEW n \in 1 .. Len(q)
      PROVE  n \in 1 .. Len(q) + Len(r) /\ (q \o r)[n] = q[n]
  BY <1>1
<1>4. ASSUME NEW n \in 1 .. Len(q) + Len(r)
      PROVE  (q \o r)[n] \in Range(q) \cup Range(r)
  <2>1. CASE n <= Len(q)
    <3>1. n \in DOMAIN q /\ (q \o r)[n] = q[n]
      BY <1>1, <2>1
    <3> QED BY <3>1 DEF Range
  <2>2. CASE ~(n <= Len(q))
    <3>1. n - Len(q) \in 1 .. Len(r) /\ (q \o r)[n] = r[n - Len(q)]
      BY <1>1, <2>2
    <3> QED BY <1>1, <3>1 DEF Range
  <2> QED BY <2>1, <2>2
<1>5. ASSUME NEW x \in Range(q \o r)
      PROVE  x \in Range(q) \cup Range(r)
  <2>1. PICK n \in DOMAIN (q \o r) : x = (q \o r)[n]
    BY DEF Range
  <2>2. n \in 1 .. Len(q) + Len(r)
    BY <1>1, <2>1
  <2> QED BY <1>4, <2>1, <2>2
<1>6. ASSUME NEW x \in Range(q)
      PROVE  x \in Range(q \o r)
  <2>1. PICK n \in 1 .. Len(q) : x = q[n]
    BY <1>1 DEF Range
  <2>2. x = (q \o r)[n] /\ n \in DOMAIN (q \o r)
    BY <1>1, <1>3, <2>1
  <2> QED BY <2>2 DEF Range
<1>7. ASSUME NEW x \in Range(r)
      PROVE  x \in Range(q \o r)
  <2>1. PICK n \in 1 .. Len(r) : x = r[n]
    BY <1>1 DEF Range
  <2>2. x = (q \o r)[Len(q) + n] /\ Len(q) + n \in DOMAIN (q \o r)
    BY <1>1, <1>2, <2>1
  <2> QED BY <2>2 DEF Range
<1> QED BY <1>1, <1>5, <1>6, <1>7

(* What is dropped after a failed write is dropped from the front. *)
LEMMA OnwardKeeps ==
  ASSUME NEW S, NEW q \in Seq(S)
  PROVE  Onward(q) \in Seq(S) /\ Range(Onward(q)) \subseteq Range(q)
<1>1. CASE \E n \in DOMAIN q : GoesOn(q, n)
  <2> DEFINE k == CHOOSE n \in DOMAIN q : GoesOn(q, n)
  <2>1. k \in 1 .. Len(q) /\ Len(q) \in Nat
    BY <1>1, LenProperties
  <2>2. Onward(q) = SubSeq(q, k, Len(q))
    BY <1>1 DEF Onward
  <2> HIDE DEF k
  <2>3. Onward(q) \in Seq(S) /\ DOMAIN Onward(q) = 1 .. Len(q) - k + 1
        /\ \A n \in 1 .. Len(q) - k + 1 : Onward(q)[n] = q[k + n - 1] /\ k + n - 1 \in DOMAIN q
    BY <2>1, <2>2, SubSeqProperties, LenProperties
  <2> QED BY <2>3 DEF Range
<1>2. CASE ~ \E n \in DOMAIN q : GoesOn(q, n)
  BY <1>2 DEF Onward, Range
<1> QED BY <1>1, <1>2

(* The short lists this model writes down. *)
LEMMA Tuples ==
  /\ Range(<< >>) = {}
  /\ \A a : Range(<<a>>) = {a}
  /\ \A a, b : Range(<<a, b>>) = {a, b}
  /\ \A S : << >> \in Seq(S)
  /\ \A S : \A a \in S : <<a>> \in Seq(S)
  /\ \A S : \A a \in S, b \in S : <<a, b>> \in Seq(S)
<1>1. Range(<< >>) = {}
  BY DEF Range
<1>2. ASSUME NEW a
      PROVE  Range(<<a>>) = {a}
  <2>1. DOMAIN <<a>> = {1} /\ <<a>>[1] = a
    OBVIOUS
  <2> QED BY <2>1 DEF Range
<1>3. ASSUME NEW a, NEW b
      PROVE  Range(<<a, b>>) = {a, b}
  <2>1. DOMAIN <<a, b>> = {1, 2} /\ <<a, b>>[1] = a /\ <<a, b>>[2] = b
    OBVIOUS
  <2> QED BY <2>1 DEF Range
<1> QED BY <1>1, <1>2, <1>3
-----------------------------------------------------------------------------
(* Types.                                                                  *)

(* The rest of a coroutine, and all that a lock holder may have to do.     *)
Rests ==
    [act : {"EndOn", "EndOffer", "BeginOff", "ShutdownOff", "Return"}]
      \cup [act : {"EndOff"}, result : {"proven", "failed"}]
Steps == Actions \cup Rests \cup [act : {"Dispatch"}, event : Heard]
Todos == Steps \cup {ClearKey}

(* The keys go before anything else, and nothing is left to persist then.  *)
KeysFirst(q) == \A n \in DOMAIN q : q[n] = ClearKey => n = 1 /\ Persist \notin Range(q)

Views == {a \in Actuators : a.available /\ ~a.observedOn => a.provenOff}
Messages ==
    [kind : {"Call"}, event : Heard, rest : Seq(Rests)]
      \cup [kind : {"ActuatorChange"}, prev : Actuators, cur : Views, at : Nat]

Controllers ==
    [attached : BOOLEAN, state : States, enabled : BOOLEAN, session : Sessions, run : Nat,
     fault : FaultOrNone, externalOn : BOOLEAN, daily : Int, lastEnd : Int,
     eligible : BOOLEAN, persistFailed : BOOLEAN, timers : SUBSET (TimerKinds \X Int),
     waiting : BOOLEAN, onRequested : BOOLEAN, offRequested : BOOLEAN,
     on : {"none", "call", "commit"}, dispatchedAt : Int, ackAt : Int,
     off : {"none", "running", "reporting", "proven", "failed"},
     todo : Seq(Todos), inbox : Seq(Messages)]

(* A controller fits when its state fits its session.                      *)
Fitting ==
    {c \in Controllers : /\ Sound(c.state, c.session) /\ KeysFirst(c.todo)
                         /\ ~c.attached => c = Detached}

FullRecords ==
    {r \in [state : States, enabled : BOOLEAN, session : Sessions, run : Nat,
            fault : FaultOrNone, daily : Int, lastEnd : Int,
            blockers : SUBSET BlockerReasons, flowOwner : FlowOwners] :
       Sound(r.state, r.session)}
ZoneRecords == FullRecords \cup {NoRecord}
Snapshots == [status : {"valid"}, active : Nat, clean : Nat, zones : [Zones -> ZoneRecords]]
Files == {Absent, Damaged} \cup Snapshots

Setup == {"first", "rebuild", "begin", "records", "attach", "reread"}
Stopping == {"signal", "await", "persist", "stopped"}
Phases == {"down", "up", "unload", "orphaned"} \cup Setup \cup Stopping

(* Of the slot only one field has a type here. *)
IsSlots(s) == "grantsEnabled" \in DOMAIN s
RuntimesOn(s) ==
    [phase : Phases, run : Nat, mem : Files, previous : Nat, previousClean : BOOLEAN,
     zone : [Zones -> Fitting], slots : {s}, todo : SUBSET Zones, stopping : BOOLEAN,
     deadline : Int, watering : SUBSET Zones, preserved : SUBSET Zones, failures : BOOLEAN]
IsRuntime(p) == p \in RuntimesOn(p.slots) /\ IsSlots(p.slots)

IsWorld ==
    /\ now \in Nat
    /\ water \in [Zones -> {"closed", "ours", "theirs"}]
    /\ seen \in [Zones -> BOOLEAN] /\ latent \in [Zones -> BOOLEAN]

LEMMA ConstantsTyped ==
  /\ PulseDuration \in Nat /\ SoakDuration \in Nat /\ MaxCycles \in Nat \ {0}
  /\ MaxSessionRuntime \in Nat /\ MaxDailyRuntime \in Nat /\ SensorMaxAge \in Nat
  /\ ActuatorConfirmTimeout \in Nat
  /\ ShutdownBudget \in Nat /\ Readings \subseteq Int /\ AnyReading \in Readings
  /\ NoZone \notin Zones /\ Commands \subseteq Heard
<1>1. \A e \in Commands : e \in Heard
  BY RecoveryAssumption DEF Heard, Events, PlainKinds, OffSeen
<1>2. AnyReading \in Readings
  BY RecoveryAssumption DEF AnyReading
<1> QED BY <1>1, <1>2, ConfigAssumption, RecoveryAssumption, NoZoneAssumption DEF ConfigValid

LEMMA AssessTyped ==
  ASSUME NEW w \in {"closed", "ours", "theirs"}, NEW s \in BOOLEAN
  PROVE  /\ Assess(w, s) \in Views /\ Assess(w, s) \in Actuators
         /\ Assess(w, s).provenOff = (s /\ w = "closed")
         /\ Assess(w, s).observedOn = (s /\ w # "closed")
         /\ Assess(w, s).available = s
BY DEF Assess, Views, Actuators

LEMMA AssessmentTyped ==
  ASSUME IsWorld, NEW z \in Zones
  PROVE  /\ Assessment(z) \in Views /\ Assessment(z) \in Actuators
         /\ Assessment(z).provenOff = (seen[z] /\ water[z] = "closed")
         /\ Assessment(z).observedOn = (seen[z] /\ water[z] # "closed")
         /\ Assessment(z).available = seen[z]
<1>1. water[z] \in {"closed", "ours", "theirs"} /\ seen[z] \in BOOLEAN
  BY DEF IsWorld
<1> QED BY <1>1, AssessTyped DEF Assessment

(* What a decision is made from. *)
LEMMA InputTyped ==
  ASSUME IsWorld, NEW z \in Zones, NEW p, NEW c \in Controllers, Sound(c.state, c.session),
         NEW v \in Int
  PROVE  /\ Input(p, z, c, v) \in Situations
         /\ Input(p, z, c, v).now = now /\ Input(p, z, c, v).now \in Nat
         /\ Input(p, z, c, v).state = c.state /\ Input(p, z, c, v).session = c.session
<1>1. Reading(v) \in Reports
  BY DEF IsWorld, Reading, Reports, Classes
<1>2. Token(0, NoTime) \in Tokens
  BY DEF Token, Tokens, NoTime
<1>3. now \in Nat /\ now \in Int
  BY DEF IsWorld
<1>4. /\ c.state \in States /\ c.enabled \in BOOLEAN /\ c.session \in Sessions
      /\ c.fault \in FaultOrNone /\ c.daily \in Int /\ c.lastEnd \in Int /\ c.externalOn \in BOOLEAN
  BY DEF Controllers
<1>5. (p.slots.owner = z) \in BOOLEAN /\ (p.slots.blockers = {}) \in BOOLEAN
  OBVIOUS
<1> QED BY <1>1, <1>2, <1>3, <1>4, <1>5, AssessmentTyped DEF Input, Situations

LEMMA DetachedFits ==
  /\ Detached \in Fitting /\ Detached.attached = FALSE
  /\ Detached.todo = << >> /\ Detached.inbox = << >>
<1>1. KeysFirst(<< >>) /\ << >> \in Seq(Todos) /\ << >> \in Seq(Messages)
  BY DEF KeysFirst
<1>2. Detached \in Controllers
  BY <1>1 DEF Detached, Controllers, States, Sessions, FaultOrNone, NoRun, NoTime
<1> QED BY <1>1, <1>2 DEF Fitting, Sound, Detached
-----------------------------------------------------------------------------
(* What a controller keeps through everything it does on its own. *)

TellsOff(m) == IF m.kind = "Call" THEN OffSeen(m.event) ELSE m.cur.provenOff
OffWaits(c) ==
    \/ \E a \in Range(c.todo) : a.act = "Dispatch" /\ OffSeen(a.event)
    \/ \E m \in Range(c.inbox) : TellsOff(m)

(* Its pulse is open, and nothing it still has to hear will close it.      *)
Wet(c) == OpenPulse(c.session) /\ ~OffWaits(c)

(* Its pulse is none that it believes to be in the file.                   *)
Unsaved(c) == c.persistFailed \/ ~OpenPulse(c.session) \/ Persist \in Range(c.todo)

Follows(c, d) ==
    /\ d \in Fitting /\ d.attached = c.attached
    /\ d.eligible => c.eligible
    /\ c.persistFailed => d.persistFailed
    /\ Wet(c) => Wet(d)
    /\ Unsaved(c) => Unsaved(d)

LEMMA FollowsItself == ASSUME NEW c \in Fitting PROVE Follows(c, c)
BY DEF Follows

LEMMA FollowsOn ==
  ASSUME NEW b, NEW c, NEW d, Follows(b, c), Follows(c, d)
  PROVE  Follows(b, d)
BY DEF Follows

LEMMA FittingFits ==
  ASSUME NEW c \in Fitting
  PROVE  /\ c \in Controllers /\ Sound(c.state, c.session) /\ KeysFirst(c.todo)
         /\ c.session \in Sessions /\ c.state \in States /\ c.todo \in Seq(Todos)
         /\ c.inbox \in Seq(Messages)
BY DEF Fitting, Controllers

(* The fields by which a controller follows another. *)
LEMMA FollowsBy ==
  ASSUME NEW c \in Fitting, NEW d \in Controllers, c.attached, d.attached,
         Sound(d.state, d.session), KeysFirst(d.todo),
         d.eligible => c.eligible, c.persistFailed => d.persistFailed,
         OpenPulse(d.session) = OpenPulse(c.session),
         Range(d.todo) \subseteq Range(c.todo),
         Persist \in Range(c.todo) => Persist \in Range(d.todo) \/ d.persistFailed,
         \A m \in Range(d.inbox) : m \in Range(c.inbox) \/ ~TellsOff(m)
  PROVE  Follows(c, d)
<1>1. d \in Fitting
  BY DEF Fitting
<1>2. OffWaits(d) => OffWaits(c)
  BY DEF OffWaits
<1> QED BY <1>1, <1>2, FittingFits DEF Follows, Wet, Unsaved

LEMMA StartOffFollows ==
  ASSUME NEW c \in Fitting, c.attached, NEW z
  PROVE  Follows(c, StartOff(z, c))
<1> DEFINE d == [c EXCEPT !.off = "running"]
<1>1. c \in Controllers
  BY FittingFits
<1>2. /\ d \in Controllers /\ d.attached = c.attached /\ d.state = c.state /\ d.session = c.session
      /\ d.todo = c.todo /\ d.inbox = c.inbox /\ d.eligible = c.eligible
      /\ d.persistFailed = c.persistFailed
  BY <1>1 DEF Controllers
<1> HIDE DEF d
<1>3. Follows(c, d)
  BY <1>2, FittingFits, FollowsBy
<1> QED BY <1>3, FollowsItself DEF StartOff, d

LEMMA QuiesceFollows ==
  ASSUME NEW c \in Fitting, c.attached
  PROVE  Follows(c, Quiesce(c)) /\ Quiesce(c).eligible = FALSE
<1> DEFINE d == Quiesce(c)
<1>1. c \in Controllers
  BY FittingFits
<1>2. /\ d \in Controllers /\ d.attached = c.attached /\ d.state = c.state /\ d.session = c.session
      /\ d.todo = c.todo /\ d.inbox = c.inbox /\ d.eligible = FALSE
      /\ d.persistFailed = c.persistFailed
  BY <1>1 DEF Controllers, Quiesce
<1> HIDE DEF d
<1>3. Follows(c, d)
  BY <1>2, FittingFits, FollowsBy
<1> QED BY <1>2, <1>3 DEF d

(* The command time joins the session; its pulse stays.                    *)
LEMMA RecordFollows ==
  ASSUME NEW c \in Fitting, c.attached
  PROVE  /\ Follows(c, RecordPossibleCommand(c))
         /\ RecordPossibleCommand(c).todo = c.todo
<1> DEFINE s == [c.session EXCEPT !.commanded = c.dispatchedAt]
           d == [c EXCEPT !.session.commanded = c.dispatchedAt]
<1>1. CASE c.session # NoSession /\ c.session.commanded = NoTime
  <2>1. c \in Controllers /\ c.session \in OpenSessions /\ c.dispatchedAt \in Int
    BY <1>1, FittingFits DEF Controllers, Sessions
  <2>2. s \in OpenSessions /\ s # NoSession
    BY <2>1, OpenIsOpen DEF OpenSessions
  <2>3. OpenPulse(s) = OpenPulse(c.session) /\ s.cycle = c.session.cycle
    BY <1>1, <2>1, <2>2 DEF OpenPulse, OpenSessions
  <2>4. d.session = s /\ d = [c EXCEPT !.session = s]
    BY <2>1 DEF Controllers
  <2> HIDE DEF s, d
  <2>5. /\ d \in Controllers /\ d.attached = c.attached /\ d.state = c.state
        /\ d.todo = c.todo /\ d.inbox = c.inbox /\ d.eligible = c.eligible
        /\ d.persistFailed = c.persistFailed
    BY <2>1, <2>2, <2>4 DEF Controllers, Sessions
  <2>6. Sound(d.state, d.session)
    BY <1>1, <2>2, <2>3, <2>4, <2>5, FittingFits DEF Sound
  <2>7. Follows(c, d)
    BY <2>3, <2>4, <2>5, <2>6, FittingFits, FollowsBy
  <2> QED BY <1>1, <2>5, <2>7 DEF RecordPossibleCommand, d
<1>2. CASE ~(c.session # NoSession /\ c.session.commanded = NoTime)
  BY <1>2, FollowsItself DEF RecordPossibleCommand
<1> QED BY <1>1, <1>2

LEMMA SendFollows ==
  ASSUME NEW c \in Fitting, c.attached, NEW m \in Messages, ~TellsOff(m)
  PROVE  Follows(c, Send(c, m))
<1> DEFINE d == Send(c, m)
<1>1. c \in Controllers /\ c.inbox \in Seq(Messages)
  BY FittingFits
<1>2. Append(c.inbox, m) \in Seq(Messages) /\ Range(Append(c.inbox, m)) = Range(c.inbox) \cup {m}
  BY <1>1, Appended
<1>3. /\ d \in Controllers /\ d.attached = c.attached /\ d.state = c.state /\ d.session = c.session
      /\ d.todo = c.todo /\ d.inbox = Append(c.inbox, m) /\ d.eligible = c.eligible
      /\ d.persistFailed = c.persistFailed
  BY <1>1, <1>2 DEF Controllers, Send
<1> HIDE DEF d
<1>4. Follows(c, d)
  BY <1>2, <1>3, FittingFits, FollowsBy
<1> QED BY <1>4 DEF d

LEMMA Narrowed ==
  ASSUME NEW S, NEW T, NEW q \in Seq(S), Range(q) \subseteq T
  PROVE  q \in Seq(T)
<1>1. Len(q) \in Nat /\ q \in [1 .. Len(q) -> S]
  BY LenProperties
<1>2. \A n \in 1 .. Len(q) : q[n] \in Range(q)
  BY <1>1 DEF Range
<1>3. q \in [1 .. Len(q) -> T]
  BY <1>1, <1>2
<1> QED BY <1>1, <1>3, SeqDef

LEMMA NoKeys ==
  /\ \A q \in Seq(Steps) : q \in Seq(Todos) /\ KeysFirst(q)
  /\ \A q \in Seq(Rests) : q \in Seq(Steps)
  /\ \A q \in Seq(Actions) : q \in Seq(Steps)
  /\ ClearKey \notin Steps /\ Persist \in Actions /\ Persist \notin Rests
<1>1. ClearKey \notin Steps /\ Persist \in Actions /\ Persist \notin Rests
  BY DEF ClearKey, Steps, Actions, Rests, Persist
<1>2. ASSUME NEW q \in Seq(Steps)
      PROVE  q \in Seq(Todos) /\ KeysFirst(q)
  <2>1. Range(q) \subseteq Steps
    BY LenProperties DEF Range
  <2>2. q \in Seq(Todos)
    BY <2>1, Narrowed DEF Todos
  <2>3. \A n \in DOMAIN q : q[n] \in Steps
    BY <2>1 DEF Range
  <2> QED BY <1>1, <2>2, <2>3 DEF KeysFirst
<1>3. \A T : \A q \in Seq(T) : Range(q) \subseteq T
  BY LenProperties DEF Range
<1>4. Rests \subseteq Steps /\ Actions \subseteq Steps
  BY DEF Steps
<1>5. ASSUME NEW q \in Seq(Rests)
      PROVE  q \in Seq(Steps)
  BY <1>3, <1>4, Narrowed
<1>6. ASSUME NEW q \in Seq(Actions)
      PROVE  q \in Seq(Steps)
  BY <1>3, <1>4, Narrowed
<1> QED BY <1>1, <1>2, <1>5, <1>6

(* The lock holder goes on to its next action. *)
LEMMA RestFollows ==
  ASSUME NEW c \in Fitting, c.attached, c.todo # << >>
  PROVE  /\ Rest(c) \in Fitting /\ Rest(c).attached /\ Rest(c).todo \in Seq(Steps)
         /\ Rest(c) = [c EXCEPT !.todo = Tail(c.todo)]
         /\ Head(c.todo) \in Todos
         /\ Head(c.todo) # Persist => Follows(c, Rest(c))
         /\ Wet(c) => Wet(Rest(c))
         /\ Wet(c) /\ Head(c.todo).act = "Dispatch" => ~OffSeen(Head(c.todo).event)
         /\ Head(c.todo) = ClearKey => Persist \notin Range(c.todo)
<1> DEFINE q == c.todo
           d == [c EXCEPT !.todo = Tail(q)]
<1>1. c \in Controllers /\ q \in Seq(Todos) /\ KeysFirst(q)
  BY FittingFits
<1>2. /\ Head(q) \in Todos /\ Tail(q) \in Seq(Todos) /\ Range(q) = {Head(q)} \cup Range(Tail(q))
      /\ Head(q) = q[1] /\ Len(q) \in Nat /\ Len(q) > 0 /\ DOMAIN q = 1 .. Len(q)
      /\ DOMAIN Tail(q) = 1 .. Len(q) - 1
      /\ \A n \in 1 .. Len(q) - 1 : Tail(q)[n] = q[n + 1]
  <2>1. /\ Head(q) \in Todos /\ Tail(q) \in Seq(Todos) /\ Range(q) = {Head(q)} \cup Range(Tail(q))
    BY <1>1, Popped
  <2>2. Len(q) \in Nat /\ DOMAIN q = 1 .. Len(q) /\ Len(q) > 0
    BY <1>1, EmptySeq, LenProperties
  <2>3. Head(q) = q[1]
    OBVIOUS
  <2>4. Len(Tail(q)) = Len(q)-1 /\ \A n \in 1 .. Len(Tail(q)) : Tail(q)[n] = q[n+1]
    BY <1>1, HeadTailProperties
  <2>5. DOMAIN Tail(q) = 1 .. Len(Tail(q))
    BY <2>1, LenProperties
  <2> QED BY <2>1, <2>2, <2>3, <2>4, <2>5
<1>3. \A n \in DOMAIN Tail(q) : Tail(q)[n] # ClearKey
  BY <1>1, <1>2 DEF KeysFirst
<1>4. Range(Tail(q)) \subseteq Steps
  <2>1. \A n \in DOMAIN Tail(q) : Tail(q)[n] \in Todos
    BY <1>2, LenProperties
  <2> QED BY <1>3, <2>1 DEF Range, Todos
<1>5. Tail(q) \in Seq(Steps)
  BY <1>2, <1>4, Narrowed
<1>6. Rest(c) = d
  BY DEF Rest
<1>7. /\ d \in Controllers /\ d.attached = c.attached /\ d.state = c.state /\ d.session = c.session
      /\ d.todo = Tail(q) /\ d.inbox = c.inbox /\ d.eligible = c.eligible
      /\ d.persistFailed = c.persistFailed
  BY <1>1, <1>2 DEF Controllers
<1>8. 1 \in DOMAIN q
  BY <1>2
<1> HIDE DEF q, d
<1>9. KeysFirst(Tail(q))
  BY <1>5, NoKeys
<1>10. d \in Fitting
  BY <1>7, <1>9, FittingFits DEF Fitting
<1>11. OffWaits(d) => OffWaits(c)
  BY <1>2, <1>7 DEF OffWaits, q
<1>12. Wet(c) => Wet(d)
  BY <1>7, <1>11 DEF Wet
<1>13. Head(q) # Persist => Follows(c, d)
  BY <1>2, <1>7, <1>9, FittingFits, FollowsBy DEF q
<1>14. Wet(c) /\ Head(q).act = "Dispatch" => ~OffSeen(Head(q).event)
  BY <1>2 DEF Wet, OffWaits, q
<1>15. Head(q) = ClearKey => Persist \notin Range(q)
  BY <1>1, <1>2, <1>8 DEF KeysFirst
<1> QED BY <1>2, <1>5, <1>6, <1>7, <1>10, <1>12, <1>13, <1>14, <1>15 DEF q, d

(* _apply_locked: a decision is adopted, before the rest of the coroutine. *)
LEMMA AdoptFollows ==
  ASSUME IsWorld, NEW z \in Zones, NEW p, p.run \in Nat, NEW c \in Fitting, c.attached,
         NEW v \in Int, NEW off \in BOOLEAN, NEW d, Fine(Input(p, z, c, v), off, d),
         NEW rest \in Seq(Steps),
         Persist \in Range(c.todo) => Persist \in Range(rest),
         \A a \in Range(rest) : a.act = "Dispatch" /\ OffSeen(a.event) => a \in Range(c.todo)
  PROVE  LET e == Adopt(p, c, d, rest) IN
         /\ e \in Fitting /\ e.attached /\ e.inbox = c.inbox
         /\ e.eligible = c.eligible /\ e.persistFailed = c.persistFailed
         /\ Wet(c) /\ ~off => Wet(e)
         /\ Unsaved(c) => Unsaved(e)
         /\ ~off => Follows(c, e)
<1> DEFINE i == Input(p, z, c, v)
           e == Adopt(p, c, d, rest)
<1>1. /\ c \in Controllers /\ i \in Situations /\ i.session = c.session
  BY FittingFits, InputTyped
<1>2. Typed(d) /\ Careful(i, off, d)
  BY DEF Fine
<1> HIDE DEF i
<1>3. /\ d.state \in States /\ d.session \in Sessions /\ d.closed \in Sessions
      /\ d.fault \in FaultOrNone /\ d.actions \in Seq(Actions)
  BY <1>2 DEF Typed
<1>4. /\ d.actions \in Seq(Steps) /\ d.actions \o rest \in Seq(Steps)
      /\ Range(d.actions \o rest) = Range(d.actions) \cup Range(rest)
  BY <1>3, NoKeys, Joined
<1>5. \A s \in Sessions : RuntimeOf(s) \in Int
  BY DEF RuntimeOf, Sessions, OpenSessions
<1>6. /\ OwnerRun(p, c, d) \in Nat /\ now \in Int
      /\ KeptTimers(c, d) \in SUBSET (TimerKinds \X Int)
      /\ d.closed # NoSession => d.closed.offAt \in Int
  <2>1. OwnerRun(p, c, d) \in Nat
    BY <1>1 DEF OwnerRun, NoRun, Controllers
  <2>2. KeptTimers(c, d) \in SUBSET (TimerKinds \X Int)
    BY <1>1 DEF KeptTimers, Controllers
  <2>3. d.closed # NoSession => d.closed.offAt \in Int
    BY <1>3 DEF Sessions, OpenSessions
  <2> QED BY <2>1, <2>2, <2>3 DEF IsWorld
<1> DEFINE delta == RuntimeOf(IF d.session # NoSession THEN d.session ELSE d.closed)
                    - RuntimeOf(c.session)
           daily == IF delta > 0 THEN c.daily + delta ELSE c.daily
           lastEnd == IF ~(d.closed # NoSession) THEN c.lastEnd
                      ELSE IF d.closed.offAt # NoTime THEN d.closed.offAt ELSE now
           owner == OwnerRun(p, c, d)
           timers == KeptTimers(c, d)
           todo == d.actions \o rest
<1>7. /\ daily \in Int /\ lastEnd \in Int /\ todo \in Seq(Todos)
      /\ owner \in Nat /\ timers \in SUBSET (TimerKinds \X Int)
  <2>1. delta \in Int
    BY <1>3, <1>5, FittingFits
  <2>2. c.daily \in Int /\ c.lastEnd \in Int
    BY <1>1 DEF Controllers
  <2> HIDE DEF delta
  <2> QED BY <1>4, <1>6, <2>1, <2>2, NoKeys
<1>8. /\ e \in Controllers /\ e.attached = c.attached /\ e.state = d.state /\ e.session = d.session
      /\ e.todo = todo /\ e.inbox = c.inbox /\ e.eligible = c.eligible
      /\ e.persistFailed = c.persistFailed
  <2>1. e = [c EXCEPT !.state = d.state, !.session = d.session, !.fault = d.fault,
                      !.run = owner, !.daily = daily, !.lastEnd = lastEnd, !.timers = timers,
                      !.todo = todo]
    BY <1>1 DEF Adopt, Controllers
  <2> HIDE DEF e, owner, daily, lastEnd, timers, todo
  <2> QED BY <1>1, <1>3, <1>7, <2>1 DEF Controllers
<1> HIDE DEF e
<1>9. e \in Fitting
  BY <1>2, <1>4, <1>8, NoKeys DEF Fitting, Careful
<1>10. \A a \in Range(d.actions) : a.act # "Dispatch"
  BY <1>3, LenProperties DEF Range, Actions
<1>11. OffWaits(e) => OffWaits(c)
  BY <1>4, <1>8, <1>10 DEF OffWaits
<1>12. Wet(c) /\ ~off => Wet(e)
  BY <1>1, <1>2, <1>8, <1>11 DEF Wet, Careful
<1>13. OpenPulse(d.session) => OpenPulse(c.session) \/ Persist \in Range(d.actions)
  BY <1>1, <1>2 DEF Careful, Has, Range
<1>14. Unsaved(c) => Unsaved(e)
  BY <1>4, <1>8, <1>13 DEF Unsaved
<1>15. ~off => Follows(c, e)
  BY <1>8, <1>9, <1>12, <1>14 DEF Follows
<1> QED BY <1>8, <1>9, <1>12, <1>14, <1>15 DEF e

(* Commands and timers change, and nothing of the session. *)
Alike(c, d) ==
    /\ d \in Controllers /\ d.attached = c.attached /\ d.state = c.state /\ d.session = c.session
    /\ d.todo = c.todo /\ d.inbox = c.inbox /\ d.eligible = c.eligible
    /\ d.persistFailed = c.persistFailed

LEMMA AlikeFollows ==
  ASSUME NEW c \in Fitting, c.attached, NEW d, Alike(c, d)
  PROVE  Follows(c, d)
BY FittingFits, FollowsBy DEF Alike

(* A session that a running decision ends without a write. *)
LEMMA CommitTerminalFollows ==
  ASSUME NEW z \in Zones, NEW c \in Fitting, c.attached, NEW d, Typed(d),
         LET s == IF d.session # NoSession THEN d.session ELSE c.session
         IN  Sound(d.state, s) /\ s \in Sessions /\ OpenPulse(s) = OpenPulse(c.session)
  PROVE  Follows(c, CommitTerminal(z, c, d))
<1> DEFINE s == IF d.session # NoSession THEN d.session ELSE c.session
           e == [c EXCEPT !.state = d.state, !.fault = d.fault, !.on = "none",
                          !.session = s, !.offRequested = FALSE]
<1>1. c \in Controllers /\ d.state \in States /\ d.fault \in FaultOrNone
  BY FittingFits DEF Typed
<1>2. Sound(d.state, s) /\ s \in Sessions /\ OpenPulse(s) = OpenPulse(c.session)
  OBVIOUS
<1>3. CommitTerminal(z, c, d) = StartOff(z, e)
  BY <1>1 DEF CommitTerminal, Controllers
<1> HIDE DEF s
<1>4. /\ e \in Controllers /\ e.attached = c.attached /\ e.state = d.state /\ e.session = s
      /\ e.todo = c.todo /\ e.inbox = c.inbox /\ e.eligible = c.eligible
      /\ e.persistFailed = c.persistFailed
  BY <1>1, <1>2 DEF Controllers
<1> HIDE DEF e
<1>5. Follows(c, e)
  BY <1>2, <1>4, FittingFits, FollowsBy
<1>6. Follows(e, StartOff(z, e))
  BY <1>4, <1>5, StartOffFollows DEF Follows
<1> QED BY <1>3, <1>5, <1>6, FollowsOn

(* _compensate: the ON command must be undone. *)
LEMMA CompensateFollows ==
  ASSUME IsWorld, NEW z \in Zones, NEW p, NEW c \in Fitting, c.attached, NEW v \in Int
  PROVE  Follows(c, Compensate(p, z, c, v))
<1>1. c \in Controllers /\ Sound(c.state, c.session)
  BY FittingFits
<1>2. CASE c.session = NoSession
  <2> DEFINE e == [c EXCEPT !.on = "none", !.offRequested = FALSE]
  <2>1. Alike(c, e)
    BY <1>1 DEF Controllers, Alike
  <2>2. e = [c EXCEPT !.on = "none", !.offRequested = FALSE]
    OBVIOUS
  <2> HIDE DEF e
  <2>3. Follows(c, e)
    BY <2>1, AlikeFollows
  <2>4. Follows(e, StartOff(z, e))
    BY <2>3, StartOffFollows DEF Follows
  <2>5. Compensate(p, z, c, v) = StartOff(z, e)
    BY <1>2 DEF Compensate, e
  <2> QED BY <2>3, <2>4, <2>5, FollowsOn
<1>3. CASE c.session # NoSession
  <2> DEFINE kind == IF ConfigurationAuthority(p, c) THEN "OnConfirmTimeout"
                     ELSE "ConfigChangedPrepare"
             i == Input(p, z, c, v)
             d == Decide(i, Event(kind))
  <2>1. /\ i \in Situations /\ i.now \in Nat /\ i.state = c.state /\ i.session = c.session
    BY <1>1, InputTyped
  <2>2. kind \in {"OnConfirmTimeout", "ConfigChangedPrepare"}
    OBVIOUS
  <2>3. Compensate(p, z, c, v) = CommitTerminal(z, c, d)
    BY <1>3 DEF Compensate
  <2>4. d = Decide(i, Event(kind))
    OBVIOUS
  <2> HIDE DEF i, kind, d
  <2>5. LET s == IF d.session # NoSession THEN d.session ELSE i.session
        IN  /\ Typed(d) /\ Sound(d.state, s) /\ s \in Sessions
            /\ OpenPulse(s) = OpenPulse(i.session)
    BY <1>1, <2>1, <2>2, <2>4, CompensationFine
  <2>6. Follows(c, CommitTerminal(z, c, d))
    BY <2>1, <2>5, CommitTerminalFollows
  <2> QED BY <2>3, <2>6
<1> QED BY <1>2, <1>3

(* _handle_persist_failure *)
LEMMA PersistFailureFollows ==
  ASSUME IsWorld, NEW z \in Zones, NEW c \in Fitting, c.attached, c.todo \in Seq(Steps)
  PROVE  Follows(c, HandlePersistFailure(z, c)) /\ HandlePersistFailure(z, c).persistFailed
<1> DEFINE e == HandlePersistFailure(z, c)
           s == IF c.session # NoSession /\ c.session.pending = NoReason
                THEN [c.session EXCEPT !.pending = "ACTUATOR_FAULT"] ELSE c.session
           todo == Onward(c.todo)
           offRequested == c.offRequested \/ ~Assessment(z).provenOff
<1>1. c \in Controllers /\ Sound(c.state, c.session) /\ c.session \in Sessions
  BY FittingFits
<1>2. s \in Sessions /\ OpenPulse(s) = OpenPulse(c.session) /\ Sound("FAULT", s)
  <2>1. CASE c.session # NoSession /\ c.session.pending = NoReason
    <3>1. c.session \in OpenSessions /\ "ACTUATOR_FAULT" \in ReasonOrNone
      BY <1>1, <2>1 DEF Sessions, ReasonOrNone, Reasons
    <3>2. /\ s \in OpenSessions /\ s # NoSession /\ s.intent = c.session.intent
          /\ s.offAt = c.session.offAt /\ s.cycle = c.session.cycle
      BY <2>1, <3>1, OpenIsOpen DEF OpenSessions
    <3> QED BY <1>1, <2>1, <3>2 DEF OpenPulse, Sound, Sessions
  <2>2. CASE ~(c.session # NoSession /\ c.session.pending = NoReason)
    BY <1>1, <2>2 DEF Sound
  <2> QED BY <2>1, <2>2
<1>3. todo \in Seq(Steps) /\ Range(todo) \subseteq Range(c.todo)
  BY OnwardKeeps
<1>4. todo \in Seq(Todos) /\ KeysFirst(todo)
  BY <1>3, NoKeys
<1>5. offRequested \in BOOLEAN
  OBVIOUS
<1>6. e = [c EXCEPT !.persistFailed = TRUE, !.onRequested = FALSE, !.state = "FAULT",
                    !.fault = "RESTORED_FROM_UNSAFE_STATE", !.session = s,
                    !.offRequested = offRequested, !.todo = todo]
  BY <1>1 DEF HandlePersistFailure, Controllers
<1>7. "RESTORED_FROM_UNSAFE_STATE" \in FaultOrNone /\ "FAULT" \in States
  BY DEF FaultOrNone, Faults, States
<1> HIDE DEF s, todo, offRequested, e
<1>8. /\ e \in Controllers /\ e.attached = c.attached /\ e.state = "FAULT" /\ e.session = s
      /\ e.todo = todo /\ e.inbox = c.inbox /\ e.eligible = c.eligible
      /\ e.persistFailed = TRUE
  BY <1>1, <1>2, <1>4, <1>5, <1>6, <1>7 DEF Controllers
<1>9. Follows(c, e)
  BY <1>2, <1>3, <1>4, <1>8, FollowsBy
<1> QED BY <1>8, <1>9 DEF e

LEMMA OffFailedTyped ==
  ASSUME IsWorld
  PROVE  /\ OffFailed \in Messages /\ ~TellsOff(OffFailed)
         /\ Call(At("OffConfirmed", now), <<EndOff("proven")>>) \in Messages
<1>1. /\ Event("OffNotConfirmed") \in Heard /\ ~OffSeen(Event("OffNotConfirmed"))
      /\ At("OffConfirmed", now) \in Heard
  BY DEF Event, Heard, Events, PlainKinds, OffSeen, At, IsWorld
<1>2. <<EndOff("failed")>> \in Seq(Rests) /\ <<EndOff("proven")>> \in Seq(Rests)
  BY Tuples DEF EndOff, Rests
<1> QED BY <1>1, <1>2 DEF OffFailed, Call, Messages, TellsOff

(* The session owner is cancelled. *)
LEMMA AbortFollows ==
  ASSUME IsWorld, NEW z \in Zones, NEW p, NEW c \in Fitting, c.attached
  PROVE  Follows(c, Abort(p, z, c))
<1> DEFINE d == IF c.on = "call" THEN Compensate(p, z, RecordPossibleCommand(c), AnyReading)
                ELSE c
           e == Send(d, OffFailed)
           f == [e EXCEPT !.off = "reporting", !.offRequested = FALSE]
<1>1. Follows(c, d)
  <2>1. AnyReading \in Int
    BY ConstantsTyped
  <2>2. Follows(c, RecordPossibleCommand(c))
    BY RecordFollows
  <2>3. Follows(RecordPossibleCommand(c), Compensate(p, z, RecordPossibleCommand(c), AnyReading))
    BY <2>1, <2>2, CompensateFollows DEF Follows
  <2> QED BY <2>2, <2>3, FollowsItself, FollowsOn
<1>2. Abort(p, z, c) = IF d.off \in {"running", "none"} THEN f ELSE d
  BY DEF Abort
<1> HIDE DEF d
<1>3. Follows(d, e)
  BY <1>1, SendFollows, OffFailedTyped DEF Follows
<1>4. e \in Fitting /\ e.attached /\ e \in Controllers
  BY <1>1, <1>3, FittingFits DEF Follows
<1> HIDE DEF e
<1>5. Alike(e, f)
  BY <1>4 DEF Controllers, Alike
<1> HIDE DEF f
<1>7. Follows(e, f)
  BY <1>4, <1>5, AlikeFollows
<1>8. Follows(c, f)
  BY <1>1, <1>3, <1>7, FollowsOn
<1> QED BY <1>1, <1>2, <1>8

LEMMA ShutdownOffFollows ==
  ASSUME NEW z \in Zones, NEW p, NEW c \in Fitting, c.attached
  PROVE  Follows(c, BeginShutdownOff(p, z, c))
BY StartOffFollows, FollowsItself DEF BeginShutdownOff
-----------------------------------------------------------------------------
(* What a runtime keeps while one of its controllers goes on. *)

Goes(p, q, z) ==
    /\ IsRuntime(q)
    /\ q.phase = p.phase /\ q.run = p.run /\ q.mem = p.mem /\ q.failures = p.failures
    /\ q.slots.grantsEnabled = p.slots.grantsEnabled
    /\ p.phase = "attach" => q.todo = p.todo
    /\ \A y \in Zones \ {z} : q.zone[y] = p.zone[y]
    /\ Follows(p.zone[z], q.zone[z])

LEMMA SlotsKept ==
  ASSUME NEW s, IsSlots(s), NEW z
  PROVE  /\ \A k : /\ IsSlots(BlockerLive(s, k)) /\ BlockerLive(s, k).grantsEnabled = s.grantsEnabled
                   /\ IsSlots(BlockerSaved(s, k)) /\ BlockerSaved(s, k).grantsEnabled = s.grantsEnabled
                   /\ IsSlots(BlockerGone(s, k)) /\ BlockerGone(s, k).grantsEnabled = s.grantsEnabled
         /\ IsSlots(TryGrant(s)) /\ TryGrant(s).grantsEnabled = s.grantsEnabled
         /\ IsSlots(Request(s, z)) /\ Request(s, z).grantsEnabled = s.grantsEnabled
         /\ IsSlots(Release(s, z)) /\ Release(s, z).grantsEnabled = s.grantsEnabled
         /\ IsSlots(CancelRequest(s, z)) /\ CancelRequest(s, z).grantsEnabled = s.grantsEnabled
<1>1. ASSUME NEW t, IsSlots(t)
      PROVE  IsSlots(TryGrant(t)) /\ TryGrant(t).grantsEnabled = t.grantsEnabled
  BY <1>1 DEF TryGrant, OfferTo, IsSlots
<1>2. ASSUME NEW k
      PROVE  /\ IsSlots(BlockerLive(s, k)) /\ BlockerLive(s, k).grantsEnabled = s.grantsEnabled
             /\ IsSlots(BlockerSaved(s, k)) /\ BlockerSaved(s, k).grantsEnabled = s.grantsEnabled
             /\ IsSlots(BlockerGone(s, k)) /\ BlockerGone(s, k).grantsEnabled = s.grantsEnabled
  <2> DEFINE t == [s EXCEPT !.blockers = s.blockers \ {k}, !.unpersisted = s.unpersisted \ {k}]
  <2>1. IsSlots(t) /\ t.grantsEnabled = s.grantsEnabled
    BY DEF IsSlots
  <2>2. BlockerGone(s, k) = TryGrant(t)
    BY DEF BlockerGone
  <2> HIDE DEF t
  <2>3. IsSlots(BlockerGone(s, k)) /\ BlockerGone(s, k).grantsEnabled = s.grantsEnabled
    BY <1>1, <2>1, <2>2
  <2>4. IsSlots(BlockerLive(s, k)) /\ BlockerLive(s, k).grantsEnabled = s.grantsEnabled
    BY DEF BlockerLive, IsSlots
  <2>5. IsSlots(BlockerSaved(s, k)) /\ BlockerSaved(s, k).grantsEnabled = s.grantsEnabled
    BY DEF BlockerSaved, IsSlots
  <2> QED BY <2>3, <2>4, <2>5
<1>3. IsSlots(Request(s, z)) /\ Request(s, z).grantsEnabled = s.grantsEnabled
  <2> DEFINE t == Enqueue(s, z)
  <2>1. IsSlots(t) /\ t.grantsEnabled = s.grantsEnabled
    BY DEF IsSlots, Enqueue
  <2> HIDE DEF t
  <2>2. IsSlots(TryGrant(t)) /\ TryGrant(t).grantsEnabled = s.grantsEnabled
    BY <1>1, <2>1
  <2> QED BY <2>2 DEF Request, IsSlots, t
<1>4. IsSlots(Release(s, z)) /\ Release(s, z).grantsEnabled = s.grantsEnabled
  <2> DEFINE t == [s EXCEPT !.owner = NoZone]
  <2>1. IsSlots(t) /\ t.grantsEnabled = s.grantsEnabled
    BY DEF IsSlots
  <2> HIDE DEF t
  <2>2. IsSlots(TryGrant(t)) /\ TryGrant(t).grantsEnabled = s.grantsEnabled
    BY <1>1, <2>1
  <2> QED BY <2>2 DEF Release, t
<1>5. IsSlots(CancelRequest(s, z)) /\ CancelRequest(s, z).grantsEnabled = s.grantsEnabled
  BY DEF CancelRequest, IsSlots
<1> QED BY <1>1, <1>2, <1>3, <1>4, <1>5

LEMMA RuntimeTyped ==
  ASSUME NEW p, IsRuntime(p)
  PROVE  /\ p \in RuntimesOn(p.slots) /\ IsSlots(p.slots)
         /\ p.phase \in Phases /\ p.run \in Nat /\ p.mem \in Files
         /\ p.zone \in [Zones -> Fitting] /\ p.todo \in SUBSET Zones
         /\ p.watering \in SUBSET Zones /\ p.preserved \in SUBSET Zones
         /\ p.failures \in BOOLEAN /\ p.stopping \in BOOLEAN /\ p.deadline \in Int
         /\ p.previous \in Nat /\ p.previousClean \in BOOLEAN
         /\ \A z \in Zones : p.zone[z] \in Fitting
BY DEF IsRuntime, RuntimesOn

LEMMA GoesItself ==
  ASSUME NEW p, IsRuntime(p), NEW z \in Zones
  PROVE  Goes(p, p, z)
BY RuntimeTyped, FollowsItself DEF Goes

LEMMA GoesOnAndOn ==
  ASSUME NEW p, NEW q, NEW r, NEW z, Goes(p, q, z), Goes(q, r, z)
  PROVE  Goes(p, r, z)
<1>1. Follows(p.zone[z], r.zone[z])
  BY FollowsOn DEF Goes
<1> QED BY <1>1 DEF Goes

(* A controller is put back into its runtime, alone or with the slot. *)
Put(p, z, d) == [p EXCEPT !.zone[z] = d]
PutAlso(p, z, d, s) == [p EXCEPT !.zone[z] = d, !.slots = s]

(* All of a runtime but its controllers and its slot. *)
SameCourse(p, q) ==
    /\ q.phase = p.phase /\ q.run = p.run /\ q.mem = p.mem /\ q.failures = p.failures
    /\ q.todo = p.todo /\ q.stopping = p.stopping

LEMMA ZonePut ==
  ASSUME NEW p, IsRuntime(p), NEW z \in Zones, NEW d \in Fitting
  PROVE  /\ IsRuntime(Put(p, z, d)) /\ SameCourse(p, Put(p, z, d))
         /\ Put(p, z, d).slots = p.slots
         /\ Put(p, z, d).zone[z] = d /\ \A y \in Zones \ {z} : Put(p, z, d).zone[y] = p.zone[y]
<1> DEFINE zone == [p.zone EXCEPT ![z] = d]
           r == [p EXCEPT !.zone = zone]
<1>1. /\ p \in RuntimesOn(p.slots) /\ zone \in [Zones -> Fitting]
      /\ zone[z] = d /\ \A y \in Zones \ {z} : zone[y] = p.zone[y]
  BY RuntimeTyped
<1>2. Put(p, z, d) = r
  BY DEF Put
<1> HIDE DEF zone
<1>3. r \in RuntimesOn(p.slots) /\ r.slots = p.slots /\ r.zone = zone /\ SameCourse(p, r)
  BY <1>1 DEF RuntimesOn, SameCourse
<1> QED BY <1>1, <1>2, <1>3, RuntimeTyped DEF IsRuntime

LEMMA ZonePutAlso ==
  ASSUME NEW p, IsRuntime(p), NEW z \in Zones, NEW d \in Fitting, NEW s, IsSlots(s)
  PROVE  /\ IsRuntime(PutAlso(p, z, d, s)) /\ SameCourse(p, PutAlso(p, z, d, s))
         /\ PutAlso(p, z, d, s).slots = s /\ PutAlso(p, z, d, s).zone[z] = d
         /\ \A y \in Zones \ {z} : PutAlso(p, z, d, s).zone[y] = p.zone[y]
<1> DEFINE r == Put(p, z, d)
           q == [r EXCEPT !.slots = s]
<1>1. /\ r \in RuntimesOn(r.slots) /\ SameCourse(p, r)
      /\ r.zone[z] = d /\ \A y \in Zones \ {z} : r.zone[y] = p.zone[y]
  BY ZonePut DEF IsRuntime
<1>2. PutAlso(p, z, d, s) = q
  BY DEF PutAlso, Put
<1> HIDE DEF r
<1>3. q \in RuntimesOn(s) /\ q.slots = s /\ q.zone = r.zone /\ SameCourse(r, q)
  BY <1>1 DEF RuntimesOn, SameCourse
<1> QED BY <1>1, <1>2, <1>3 DEF IsRuntime, SameCourse

LEMMA ZoneGoes ==
  ASSUME NEW p, IsRuntime(p), NEW z \in Zones, NEW d, Follows(p.zone[z], d),
         NEW s, IsSlots(s), s.grantsEnabled = p.slots.grantsEnabled
  PROVE  Goes(p, Put(p, z, d), z) /\ Goes(p, PutAlso(p, z, d, s), z)
<1>1. d \in Fitting
  BY DEF Follows
<1> QED BY <1>1, ZonePut, ZonePutAlso DEF Goes, SameCourse

(* One action of a lock holder that writes nothing. *)
LEMMA ActionGoes ==
  ASSUME IsWorld, NEW p, IsRuntime(p), NEW z \in Zones, p.zone[z].attached,
         NEW c, Follows(p.zone[z], c), c.todo \in Seq(Steps),
         NEW a \in Todos, a.act \notin Skipped,
         a.act = "Dispatch" /\ Wet(p.zone[z]) => ~OffSeen(a.event)
  PROVE  Goes(p, ApplyAction(p, z, c, a), z)
<1> DEFINE q == ApplyAction(p, z, c, a)
<1>1. c \in Fitting /\ c \in Controllers /\ c.attached
  BY FittingFits DEF Follows
<1>2. ASSUME NEW d, Follows(c, d)
      PROVE  Follows(p.zone[z], d)
  BY <1>2, FollowsOn
<1>3. ASSUME NEW d, Follows(c, d)
      PROVE  Goes(p, [p EXCEPT !.zone[z] = d], z)
  <2>1. Goes(p, Put(p, z, d), z)
    BY <1>2, <1>3, RuntimeTyped, ZoneGoes
  <2> QED BY <2>1 DEF Put
<1>4. ASSUME NEW d, Alike(c, d)
      PROVE  Follows(c, d)
  BY <1>1, <1>4, AlikeFollows
<1>5. CASE a.act = "TurnOn"
  <2> DEFINE d == [c EXCEPT !.onRequested = TRUE, !.off = "none"]
  <2>1. q = [p EXCEPT !.zone[z] = d]
    BY <1>5 DEF ApplyAction
  <2>2. Alike(c, d)
    BY <1>1 DEF Controllers, Alike
  <2> HIDE DEF d, q
  <2> QED BY <1>3, <1>4, <2>1, <2>2 DEF q
<1>6. CASE a.act = "ExecuteOff"
  <2> DEFINE d == [c EXCEPT !.offRequested = TRUE]
  <2>1. q = [p EXCEPT !.zone[z] = d]
    BY <1>6 DEF ApplyAction
  <2>2. Alike(c, d)
    BY <1>1 DEF Controllers, Alike
  <2> HIDE DEF d, q
  <2> QED BY <1>3, <1>4, <2>1, <2>2 DEF q
<1>7. CASE a.act = "ArmTimer"
  <2> DEFINE timers == Cancel(c.timers, {a.timer}) \cup {<<a.timer, a.at>>}
             d == [c EXCEPT !.timers = timers]
  <2>1. q = [p EXCEPT !.zone[z] = d]
    BY <1>1, <1>7 DEF ApplyAction, Controllers
  <2>2. timers \in SUBSET (TimerKinds \X Int)
    <3>1. a.timer \in TimerKinds /\ a.at \in Int
      BY <1>7 DEF Todos, Steps, Actions, Rests, ClearKey
    <3> QED BY <1>1, <3>1 DEF Cancel, Controllers
  <2> HIDE DEF timers
  <2>3. Alike(c, d)
    BY <1>1, <2>2 DEF Controllers, Alike
  <2> HIDE DEF d, q
  <2> QED BY <1>3, <1>4, <2>1, <2>3 DEF q
<1>8. CASE a.act = "RequestSlot"
  <2> DEFINE d == [c EXCEPT !.waiting = TRUE]
             s == Request(p.slots, z)
  <2>1. Alike(c, d)
    BY <1>1 DEF Controllers, Alike
  <2>2. IsSlots(s) /\ s.grantsEnabled = p.slots.grantsEnabled
    BY RuntimeTyped, SlotsKept
  <2>3. q = Put(p, z, c) \/ q = PutAlso(p, z, d, s)
    BY <1>8 DEF ApplyAction, EnsureSlotRequest, Put, PutAlso
  <2> HIDE DEF d, s, q
  <2>4. Goes(p, Put(p, z, c), z) /\ Goes(p, PutAlso(p, z, d, s), z)
    BY <1>2, <1>4, <2>1, <2>2, ZoneGoes
  <2> QED BY <2>3, <2>4 DEF q
<1>9. CASE a.act = "ReleaseSlot"
  <2> DEFINE s == CancelRequest(Release(p.slots, z), z)
  <2>1. IsSlots(Release(p.slots, z)) /\ Release(p.slots, z).grantsEnabled = p.slots.grantsEnabled
    BY RuntimeTyped, SlotsKept
  <2>2. IsSlots(s) /\ s.grantsEnabled = p.slots.grantsEnabled
    BY <2>1, SlotsKept
  <2>3. q = PutAlso(p, z, c, s)
    BY <1>9 DEF ApplyAction, PutAlso
  <2> HIDE DEF s, q
  <2>4. Goes(p, PutAlso(p, z, c, s), z)
    BY <2>2, ZoneGoes
  <2> QED BY <2>3, <2>4 DEF q
<1>10. CASE a.act = "SetExternalOn"
  <2> DEFINE d == [c EXCEPT !.externalOn = a.on]
  <2>1. q = [p EXCEPT !.zone[z] = d]
    BY <1>10 DEF ApplyAction
  <2>2. a.on \in BOOLEAN
    BY <1>10 DEF Todos, Steps, Actions, Rests, ClearKey
  <2>3. Alike(c, d)
    BY <1>1, <2>2 DEF Controllers, Alike
  <2> HIDE DEF d, q
  <2> QED BY <1>3, <1>4, <2>1, <2>3 DEF q
<1>11. CASE a.act \in {"ArmWatchdog", "ScheduleEvaluation", "Return"}
  <2>1. q = [p EXCEPT !.zone[z] = c]
    BY <1>11 DEF ApplyAction
  <2> HIDE DEF q
  <2> QED BY <1>1, <1>3, <2>1, FollowsItself DEF q
<1>12. CASE a.act = "EndOff"
  <2> DEFINE off == IF OffActive(c) THEN a.result ELSE c.off
             d == [c EXCEPT !.off = off]
  <2>1. q = [p EXCEPT !.zone[z] = d]
    BY <1>1, <1>12 DEF ApplyAction, Controllers
  <2>2. off \in {"none", "running", "reporting", "proven", "failed"}
    <3>1. a.result \in {"proven", "failed"}
      BY <1>12 DEF Todos, Steps, Actions, Rests, ClearKey
    <3> QED BY <1>1, <3>1 DEF Controllers
  <2> HIDE DEF off
  <2>3. Alike(c, d)
    BY <1>1, <2>2 DEF Controllers, Alike
  <2> HIDE DEF d, q
  <2> QED BY <1>3, <1>4, <2>1, <2>3 DEF q
<1>13. CASE a.act = "EndOffer"
  <2> DEFINE d == [c EXCEPT !.waiting = FALSE]
  <2>1. q = [p EXCEPT !.zone[z] = d]
    BY <1>13 DEF ApplyAction
  <2>2. Alike(c, d)
    BY <1>1 DEF Controllers, Alike
  <2> HIDE DEF d, q
  <2> QED BY <1>3, <1>4, <2>1, <2>2 DEF q
<1>14. CASE a.act = "BeginOff"
  <2> DEFINE d == IF c.on = "none" THEN StartOff(z, c) ELSE c
  <2>1. q = [p EXCEPT !.zone[z] = d]
    BY <1>14 DEF ApplyAction
  <2>2. Follows(c, d)
    BY <1>1, StartOffFollows, FollowsItself
  <2> HIDE DEF d, q
  <2> QED BY <1>3, <1>4, <2>1, <2>2 DEF q
<1>15. CASE a.act = "ShutdownOff"
  <2>1. q = [p EXCEPT !.zone[z] = BeginShutdownOff(p, z, c)]
    BY <1>15 DEF ApplyAction
  <2> HIDE DEF q
  <2> QED BY <1>1, <1>3, <2>1, ShutdownOffFollows DEF q
<1>16. CASE a.act = "EndOn"
  <2> DEFINE b == [c EXCEPT !.ackAt = NoTime]
             e == At("OnConfirmed", c.ackAt)
             i == Input(p, z, b, AnyReading)
             rest == <<EndOn>> \o c.todo
             confirmed == Adopt(p, b, Decide(i, e), rest)
             over == [c EXCEPT !.on = "none"]
  <2>1. \/ q = [p EXCEPT !.zone[z] = Compensate(p, z, c, AnyReading)]
        \/ q = [p EXCEPT !.zone[z] = confirmed]
        \/ q = [p EXCEPT !.zone[z] = over]
    BY <1>16 DEF ApplyAction, DecideAndApply
  <2>2. Follows(c, Compensate(p, z, c, AnyReading))
    BY <1>1, ConstantsTyped, CompensateFollows
  <2>3. Alike(c, over)
    BY <1>1 DEF Controllers, Alike
  <2>4. Alike(c, b)
    <3>1. NoTime \in Int
      BY DEF NoTime
    <3> QED BY <1>1, <3>1 DEF Controllers, Alike
  <2> HIDE DEF b, over
  <2>5. Follows(c, b) /\ b \in Fitting /\ b.attached /\ b.todo = c.todo
    BY <1>1, <1>4, <2>4 DEF Follows, Alike
  <2>6. e \in Heard /\ ~OffSeen(e)
    BY <1>1 DEF At, Heard, Events, OffSeen, Controllers
  <2>7. <<EndOn>> \in Seq(Steps) /\ Range(<<EndOn>>) = {EndOn} /\ EndOn.act = "EndOn"
    BY Tuples DEF EndOn, Steps, Rests
  <2>8. rest \in Seq(Steps) /\ Range(rest) = {EndOn} \cup Range(c.todo)
    <3>1. ASSUME NEW r \in Seq(Steps), NEW s \in Seq(Steps)
          PROVE  r \o s \in Seq(Steps) /\ Range(r \o s) = Range(r) \cup Range(s)
      BY Joined
    <3>2. rest \in Seq(Steps) /\ Range(rest) = Range(<<EndOn>>) \cup Range(c.todo)
      BY <2>7, <3>1
    <3> QED BY <2>7, <3>2
  <2>9. Fine(i, OffSeen(e), Decide(i, e))
    BY <2>5, <2>6, ConstantsTyped, FittingFits, InputTyped, DecisionFine
  <2> DEFINE d == Decide(i, e)
             off == OffSeen(e)
  <2>10. off \in BOOLEAN /\ ~off /\ Fine(Input(p, z, b, AnyReading), off, d)
         /\ confirmed = Adopt(p, b, d, rest)
    BY <2>6, <2>9 DEF OffSeen
  <2> HIDE DEF i, e, rest, d, off
  <2>11. Follows(b, Adopt(p, b, d, rest))
    <3>1. p.run \in Nat /\ AnyReading \in Int
      BY ConstantsTyped, RuntimeTyped
    <3>2. /\ Persist \in Range(b.todo) => Persist \in Range(rest)
          /\ \A x \in Range(rest) : x.act = "Dispatch" /\ OffSeen(x.event) => x \in Range(b.todo)
      BY <2>5, <2>7, <2>8
    <3> QED BY <2>5, <2>8, <2>10, <3>1, <3>2, AdoptFollows
  <2>12. Follows(c, confirmed)
    BY <2>5, <2>10, <2>11, FollowsOn
  <2> HIDE DEF confirmed, q
  <2> QED BY <1>3, <1>4, <2>1, <2>2, <2>3, <2>12 DEF q
<1>17. CASE a.act = "Dispatch"
  <2> DEFINE e == a.event
             i == Input(p, z, c, AnyReading)
             d == Decide(i, e)
             off == OffSeen(e)
             done == Adopt(p, c, d, c.todo)
  <2>1. q = [p EXCEPT !.zone[z] = done]
    BY <1>17 DEF ApplyAction, DecideAndApply
  <2>2. e \in Heard
    BY <1>17 DEF Todos, Steps, Actions, Rests, ClearKey
  <2>3. off \in BOOLEAN
    BY DEF OffSeen
  <2>4. Fine(i, off, d)
    BY <1>1, <2>2, ConstantsTyped, FittingFits, InputTyped, DecisionFine
  <2> HIDE DEF d, e, off
  <2>5. /\ done \in Fitting /\ done.attached
        /\ done.eligible = c.eligible /\ done.persistFailed = c.persistFailed
        /\ Wet(c) /\ ~off => Wet(done)
        /\ Unsaved(c) => Unsaved(done)
    BY <1>1, <2>3, <2>4, ConstantsTyped, RuntimeTyped, AdoptFollows
  <2> HIDE DEF done, i
  <2>6. Wet(p.zone[z]) => Wet(c) /\ ~off
    BY <1>17 DEF Follows, off, e
  <2>7. Follows(p.zone[z], done)
    BY <1>1, <2>5, <2>6 DEF Follows
  <2>8. Goes(p, Put(p, z, done), z)
    BY <2>7, RuntimeTyped, ZoneGoes
  <2> HIDE DEF q
  <2> QED BY <2>1, <2>8 DEF Put, q
<1>18. a.act \in {"TurnOn", "ExecuteOff", "ArmTimer", "RequestSlot", "ReleaseSlot", "SetExternalOn",
                  "ArmWatchdog", "ScheduleEvaluation", "Return", "EndOff", "EndOffer", "BeginOff",
                  "ShutdownOff", "EndOn", "Dispatch"}
  BY DEF Todos, Steps, Actions, Rests, ClearKey, Skipped
<1> HIDE DEF q
<1> QED BY <1>5, <1>6, <1>7, <1>8, <1>9, <1>10, <1>11, <1>12, <1>13, <1>14, <1>15, <1>16, <1>17,
           <1>18 DEF q
LEMMA BusyIsAttached ==
  ASSUME NEW c \in Fitting, c.todo # << >> \/ c.inbox # << >>
  PROVE  c.attached
BY DetachedFits DEF Fitting, Controllers

(* The lock holder runs on. *)
LEMMA RunOneGoes ==
  ASSUME IsWorld, NEW p, IsRuntime(p), NEW z \in Zones
  PROVE  Goes(p, RunOne(p, z), z)
<1> DEFINE c == p.zone[z]
           a == Head(c.todo)
<1>1. CASE ~Immediate(p, z)
  BY <1>1, GoesItself DEF RunOne
<1>2. CASE Immediate(p, z)
  <2>1. c \in Fitting /\ c.todo # << >> /\ c.attached
    BY <1>2, RuntimeTyped, BusyIsAttached DEF Immediate
  <2>2. a # Persist
    BY <1>2 DEF Immediate, Writes, Persist
  <2> HIDE DEF c, a
  <2>3. /\ Rest(c).todo \in Seq(Steps) /\ a \in Todos /\ Follows(c, Rest(c))
        /\ Wet(c) /\ a.act = "Dispatch" => ~OffSeen(a.event)
    BY <2>1, <2>2, RestFollows DEF a
  <2>4. CASE a.act \in Skipped
    <3>1. RunOne(p, z) = Put(p, z, Rest(c))
      BY <1>2, <2>1, <2>4, RuntimeTyped DEF RunOne, Put, a, c
    <3> QED BY <2>3, <3>1, RuntimeTyped, ZoneGoes DEF c
  <2>5. CASE a.act \notin Skipped
    <3>1. RunOne(p, z) = ApplyAction(p, z, Rest(c), a)
      BY <1>2, <2>5 DEF RunOne, a, c
    <3> QED BY <2>1, <2>3, <2>5, <3>1, ActionGoes DEF c
  <2> QED BY <2>4, <2>5
<1> QED BY <1>1, <1>2

LEMMA RunOnGoes ==
  ASSUME IsWorld, NEW p, IsRuntime(p), NEW z \in Zones
  PROVE  Goes(p, RunOn(p, z), z)
<1>1. ASSUME NEW q, IsRuntime(q)
      PROVE  Goes(q, RunTwo(q, z), z)
  BY <1>1, RunOneGoes, GoesOnAndOn DEF RunTwo, Goes
<1>2. ASSUME NEW q, IsRuntime(q)
      PROVE  Goes(q, RunFour(q, z), z)
  BY <1>1, <1>2, GoesOnAndOn DEF RunFour, Goes
<1> QED BY <1>2, GoesOnAndOn DEF RunOn, Goes
-----------------------------------------------------------------------------
(* The file, and what its transactions keep. *)

LEMMA RecordTyped ==
  /\ \A r \in FullRecords : /\ r.session \in Sessions /\ Sound(r.state, r.session) /\ r # NoRecord
                            /\ r.state \in States /\ r.blockers \in SUBSET BlockerReasons
                            /\ r.flowOwner \in FlowOwners
  /\ NoRecord.session = NoSession /\ ~OpenPulse(NoSession)
  /\ \A f \in Snapshots : /\ f.status = "valid" /\ f.active \in Nat /\ f.clean \in Nat
                          /\ f.zones \in [Zones -> ZoneRecords]
                          /\ \A z \in Zones : f.zones[z] \in ZoneRecords
                          /\ f \in Files
<1>1. ASSUME NEW r \in FullRecords
      PROVE  /\ r.session \in Sessions /\ Sound(r.state, r.session) /\ r # NoRecord
             /\ r.state \in States /\ r.blockers \in SUBSET BlockerReasons
             /\ r.flowOwner \in FlowOwners
  <2>1. /\ r.session \in Sessions /\ Sound(r.state, r.session)
        /\ r.state \in States /\ r.blockers \in SUBSET BlockerReasons
        /\ r.flowOwner \in FlowOwners
    BY DEF FullRecords
  <2>2. r # NoRecord
    BY <2>1 DEF NoRecord, States
  <2> QED BY <2>1, <2>2
<1>2. NoRecord.session = NoSession /\ ~OpenPulse(NoSession)
  BY DEF NoRecord, OpenPulse
<1>3. ASSUME NEW f \in Snapshots
      PROVE  /\ f.status = "valid" /\ f.active \in Nat /\ f.clean \in Nat
             /\ f.zones \in [Zones -> ZoneRecords]
             /\ \A z \in Zones : f.zones[z] \in ZoneRecords
             /\ f \in Files
  BY DEF Snapshots, Files
<1> QED BY <1>1, <1>2, <1>3

(* One zone's record is replaced. *)
WithRecord(f, z, r) == [f EXCEPT !.zones[z] = r]

LEMMA WithRecordTyped ==
  ASSUME NEW f \in Snapshots, NEW z \in Zones, NEW r \in ZoneRecords
  PROVE  /\ WithRecord(f, z, r) \in Snapshots /\ WithRecord(f, z, r).zones[z] = r
         /\ \A y \in Zones \ {z} : WithRecord(f, z, r).zones[y] = f.zones[y]
<1> DEFINE zones == [f.zones EXCEPT ![z] = r]
           g == [f EXCEPT !.zones = zones]
<1>1. /\ zones \in [Zones -> ZoneRecords] /\ zones[z] = r
      /\ \A y \in Zones \ {z} : zones[y] = f.zones[y]
  BY RecordTyped
<1>2. WithRecord(f, z, r) = g
  BY DEF WithRecord
<1> HIDE DEF zones
<1>3. g \in Snapshots /\ g.zones = zones
  BY <1>1 DEF Snapshots
<1> QED BY <1>1, <1>2, <1>3

LEMMA StoredSessionKeeps ==
  ASSUME NEW s \in Sessions
  PROVE  /\ StoredSession(s) \in Sessions /\ OpenPulse(StoredSession(s)) = OpenPulse(s)
         /\ \A state : Sound(state, s) => Sound(state, StoredSession(s))
<1> DEFINE b == [s EXCEPT !.pending = NoReason, !.freshUntil = NoTime]
           t == [b EXCEPT !.generation = 0]
<1>1. CASE s = NoSession
  BY <1>1 DEF StoredSession, Sessions
<1>2. CASE s # NoSession
  <2>1. s \in OpenSessions /\ NoReason \in ReasonOrNone /\ NoTime \in Int
    BY <1>2 DEF Sessions, ReasonOrNone, NoTime
  <2>2. StoredSession(s) = t
    BY <1>2 DEF StoredSession
  <2>3. /\ t \in OpenSessions /\ t.intent = s.intent /\ t.offAt = s.offAt /\ t.cycle = s.cycle
    <3>1. b \in OpenSessions /\ b.intent = s.intent /\ b.offAt = s.offAt /\ b.cycle = s.cycle
      BY <2>1 DEF OpenSessions
    <3> HIDE DEF b
    <3> QED BY <3>1 DEF OpenSessions
  <2> HIDE DEF b, t
  <2>4. t # NoSession /\ t \in Sessions
    BY <2>3, OpenIsOpen DEF Sessions
  <2>5. OpenPulse(t) = OpenPulse(s)
    BY <1>2, <2>3, <2>4 DEF OpenPulse
  <2>6. \A state : Sound(state, s) => Sound(state, t)
    BY <1>2, <2>3, <2>4, <2>5 DEF Sound
  <2> QED BY <2>2, <2>4, <2>5, <2>6
<1> QED BY <1>1, <1>2

LEMMA StoredKeeps ==
  ASSUME NEW f \in Snapshots
  PROVE  /\ Stored(f) \in Snapshots
         /\ \A z \in Zones : OpenPulse(Stored(f).zones[z].session) = OpenPulse(f.zones[z].session)
<1> DEFINE New(r) == [r EXCEPT !.session = StoredSession(r.session)]
           zones == [z \in Zones |-> New(f.zones[z])]
           g == [f EXCEPT !.zones = zones]
<1>1. ASSUME NEW r \in ZoneRecords
      PROVE  New(r) \in ZoneRecords /\ OpenPulse(New(r).session) = OpenPulse(r.session)
  <2>1. CASE r = NoRecord
    <3>1. StoredSession(r.session) = r.session
      BY <2>1 DEF StoredSession, NoRecord
    <3>2. New(r) = r
      BY <2>1, <3>1 DEF NoRecord
    <3> QED BY <3>2
  <2>2. CASE r \in FullRecords
    <3> DEFINE s == StoredSession(r.session)
    <3>1. /\ s \in Sessions /\ OpenPulse(s) = OpenPulse(r.session) /\ Sound(r.state, s)
      BY <2>2, RecordTyped, StoredSessionKeeps
    <3> HIDE DEF s
    <3>2. [r EXCEPT !.session = s] \in FullRecords /\ [r EXCEPT !.session = s].session = s
      BY <2>2, <3>1 DEF FullRecords
    <3>3. New(r) = [r EXCEPT !.session = s]
      BY DEF s
    <3> QED BY <3>1, <3>2, <3>3 DEF ZoneRecords
  <2> QED BY <2>1, <2>2 DEF ZoneRecords
<1>2. Stored(f) = g
  BY RecordTyped DEF Stored
<1> HIDE DEF New
<1>3. zones \in [Zones -> ZoneRecords]
  BY <1>1, RecordTyped
<1>4. \A z \in Zones : OpenPulse(zones[z].session) = OpenPulse(f.zones[z].session)
  BY <1>1, RecordTyped
<1> HIDE DEF zones
<1>5. g \in Snapshots /\ g.zones = zones
  BY <1>3 DEF Snapshots
<1> QED BY <1>2, <1>4, <1>5

(* The records of two snapshots differ in nothing that a pulse depends on. *)
SamePulses(f, g) ==
    \A z \in Zones : /\ OpenPulse(g.zones[z].session) = OpenPulse(f.zones[z].session)
                     /\ f.zones[z] # NoRecord => g.zones[z] # NoRecord

(* async_update_controller_runtime *)
LEMMA UpdateTyped ==
  ASSUME NEW f \in Snapshots, NEW z \in Zones, f.zones[z] # NoRecord, NEW c \in Fitting
  PROVE  LET g == UpdateControllerRuntime(f, z, c) IN
         /\ g \in Snapshots /\ g.zones[z].session = c.session /\ g.zones[z] # NoRecord
         /\ \A y \in Zones \ {z} : g.zones[y] = f.zones[y]
<1> DEFINE o == f.zones[z]
           owner == PossibleFlowOwner(c, o.blockers)
           r == [o EXCEPT !.state = c.state, !.enabled = c.enabled, !.session = c.session,
                          !.run = c.run, !.fault = c.fault, !.daily = c.daily,
                          !.lastEnd = c.lastEnd, !.flowOwner = owner]
           g == UpdateControllerRuntime(f, z, c)
<1>1. o \in FullRecords
  BY RecordTyped DEF ZoneRecords
<1>2. owner \in FlowOwners
  BY DEF PossibleFlowOwner, FlowOwners
<1>3. c \in Controllers /\ Sound(c.state, c.session)
  BY FittingFits
<1>4. g = WithRecord(f, z, r)
  BY RecordTyped DEF UpdateControllerRuntime, WithRecord, Snapshots
<1> HIDE DEF o, owner
<1>5. r \in FullRecords /\ r.session = c.session
  BY <1>1, <1>2, <1>3 DEF FullRecords, Controllers
<1> HIDE DEF r, g
<1>6. /\ g \in Snapshots /\ g.zones[z] = r
      /\ \A y \in Zones \ {z} : g.zones[y] = f.zones[y]
  BY <1>4, <1>5, WithRecordTyped DEF ZoneRecords
<1> QED BY <1>5, <1>6, RecordTyped DEF g

(* async_set_blocker *)
LEMMA BlockerTyped ==
  ASSUME NEW f \in Snapshots, NEW z \in Zones, f.zones[z] # NoRecord,
         NEW reason \in BlockerReasons, NEW active \in BOOLEAN
  PROVE  /\ SetRecordBlocker(f, z, reason, active) \in Snapshots
         /\ SamePulses(f, SetRecordBlocker(f, z, reason, active))
<1> DEFINE o == f.zones[z]
           blockers == IF active THEN o.blockers \cup {reason} ELSE o.blockers \ {reason}
           owner == FlowOwnerAfter(o, blockers, reason, active)
           r == [o EXCEPT !.blockers = blockers, !.flowOwner = owner]
           g == SetRecordBlocker(f, z, reason, active)
<1>1. o \in FullRecords /\ o \in ZoneRecords
  BY RecordTyped DEF ZoneRecords
<1>2. blockers \in SUBSET BlockerReasons
  BY <1>1, RecordTyped
<1>3. owner \in FlowOwners
  BY <1>1, RecordTyped DEF FlowOwnerAfter, FlowOwners
<1>4. g = f \/ g = WithRecord(f, z, r)
  <2>1. CASE blockers = o.blockers
    BY <2>1 DEF SetRecordBlocker
  <2>2. CASE blockers # o.blockers
    <3> DEFINE h == WithRecord(f, z, [o EXCEPT !.blockers = blockers])
    <3>1. g = [f EXCEPT !.zones[z].blockers = blockers, !.zones[z].flowOwner = owner]
      BY <2>2 DEF SetRecordBlocker
    <3> HIDE DEF owner, blockers, g
    <3>2. g = WithRecord(f, z, r)
      BY <1>1, <3>1, RecordTyped DEF WithRecord, Snapshots, FullRecords
    <3> QED BY <3>2
  <2> QED BY <2>1, <2>2
<1> HIDE DEF o, owner, blockers
<1>5. r \in FullRecords /\ r.session = o.session
  BY <1>1, <1>2, <1>3 DEF FullRecords
<1> HIDE DEF r, g
<1>6. /\ WithRecord(f, z, r) \in Snapshots /\ WithRecord(f, z, r).zones[z] = r
      /\ \A y \in Zones \ {z} : WithRecord(f, z, r).zones[y] = f.zones[y]
  BY <1>5, WithRecordTyped DEF ZoneRecords
<1>7. g \in Snapshots /\ SamePulses(f, g)
  BY <1>4, <1>5, <1>6, RecordTyped DEF SamePulses, o
<1> QED BY <1>7 DEF g

(* _reconcile_zone_record: what the actuators show joins the records. *)
LEMMA RestoreTyped ==
  ASSUME NEW r \in FullRecords
  PROVE  /\ RestoreTerminalReason(r) \in FullRecords
         /\ OpenPulse(RestoreTerminalReason(r).session) = OpenPulse(r.session)
<1> DEFINE s == [r.session EXCEPT !.pending = "ACTUATOR_FAULT"]
           t == [r EXCEPT !.session = s]
<1>1. CASE r.session # NoSession /\ r.session.pending = NoReason
           /\ r.state = "FAULT" /\ r.fault = "ACTUATOR_OFF_TIMEOUT"
  <2>1. r.session \in OpenSessions /\ Sound(r.state, r.session)
    BY <1>1, RecordTyped DEF Sessions
  <2>2. "ACTUATOR_FAULT" \in ReasonOrNone
    BY DEF ReasonOrNone, Reasons
  <2>3. RestoreTerminalReason(r) = t
    BY <1>1 DEF RestoreTerminalReason, FullRecords
  <2>4. /\ s \in OpenSessions /\ s.intent = r.session.intent /\ s.offAt = r.session.offAt
        /\ s.cycle = r.session.cycle
    BY <2>1, <2>2 DEF OpenSessions
  <2> HIDE DEF s
  <2>5. s # NoSession /\ s \in Sessions
    BY <2>4, OpenIsOpen DEF Sessions
  <2>6. OpenPulse(s) = OpenPulse(r.session) /\ Sound(r.state, s)
    BY <1>1, <2>1, <2>4, <2>5 DEF OpenPulse, Sound
  <2>7. t \in FullRecords /\ t.session = s
    BY <2>5, <2>6 DEF FullRecords
  <2> QED BY <2>3, <2>6, <2>7
<1>2. CASE ~(r.session # NoSession /\ r.session.pending = NoReason
             /\ r.state = "FAULT" /\ r.fault = "ACTUATOR_OFF_TIMEOUT")
  BY <1>2 DEF RestoreTerminalReason
<1> QED BY <1>1, <1>2

LEMMA ReconcileTyped ==
  ASSUME NEW r \in FullRecords, NEW a
  PROVE  /\ ReconcileActive(r, a) \in FullRecords
         /\ ReconcileActive(r, a).session = r.session
<1> DEFINE cleared == r.blockers \ {NotProvenOff, ExternalKey}
           owner == IF ~(r.session # NoSession) /\ OffUnconfirmed \notin cleared THEN "none"
                    ELSE r.flowOwner
           x == [r EXCEPT !.blockers = cleared, !.flowOwner = owner]
           y == [r EXCEPT !.blockers = @ \cup {ExternalKey}, !.flowOwner = "EXTERNAL"]
           n == [r EXCEPT !.blockers = @ \cup {NotProvenOff}]
<1>1. ReconcileActive(r, a) \in {x, y, n}
  BY DEF ReconcileActive, FullRecords
<1>2. /\ cleared \in SUBSET BlockerReasons /\ owner \in FlowOwners
      /\ {ExternalKey, NotProvenOff} \subseteq BlockerReasons /\ "EXTERNAL" \in FlowOwners
  BY RecordTyped DEF BlockerReasons, FlowOwners
<1> HIDE DEF cleared, owner
<1>3. x \in FullRecords /\ x.session = r.session
  BY <1>2 DEF FullRecords
<1>4. y \in FullRecords /\ y.session = r.session
  BY <1>2 DEF FullRecords
<1>5. n \in FullRecords /\ n.session = r.session
  BY <1>2 DEF FullRecords
<1> HIDE DEF x, y, n
<1> QED BY <1>1, <1>3, <1>4, <1>5

LEMMA NewRecordTyped ==
  NewRecord \in FullRecords /\ LostRecord \in FullRecords
  /\ NewRecord.session = NoSession /\ LostRecord.session = NoSession
<1>1. NoSession \in Sessions /\ NoFault \in FaultOrNone /\ "DISABLED" \in States
      /\ "FAULT" \in States /\ "RESTORED_FROM_UNSAFE_STATE" \in FaultOrNone
      /\ {NotProvenOff} \in SUBSET BlockerReasons /\ "none" \in FlowOwners /\ NoTime \in Int
      /\ NoRun \in Nat
  BY DEF Sessions, FaultOrNone, Faults, States, BlockerReasons, FlowOwners, NoTime, NoRun
<1>2. \A state \in {"DISABLED", "FAULT"} : Sound(state, NoSession)
  BY DEF Sound
<1>3. NewRecord \in FullRecords /\ NewRecord.session = NoSession
  BY <1>1, <1>2 DEF NewRecord, FullRecords
<1>4. LostRecord \in FullRecords /\ LostRecord.session = NoSession
  <2> DEFINE n == NewRecord
             m == [n EXCEPT !.state = "FAULT", !.enabled = TRUE, !.daily = MaxDailyRuntime]
             l == [m EXCEPT !.fault = "RESTORED_FROM_UNSAFE_STATE", !.blockers = {NotProvenOff}]
  <2>1. n \in FullRecords /\ n.session = NoSession /\ LostRecord = l
    BY <1>3 DEF LostRecord
  <2>2. MaxDailyRuntime \in Int
    BY ConfigAssumption DEF ConfigValid
  <2> HIDE DEF n
  <2>3. m \in FullRecords /\ m.session = NoSession /\ m.state = "FAULT"
    BY <1>1, <1>2, <2>1, <2>2 DEF FullRecords
  <2> HIDE DEF m
  <2>4. l \in FullRecords /\ l.session = NoSession
    BY <1>1, <2>3 DEF FullRecords
  <2> QED BY <2>1, <2>4
<1> QED BY <1>3, <1>4

LEMMA PlanTyped ==
  ASSUME NEW f \in Snapshots, NEW assess
  PROVE  /\ PlanReconciledStore(f, assess) \in Snapshots
         /\ SamePulses(f, PlanReconciledStore(f, assess))
         /\ \A z \in Zones : PlanReconciledStore(f, assess).zones[z] # NoRecord
<1> DEFINE Base(r) == IF r = NoRecord THEN NewRecord ELSE RestoreTerminalReason(r)
           New(z) == ReconcileActive(Base(f.zones[z]), assess[z])
           zones == [z \in Zones |-> New(z)]
           g == [f EXCEPT !.zones = zones]
<1>1. ASSUME NEW z \in Zones
      PROVE  New(z) \in FullRecords /\ OpenPulse(New(z).session) = OpenPulse(f.zones[z].session)
  <2> DEFINE b == Base(f.zones[z])
  <2>1. b \in FullRecords /\ OpenPulse(b.session) = OpenPulse(f.zones[z].session)
    BY RecordTyped, NewRecordTyped, RestoreTyped DEF ZoneRecords
  <2> HIDE DEF Base, b
  <2>2. ReconcileActive(b, assess[z]) \in FullRecords
        /\ ReconcileActive(b, assess[z]).session = b.session
    BY <2>1, ReconcileTyped
  <2> QED BY <2>1, <2>2 DEF b
<1>2. PlanReconciledStore(f, assess) = g
  BY RecordTyped DEF PlanReconciledStore
<1> HIDE DEF New
<1>3. zones \in [Zones -> ZoneRecords] /\ \A z \in Zones : zones[z] = New(z)
  BY <1>1 DEF ZoneRecords
<1> HIDE DEF zones
<1>4. g \in Snapshots /\ g.zones = zones
  BY <1>3 DEF Snapshots
<1> HIDE DEF g
<1>5. SamePulses(f, g) /\ \A z \in Zones : g.zones[z] # NoRecord
  BY <1>1, <1>3, <1>4, RecordTyped DEF SamePulses
<1> QED BY <1>2, <1>4, <1>5

(* async_begin_new_run, async_mark_clean_shutdown, async_rebase_soaking_owner *)
LEMMA RunWritesTyped ==
  ASSUME NEW f \in Snapshots, NEW run \in Nat
  PROVE  /\ BeginNewRun(f, run) \in Snapshots /\ BeginNewRun(f, run).zones = f.zones
         /\ MarkCleanShutdown(f) \in Snapshots /\ MarkCleanShutdown(f).zones = f.zones
         /\ \A z \in Zones : f.zones[z] # NoRecord =>
              /\ RebaseSoakingOwner(f, z, run) \in Snapshots
              /\ SamePulses(f, RebaseSoakingOwner(f, z, run))
              /\ RebaseSoakingOwner(f, z, run).zones[z] # NoRecord
              /\ RebaseSoakingOwner(f, z, run).zones[z].session = f.zones[z].session
<1>1. BeginNewRun(f, run) \in Snapshots /\ BeginNewRun(f, run).zones = f.zones
  BY DEF BeginNewRun, Snapshots
<1>2. MarkCleanShutdown(f) \in Snapshots /\ MarkCleanShutdown(f).zones = f.zones
  BY DEF MarkCleanShutdown, Snapshots
<1>3. ASSUME NEW z \in Zones, f.zones[z] # NoRecord
      PROVE  /\ RebaseSoakingOwner(f, z, run) \in Snapshots
             /\ SamePulses(f, RebaseSoakingOwner(f, z, run))
             /\ RebaseSoakingOwner(f, z, run).zones[z] # NoRecord
             /\ RebaseSoakingOwner(f, z, run).zones[z].session = f.zones[z].session
  <2> DEFINE o == f.zones[z]
             r == [o EXCEPT !.run = run]
             g == RebaseSoakingOwner(f, z, run)
  <2>1. o \in FullRecords
    BY <1>3, RecordTyped DEF ZoneRecords
  <2>2. g = WithRecord(f, z, r)
    BY RecordTyped DEF RebaseSoakingOwner, WithRecord, Snapshots
  <2> HIDE DEF o, g
  <2>3. r \in FullRecords /\ r.session = o.session
    BY <2>1 DEF FullRecords
  <2> HIDE DEF r
  <2>4. /\ g \in Snapshots /\ g.zones[z] = r
        /\ \A y \in Zones \ {z} : g.zones[y] = f.zones[y]
    BY <2>2, <2>3, WithRecordTyped DEF ZoneRecords
  <2>5. SamePulses(f, g) /\ r # NoRecord
    BY <2>3, <2>4, RecordTyped DEF SamePulses, o
  <2> QED BY <2>3, <2>4, <2>5 DEF g, o
<1> QED BY <1>1, <1>2, <1>3

(* async_first_initialize, async_reconstruct_after_integrity_loss *)
LEMMA FreshTyped ==
  /\ FirstInitialize(Zones) \in Snapshots /\ ReconstructAfterIntegrityLoss(Zones) \in Snapshots
  /\ \A z \in Zones : /\ ~OpenPulse(FirstInitialize(Zones).zones[z].session)
                      /\ ~OpenPulse(ReconstructAfterIntegrityLoss(Zones).zones[z].session)
<1>1. NoRun \in Nat
  BY DEF NoRun
<1>2. /\ FirstInitialize(Zones) \in Snapshots
      /\ \A z \in Zones : FirstInitialize(Zones).zones[z] = NoRecord
  BY <1>1 DEF FirstInitialize, Snapshot, Snapshots, ZoneRecords
<1>3. /\ ReconstructAfterIntegrityLoss(Zones) \in Snapshots
      /\ \A z \in Zones : ReconstructAfterIntegrityLoss(Zones).zones[z] = LostRecord
  BY <1>1, NewRecordTyped DEF ReconstructAfterIntegrityLoss, Snapshot, Snapshots, ZoneRecords
<1> QED BY <1>2, <1>3, RecordTyped, NewRecordTyped

-----------------------------------------------------------------------------
(* The inductive invariant. *)

NoFile == {"down", "first", "rebuild"}
Late == {"attach", "reread", "up", "unload", "orphaned"} \cup Stopping

(* Where a runtime stands, and what that says of its Store, its            *)
(* controllers and its slot.                                               *)
Course(p) ==
    /\ p.phase \notin NoFile => p.mem \in Snapshots
    /\ p.phase \in Late => \A z \in Zones : p.mem.zones[z] # NoRecord
    /\ \A z \in Zones : p.zone[z].attached => p.phase \in Late
    /\ p.phase = "attach" => \A z \in Zones : p.zone[z].attached <=> z \notin p.todo
    /\ p.phase \in {"reread", "up"} => \A z \in Zones : p.zone[z].attached
    /\ p.phase \in Setup \cup {"orphaned"} => ~p.slots.grantsEnabled
    /\ p.phase \in Stopping => \A z \in Zones : ~p.zone[z].eligible
    /\ p.failures => p.phase \in Stopping
Fit(p) == IsRuntime(p) /\ Course(p)

Hazard(f, z) == f.status = "valid" /\ OpenPulse(f.zones[z].session)

(* The runtime believes its Store and the file to agree on the zone.       *)
Believes(p, z) ==
    /\ p.phase \notin NoFile /\ ~p.failures
    /\ IF p.zone[z].attached THEN ~p.zone[z].persistFailed
       ELSE p.phase \in {"begin", "records", "attach"}

(* What ties water, a zone's controller, the Store in memory and the file  *)
(* together.                                                               *)
Guarded(p, f, z, flow, lat) ==
    /\ flow => /\ Hazard(f, z) /\ p.phase \notin {"first", "rebuild"}
               /\ p.phase # "down" => OpenPulse(p.mem.zones[z].session)
    /\ p.zone[z].attached =>
         /\ flow => Wet(p.zone[z])
         /\ Unsaved(p.zone[z]) \/ OpenPulse(p.mem.zones[z].session)
    /\ Believes(p, z) /\ OpenPulse(p.mem.zones[z].session) => Hazard(f, z)
    /\ p.phase \in Setup => ~lat

Whole == NoOrphan /\ ~ghost.lost

IInv ==
    /\ IsWorld /\ disk \in Files /\ runs \in Nat
    /\ {"lost", "orphaned"} \subseteq DOMAIN ghost
    /\ DOMAIN proc = Instances
    /\ Fit(Live) /\ Live.phase # "orphaned"
    /\ Fit(proc["orphan"]) /\ proc["orphan"].phase \in {"down", "orphaned"}
    /\ Whole => \A z \in Zones : Guarded(Live, disk, z, MayFlow(z), latent[z])

LEMMA FitGoes ==
  ASSUME NEW p, Fit(p), NEW z \in Zones, NEW q, Goes(p, q, z)
  PROVE  Fit(q)
<1>1. /\ IsRuntime(q) /\ q.phase = p.phase /\ q.mem = p.mem /\ q.failures = p.failures
      /\ q.slots.grantsEnabled = p.slots.grantsEnabled
      /\ p.phase = "attach" => q.todo = p.todo
      /\ \A y \in Zones \ {z} : q.zone[y] = p.zone[y]
      /\ q.zone[z].attached = p.zone[z].attached
      /\ q.zone[z].eligible => p.zone[z].eligible
  BY DEF Goes, Follows
<1>2. \A y \in Zones : /\ q.zone[y].attached = p.zone[y].attached
                       /\ q.zone[y].eligible => p.zone[y].eligible
  BY <1>1
<1>3. Course(p)
  BY DEF Fit
<1>4. Course(q)
  BY <1>1, <1>2, <1>3 DEF Course
<1> QED BY <1>1, <1>4 DEF Fit

LEMMA GuardGoes ==
  ASSUME NEW p, NEW z \in Zones, NEW q, Goes(p, q, z), NEW f, NEW y \in Zones,
         NEW flow \in BOOLEAN, NEW lat \in BOOLEAN, Guarded(p, f, y, flow, lat)
  PROVE  Guarded(q, f, y, flow, lat)
<1>1. /\ q.phase = p.phase /\ q.mem = p.mem /\ q.failures = p.failures
      /\ q.zone[y].attached = p.zone[y].attached
      /\ p.zone[y].persistFailed => q.zone[y].persistFailed
      /\ Wet(p.zone[y]) => Wet(q.zone[y])
      /\ Unsaved(p.zone[y]) => Unsaved(q.zone[y])
  <2>1. CASE y = z
    BY <2>1 DEF Goes, Follows
  <2>2. CASE y # z
    BY <2>2 DEF Goes
  <2> QED BY <2>1, <2>2
<1>2. Believes(q, y) => Believes(p, y)
  BY <1>1 DEF Believes
<1> QED BY <1>1, <1>2 DEF Guarded

(* Less water is no hazard. *)
LEMMA GuardCalms ==
  ASSUME NEW p, NEW f, NEW z, NEW flow, NEW lat, Guarded(p, f, z, flow, lat),
         NEW flow2, NEW lat2, flow2 => flow, lat2 => lat
  PROVE  Guarded(p, f, z, flow2, lat2)
BY DEF Guarded

LEMMA DownFits ==
  /\ Fit(Down) /\ Down.phase = "down" /\ Down.mem = Absent
  /\ \A z \in Zones : Down.zone[z] = Detached
  /\ \A f, z, lat : z \in Zones => Guarded(Down, f, z, FALSE, lat)
  /\ \A f, z, flow, lat : z \in Zones /\ (flow => Hazard(f, z)) => Guarded(Down, f, z, flow, lat)
<1>1. [z \in Zones |-> Detached] \in [Zones -> Fitting]
  BY DetachedFits
<1>2. Absent \in Files
  BY DEF Files
<1>3. IsSlots(InitialSlots) /\ InitialSlots.grantsEnabled = FALSE
  BY DEF IsSlots, InitialSlots
<1>4. /\ Down.phase = "down" /\ Down.mem = Absent /\ Down.slots = InitialSlots
      /\ Down.zone = [z \in Zones |-> Detached] /\ Down.failures = FALSE
  BY DEF Down
<1>5. Down \in RuntimesOn(InitialSlots)
  BY <1>1, <1>2 DEF Down, RuntimesOn, NoRun, NoTime, Phases
<1>6. IsRuntime(Down)
  BY <1>3, <1>4, <1>5 DEF IsRuntime
<1>7. Course(Down)
  BY <1>3, <1>4, DetachedFits DEF Course, NoFile, Late, Setup, Stopping
<1>8. ASSUME NEW f, NEW z \in Zones, NEW flow, NEW lat, flow => Hazard(f, z)
      PROVE  Guarded(Down, f, z, flow, lat)
  BY <1>4, <1>8, DetachedFits DEF Guarded, Believes, NoFile, Setup
<1> QED BY <1>4, <1>6, <1>7, <1>8 DEF Fit

-----------------------------------------------------------------------------
(* Steps. *)

LEMMA Parts ==
  ASSUME IInv
  PROVE  /\ IsWorld /\ disk \in Files /\ runs \in Nat
         /\ DOMAIN proc = Instances
         /\ \A i \in Instances : Fit(proc[i]) /\ IsRuntime(proc[i])
         /\ Live.phase # "orphaned" /\ proc["orphan"].phase \in {"down", "orphaned"}
         /\ \A z \in Zones : MayFlow(z) \in BOOLEAN /\ latent[z] \in BOOLEAN
BY DEF IInv, Fit, Instances, IsWorld, MayFlow, Live

(* What only the live runtime and the file take part in. *)
LEMMA LiveSteps ==
  ASSUME IInv, NEW q, Fit(q), q.phase # "orphaned", proc' = [proc EXCEPT !["live"] = q],
         IsWorld', disk' \in Files, runs' \in Nat,
         DOMAIN ghost' = DOMAIN ghost, ghost'.lost = ghost.lost, ghost'.orphaned = ghost.orphaned,
         Whole => \A y \in Zones : Guarded(q, disk', y, MayFlow(y)', latent'[y])
  PROVE  IInv'
<1>1. DOMAIN proc = {"live", "orphan"}
  BY DEF IInv, Instances
<1>2. proc'["live"] = q /\ proc'["orphan"] = proc["orphan"] /\ DOMAIN proc' = Instances
  BY <1>1 DEF Instances
<1>3. Whole' => Whole
  BY <1>2 DEF Whole, NoOrphan
<1> QED BY <1>2, <1>3 DEF IInv, Live

(* A step of a runtime that failed. *)
LEMMA OrphanSteps ==
  ASSUME IInv, NEW q, Fit(q), q.phase = proc["orphan"].phase,
         proc' = [proc EXCEPT !["orphan"] = q], disk' \in Files,
         UNCHANGED <<now, runs, water, seen, latent, ghost>>,
         UNCHANGED disk \/ ~Whole
  PROVE  IInv'
<1>1. DOMAIN proc = {"live", "orphan"}
  BY DEF IInv, Instances
<1>2. proc'["orphan"] = q /\ proc'["live"] = proc["live"] /\ DOMAIN proc' = Instances
  BY <1>1 DEF Instances
<1>3. Whole' = Whole
  BY <1>2 DEF Whole, NoOrphan
<1>4. \A z \in Zones : MayFlow(z)' = MayFlow(z)
  BY DEF MayFlow
<1> QED BY <1>2, <1>3, <1>4 DEF IInv, IsWorld, Live, MayFlow

(* A controller goes on, and nothing but its runtime changes. *)
LEMMA ZoneMoves ==
  ASSUME IInv, NEW i \in Instances, NEW z \in Zones, NEW q, Goes(proc[i], q, z),
         proc' = [proc EXCEPT ![i] = q],
         UNCHANGED <<now, disk, runs, water, seen, latent, ghost>>
  PROVE  IInv'
<1>1. Fit(q) /\ q.phase = proc[i].phase
  BY Parts, FitGoes DEF Goes
<1>2. CASE i = "live"
  <2>1. ASSUME Whole, NEW y \in Zones
        PROVE  Guarded(q, disk', y, MayFlow(y)', latent'[y])
    <3>1. Guarded(Live, disk, y, MayFlow(y), latent[y])
      BY <2>1 DEF IInv
    <3>2. MayFlow(y)' = MayFlow(y) /\ latent'[y] = latent[y] /\ disk' = disk
      BY DEF MayFlow
    <3> QED BY <1>2, <3>1, <3>2, Parts, GuardGoes DEF Live
  <2>2. IsWorld' /\ q.phase # "orphaned"
    BY <1>1, <1>2, Parts DEF IsWorld, Live
  <2> QED BY <1>1, <1>2, <2>1, <2>2, Parts, LiveSteps
<1>3. CASE i = "orphan"
  BY <1>1, <1>3, Parts, OrphanSteps
<1> QED BY <1>2, <1>3 DEF Instances

(* No water of ours flows in a zone that believes its pulse is closed, and *)
(* no runtime that failed still writes, unless history says otherwise.     *)
LEMMA WholeIsLive ==
  ASSUME IInv, NEW i \in Instances, NEW z \in Zones, proc[i].zone[z].attached, Whole
  PROVE  i = "live"
<1>1. CASE i = "orphan"
  <2>1. proc[i].phase = "down"
    BY <1>1 DEF Whole, NoOrphan
  <2>2. proc[i].phase \in Late
    BY Parts DEF Fit, Course
  <2> QED BY <2>1, <2>2 DEF Late, Stopping
<1> QED BY <1>1 DEF Instances

(* What is to be written for zone z keeps the open pulses.                 *)
KeepsPulses(p, new, z) ==
    /\ new \in Snapshots
    /\ \A y \in Zones : p.mem.zones[y] # NoRecord => new.zones[y] # NoRecord
    /\ \A y \in Zones \ {z} : OpenPulse(new.zones[y].session) = OpenPulse(p.mem.zones[y].session)
    /\ OpenPulse(p.mem.zones[z].session) /\ Wet(p.zone[z]) => OpenPulse(new.zones[z].session)

(* The runtime after a write for zone z. *)
Saved(p, q, z) ==
    /\ IsRuntime(q)
    /\ q.phase = p.phase /\ q.failures = p.failures
    /\ q.slots.grantsEnabled = p.slots.grantsEnabled
    /\ p.phase = "attach" => q.todo = p.todo
    /\ \A y \in Zones \ {z} : q.zone[y] = p.zone[y]
    /\ q.zone[z].attached = p.zone[z].attached
    /\ q.zone[z].eligible => p.zone[z].eligible
    /\ Wet(p.zone[z]) => Wet(q.zone[z])
    /\ KeepsPulses(p, q.mem, z)
    /\ \/ Unsaved(q.zone[z])
       \/ OpenPulse(q.mem.zones[z].session)
       \/ ~Unsaved(p.zone[z]) /\ ~OpenPulse(p.mem.zones[z].session)

LEMMA FitSaved ==
  ASSUME NEW p, Fit(p), NEW z \in Zones, p.zone[z].attached, NEW q, Saved(p, q, z)
  PROVE  Fit(q)
<1>1. \A y \in Zones : /\ q.zone[y].attached = p.zone[y].attached
                       /\ q.zone[y].eligible => p.zone[y].eligible
  BY DEF Saved
<1>2. Course(p)
  BY DEF Fit
<1>3. /\ q.phase = p.phase /\ q.failures = p.failures
      /\ q.slots.grantsEnabled = p.slots.grantsEnabled
      /\ p.phase = "attach" => q.todo = p.todo
      /\ q.mem \in Snapshots
      /\ \A y \in Zones : p.mem.zones[y] # NoRecord => q.mem.zones[y] # NoRecord
      /\ IsRuntime(q)
  BY DEF Saved, KeepsPulses
<1>4. Course(q)
  BY <1>1, <1>2, <1>3 DEF Course
<1> QED BY <1>3, <1>4 DEF Fit

LEMMA GuardSaved ==
  ASSUME NEW p, Fit(p), NEW z \in Zones, p.zone[z].attached, NEW q, Saved(p, q, z),
         NEW f, NEW y \in Zones, NEW flow \in BOOLEAN, NEW lat \in BOOLEAN,
         Guarded(p, f, y, flow, lat)
  PROVE  Guarded(q, Stored(q.mem), y, flow, lat)
<1>1. /\ q.phase = p.phase /\ q.phase # "down"
      /\ q.mem \in Snapshots
  <2>1. p.phase \in Late
    BY DEF Fit, Course
  <2> QED BY <2>1 DEF Saved, KeepsPulses, Late, Stopping
<1>2. /\ Stored(q.mem).status = "valid"
      /\ OpenPulse(Stored(q.mem).zones[y].session) = OpenPulse(q.mem.zones[y].session)
  BY <1>1, StoredKeeps, RecordTyped
<1>3. flow => OpenPulse(q.mem.zones[y].session)
  <2>1. CASE y = z
    BY <1>1, <2>1 DEF Guarded, Saved, KeepsPulses
  <2>2. CASE y # z
    BY <1>1, <2>2 DEF Guarded, Saved, KeepsPulses
  <2> QED BY <2>1, <2>2
<1>4. q.zone[y].attached =>
        /\ flow => Wet(q.zone[y])
        /\ Unsaved(q.zone[y]) \/ OpenPulse(q.mem.zones[y].session)
  <2>1. CASE y = z
    BY <2>1 DEF Guarded, Saved
  <2>2. CASE y # z
    BY <2>2 DEF Guarded, Saved, KeepsPulses
  <2> QED BY <2>1, <2>2
<1> QED BY <1>1, <1>2, <1>3, <1>4 DEF Guarded, Hazard

(* The write of zone z is read back. *)
LEMMA SaveSucceeds ==
  ASSUME IInv, NEW i \in Instances, NEW z \in Zones, proc[i].zone[z].attached,
         NEW q, Saved(proc[i], q, z), proc' = [proc EXCEPT ![i] = q], disk' = Stored(q.mem),
         UNCHANGED <<now, runs, water, seen, latent, ghost>>
  PROVE  IInv'
<1>1. Fit(q) /\ q.phase = proc[i].phase
  BY Parts, FitSaved DEF Saved
<1>2. disk' \in Files
  BY StoredKeeps DEF Saved, KeepsPulses, Files
<1>3. CASE i = "live"
  <2>1. ASSUME Whole, NEW y \in Zones
        PROVE  Guarded(q, disk', y, MayFlow(y)', latent'[y])
    <3>1. Guarded(Live, disk, y, MayFlow(y), latent[y])
      BY <2>1 DEF IInv
    <3>2. MayFlow(y)' = MayFlow(y) /\ latent'[y] = latent[y]
      BY DEF MayFlow
    <3> QED BY <1>3, <3>1, <3>2, Parts, GuardSaved DEF Live
  <2>2. IsWorld' /\ q.phase # "orphaned"
    BY <1>1, <1>3, Parts DEF IsWorld, Live
  <2> QED BY <1>1, <1>2, <1>3, <2>1, <2>2, Parts, LiveSteps
<1>4. CASE i = "orphan"
  <2>1. ~Whole
    BY <1>4, WholeIsLive
  <2> QED BY <1>1, <1>2, <1>4, <2>1, Parts, OrphanSteps
<1> QED BY <1>3, <1>4 DEF Instances

(* The write of zone z fails; the file has it, or not. *)
LEMMA SaveFails ==
  ASSUME IInv, NEW i \in Instances, NEW z \in Zones, proc[i].zone[z].attached,
         NEW new, KeepsPulses(proc[i], new, z),
         NEW q, Goes(proc[i], q, z), proc' = [proc EXCEPT ![i] = q],
         \/ q.zone[z].persistFailed
         \/ OpenPulse(new.zones[z].session) = OpenPulse(proc[i].mem.zones[z].session),
         disk' \in {disk, Stored(new)},
         UNCHANGED <<now, runs, water, seen, latent, ghost>>
  PROVE  IInv'
<1>1. Fit(q) /\ q.phase = proc[i].phase
  BY Parts, FitGoes DEF Goes
<1>2. CASE disk' = disk
  BY <1>2, ZoneMoves
<1>3. CASE disk' = Stored(new)
  <2>1. disk' \in Files /\ disk'.status = "valid"
    BY <1>3, StoredKeeps, RecordTyped DEF KeepsPulses, Files
  <2>2. CASE i = "live"
    <3>1. ASSUME Whole, NEW y \in Zones
          PROVE  Guarded(q, disk', y, MayFlow(y)', latent'[y])
      <4>1. Guarded(Live, disk, y, MayFlow(y), latent[y])
        BY <3>1 DEF IInv
      <4>2. MayFlow(y)' = MayFlow(y) /\ latent'[y] = latent[y]
        BY DEF MayFlow
      <4>3. Guarded(q, disk, y, MayFlow(y), latent[y])
        BY <2>2, <4>1, Parts, GuardGoes DEF Live
      <4>4. OpenPulse(disk'.zones[y].session) = OpenPulse(new.zones[y].session)
        BY <1>3, StoredKeeps DEF KeepsPulses
      <4>5. q.phase \notin {"down"} /\ q.mem = proc[i].mem /\ Live = proc[i]
        <5>1. Live.phase \in Late
          BY <2>2, Parts DEF Fit, Course, Live
        <5> QED BY <2>2, <5>1, <1>1 DEF Late, Stopping, Goes, Live
      <4>6. CASE y = z
        <5>1. MayFlow(y) => OpenPulse(new.zones[y].session)
          BY <1>1, <4>1, <4>5, <4>6 DEF Guarded, KeepsPulses
        <5>2. Believes(q, y) /\ OpenPulse(q.mem.zones[y].session)
                => OpenPulse(new.zones[y].session)
          <6>1. q.zone[y].attached = proc[i].zone[y].attached
            BY <4>6 DEF Goes, Follows
          <6> QED BY <4>5, <4>6, <6>1 DEF Believes
        <5> QED BY <2>1, <4>2, <4>3, <4>4, <5>1, <5>2 DEF Guarded, Hazard
      <4>7. CASE y # z
        <5>1. OpenPulse(new.zones[y].session) = OpenPulse(q.mem.zones[y].session)
          BY <4>5, <4>7 DEF KeepsPulses
        <5>2. Hazard(disk', y) = OpenPulse(q.mem.zones[y].session)
          BY <2>1, <4>4, <5>1 DEF Hazard, OpenPulse
        <5>3. MayFlow(y) => OpenPulse(q.mem.zones[y].session)
          BY <4>3, <4>5 DEF Guarded
        <5> QED BY <4>2, <4>3, <5>2, <5>3 DEF Guarded
      <4> QED BY <4>6, <4>7
    <3>2. IsWorld' /\ q.phase # "orphaned"
      BY <1>1, <2>2, Parts DEF IsWorld, Live
    <3> QED BY <1>1, <2>1, <2>2, <3>1, <3>2, Parts, LiveSteps
  <2>3. CASE i = "orphan"
    <3>1. ~Whole
      BY <2>3, WholeIsLive
    <3> QED BY <1>1, <2>1, <2>3, <3>1, Parts, OrphanSteps
  <2> QED BY <2>2, <2>3 DEF Instances
<1> QED BY <1>2, <1>3

LEMMA PutBack ==
  ASSUME IInv, NEW i \in Instances, NEW z \in Zones, NEW d
  PROVE  /\ [proc EXCEPT ![i].zone[z] = d] = [proc EXCEPT ![i] = Put(proc[i], z, d)]
         /\ i = "live" => SetZone(i, z, d) = SetLive(Put(Live, z, d))
         /\ SetZone(i, z, d) = (proc' = [proc EXCEPT ![i] = Put(proc[i], z, d)])
BY DEF Put, SetZone, SetLive, Live

(* A controller goes on by itself. *)
LEMMA ControllerMoves ==
  ASSUME IInv, NEW i \in Instances, NEW z \in Zones, NEW d, Follows(proc[i].zone[z], d),
         SetZone(i, z, d), UNCHANGED <<now, disk, runs, water, seen, latent, ghost>>
  PROVE  IInv'
<1>1. IsRuntime(proc[i]) /\ IsSlots(proc[i].slots)
  BY Parts, RuntimeTyped
<1>2. Goes(proc[i], Put(proc[i], z, d), z)
  BY <1>1, ZoneGoes
<1> QED BY <1>2, PutBack, ZoneMoves

LEMMA Lists ==
  /\ << >> \in Seq(Rests) /\ <<EndOffer>> \in Seq(Rests) /\ <<Return>> \in Seq(Rests)
  /\ << >> \in Seq(Steps) /\ <<EndOn>> \in Seq(Rests)
  /\ <<BeginOff, Return>> \in Seq(Rests) /\ <<ShutdownOff, Return>> \in Seq(Rests)
  /\ \A q \in Seq(Rests) : /\ q \in Seq(Steps) /\ Persist \notin Range(q)
                           /\ \A a \in Range(q) : a.act # "Dispatch"
<1>1. /\ EndOffer \in Rests /\ Return \in Rests /\ EndOn \in Rests
      /\ BeginOff \in Rests /\ ShutdownOff \in Rests
  BY DEF EndOffer, Return, EndOn, BeginOff, ShutdownOff, Rests
<1>2. ASSUME NEW q \in Seq(Rests)
      PROVE  Persist \notin Range(q) /\ \A a \in Range(q) : a.act # "Dispatch"
  <2>1. Range(q) \subseteq Rests
    BY LenProperties DEF Range
  <2> QED BY <2>1, NoKeys DEF Rests
<1> QED BY <1>1, <1>2, Tuples, NoKeys

(* What a decision makes of a controller, unless the event tells it of OFF. *)
Heeds(c, d, off) ==
    /\ d \in Fitting /\ d.attached /\ d.on = c.on
    /\ d.eligible = c.eligible /\ d.persistFailed = c.persistFailed
    /\ Wet(c) /\ ~off => Wet(d)
    /\ Unsaved(c) => Unsaved(d)
    /\ ~off => Follows(c, d)

(* The lock is free and an event is dispatched. *)
LEMMA DispatchFollows ==
  ASSUME IsWorld, NEW z \in Zones, NEW p, p.run \in Nat, NEW c \in Fitting, c.attached,
         c.todo = << >>, NEW v \in Int, NEW e \in Heard, NEW rest \in Seq(Rests)
  PROVE  Heeds(c, DecideAndApply(p, z, c, v, e, rest), OffSeen(e))
<1> DEFINE d == Decide(Input(p, z, c, v), e)
           off == OffSeen(e)
           i == Input(p, z, c, v)
<1>1. off \in BOOLEAN
  BY DEF OffSeen
<1>2. i \in Situations /\ i.now \in Nat /\ Sound(i.state, i.session)
  BY FittingFits, InputTyped
<1>3. d = Decide(i, e) /\ off = OffSeen(e) /\ DecideAndApply(p, z, c, v, e, rest) = Adopt(p, c, d, rest)
  BY DEF DecideAndApply
<1> HIDE DEF i, d, off
<1>4. Fine(i, off, d)
  BY <1>2, <1>3, DecisionFine
<1>5. rest \in Seq(Steps)
      /\ \A a \in Range(rest) : a.act = "Dispatch" /\ OffSeen(a.event) => a \in Range(c.todo)
  BY Lists
<1>6. ~(Persist \in Range(c.todo))
  BY Tuples
<1>7. LET e1 == Adopt(p, c, d, rest) IN
      /\ e1 \in Fitting /\ e1.attached
      /\ e1.eligible = c.eligible /\ e1.persistFailed = c.persistFailed
      /\ Wet(c) /\ ~off => Wet(e1)
      /\ Unsaved(c) => Unsaved(e1)
      /\ ~off => Follows(c, e1)
  BY <1>1, <1>4, <1>5, <1>6, AdoptFollows DEF i
<1>8. Adopt(p, c, d, rest).on = c.on
  <2>1. c \in Controllers
    BY FittingFits
  <2> HIDE DEF d
  <2> QED BY <2>1 DEF Adopt, Controllers
<1> QED BY <1>3, <1>7, <1>8 DEF Heeds

(* The same, after what led to it. *)
LEMMA DispatchGoes ==
  ASSUME IsWorld, NEW z \in Zones, NEW p, IsRuntime(p), NEW b, NEW c, Follows(b, c), c.attached,
         c.todo = << >>, NEW v \in Int, NEW e, e \in Heard, NEW rest, rest \in Seq(Rests),
         Wet(b) => ~OffSeen(e)
  PROVE  Follows(b, DecideAndApply(p, z, c, v, e, rest))
<1> DEFINE d == DecideAndApply(p, z, c, v, e, rest)
<1>1. p.run \in Nat /\ c \in Fitting
  BY RuntimeTyped DEF Follows
<1>2. Heeds(c, d, OffSeen(e))
  BY <1>1, DispatchFollows
<1> HIDE DEF d
<1>3. Follows(b, d)
  BY <1>2 DEF Heeds, Follows
<1> QED BY <1>3 DEF d

LEMMA PerformOffKeeps ==
  ASSUME IInv, NEW i \in Instances, NEW z \in Zones, PerformOff(i, z)
  PROVE  IInv'
<1> DEFINE c == proc[i].zone[z]
           d == [c EXCEPT !.offRequested = FALSE]
<1>1. c \in Fitting /\ c.attached /\ c \in Controllers
  BY Parts, RuntimeTyped, FittingFits DEF PerformOff
<1>2. SetZone(i, z, StartOff(z, d))
  BY DEF PerformOff
<1>3. UNCHANGED <<now, disk, runs, water, seen, latent, ghost>>
  BY DEF PerformOff, world
<1> HIDE DEF c
<1>4. Alike(c, d)
  BY <1>1 DEF Alike, Controllers
<1> HIDE DEF d
<1>5. Follows(c, d) /\ d \in Fitting /\ d.attached
  BY <1>1, <1>4, AlikeFollows DEF Alike, Follows
<1>6. Follows(c, StartOff(z, d))
  BY <1>5, StartOffFollows, FollowsOn
<1> QED BY <1>2, <1>3, <1>6, ControllerMoves DEF c

LEMMA RunsOnKeeps ==
  ASSUME IInv, NEW i \in Instances, NEW z \in Zones, RunsOn(i, z)
  PROVE  IInv'
<1>1. Goes(proc[i], RunOn(proc[i], z), z)
  BY Parts, RunOnGoes
<1>2. /\ proc' = [proc EXCEPT ![i] = RunOn(proc[i], z)]
      /\ UNCHANGED <<now, disk, runs, water, seen, latent, ghost>>
  BY DEF RunsOn, world
<1> QED BY <1>1, <1>2, ZoneMoves

LEMMA RefusalHeard ==
  ASSUME NEW p, NEW z, NEW c
  PROVE  RefusalEvent(p, z, c) \in Heard /\ ~OffSeen(RefusalEvent(p, z, c))
<1>1. RefusalEvent(p, z, c) \in {Event("OnConfirmTimeout"), Event("ActuatorBecameUnavailable"),
                                 Event("ConfigChangedPrepare")}
  BY DEF RefusalEvent
<1>2. \A k \in {"OnConfirmTimeout", "ActuatorBecameUnavailable", "ConfigChangedPrepare"} :
        Event(k) \in Heard /\ ~OffSeen(Event(k))
  BY DEF Event, Heard, Events, PlainKinds, OffSeen
<1> QED BY <1>1, <1>2

(* The command is sent: the pulse is in the file already. *)
LEMMA CommandIsCovered ==
  ASSUME IInv, NEW i \in Instances, NEW z \in Zones, Free(proc[i].zone[z]),
         NEW c, c.eligible = proc[i].zone[z].eligible, c.session = proc[i].zone[z].session,
         c.persistFailed = proc[i].zone[z].persistFailed, c.state = proc[i].zone[z].state,
         OnAuthority(proc[i], z, c)
  PROVE  /\ i = "live" /\ Live.phase \notin Setup /\ Live.phase # "down"
         /\ Wet(Live.zone[z])
         /\ Whole => Hazard(disk, z) /\ OpenPulse(Live.mem.zones[z].session)
<1> DEFINE b == proc[i].zone[z]
<1>1. /\ proc[i].slots.grantsEnabled
      /\ b.eligible /\ ~b.persistFailed /\ b.state = "WATERING"
  BY DEF OnAuthority, ConfigurationAuthority, AdmissionOpen
<1>2. b.attached /\ b.todo = << >> /\ b.inbox = << >> /\ b \in Fitting
  BY Parts, RuntimeTyped DEF Free, Idle
<1>3. OpenPulse(b.session)
  BY <1>1, <1>2, FittingFits DEF Sound
<1>4. Course(proc[i]) /\ proc[i].phase \in Late
  BY <1>2, Parts DEF Fit, Course
<1>5. proc[i].phase \notin Setup \cup {"orphaned"} \cup Stopping /\ ~proc[i].failures
  BY <1>1, <1>4 DEF Course
<1>6. i = "live"
  <2>1. CASE i = "orphan"
    BY <1>4, <1>5, <2>1, Parts DEF Late, Stopping
  <2> QED BY <2>1 DEF Instances
<1>7. Wet(b) /\ ~Unsaved(b)
  BY <1>1, <1>2, <1>3, Tuples DEF Wet, OffWaits, Unsaved
<1>8. proc[i].phase \notin NoFile
  BY <1>4 DEF NoFile, Late, Stopping
<1>9. ASSUME Whole
      PROVE  Hazard(disk, z) /\ OpenPulse(Live.mem.zones[z].session)
  <2>1. Guarded(Live, disk, z, MayFlow(z), latent[z])
    BY <1>9 DEF IInv
  <2>2. OpenPulse(Live.mem.zones[z].session)
    BY <1>2, <1>6, <1>7, <2>1 DEF Guarded, Live
  <2>3. Believes(Live, z)
    BY <1>1, <1>2, <1>5, <1>6, <1>8 DEF Believes, Live
  <2> QED BY <2>1, <2>2, <2>3 DEF Guarded
<1> QED BY <1>5, <1>6, <1>7, <1>8, <1>9 DEF Live, NoFile

LEMMA PerformOnKeeps ==
  ASSUME IInv, NEW i \in Instances, NEW z \in Zones, PerformOn(i, z)
  PROVE  IInv'
<1> DEFINE p == proc[i]
           b == p.zone[z]
           c == [b EXCEPT !.onRequested = FALSE]
           called == [c EXCEPT !.on = "call", !.dispatchedAt = now, !.ackAt = NoTime]
           x == IF c.eligible /\ ~c.persistFailed THEN c ELSE Quiesce(c)
           e == RefusalEvent(p, z, c)
           refused == DecideAndApply(p, z, x, AnyReading, e, << >>)
<1>1. /\ Free(b) /\ b.on = "none"
      /\ latent' = [latent EXCEPT ![z] = @ \/ proc'[i].zone[z].on = "call"]
      /\ UNCHANGED <<now, disk, runs, water, seen, ghost>>
  <2>1. b \in Controllers
    BY Parts, RuntimeTyped, FittingFits
  <2>2. /\ Free(c) /\ c.on = "none"
        /\ latent' = [latent EXCEPT ![z] = @ \/ proc'[i].zone[z].on = "call"]
        /\ UNCHANGED <<now, disk, runs, water, seen, ghost>>
    BY DEF PerformOn
  <2> HIDE DEF b
  <2>3. Free(b) = Free(c) /\ b.on = c.on
    BY <2>1 DEF Free, Idle, Controllers
  <2> QED BY <2>2, <2>3
<1>2. \/ SetZone(i, z, c)
      \/ SetZone(i, z, called) /\ OnAuthority(p, z, c)
      \/ SetZone(i, z, refused)
  BY DEF PerformOn
<1>3. b \in Fitting /\ b \in Controllers /\ b.attached /\ b.todo = << >> /\ IsRuntime(p)
  BY <1>1, Parts, RuntimeTyped, FittingFits DEF Free, Idle
<1> HIDE DEF b
<1>4. Alike(b, c) /\ c \in Controllers /\ c.on = b.on
  BY <1>3 DEF Alike, Controllers
<1> HIDE DEF c
<1>5. Alike(c, called) /\ called.on = "call"
  <2>1. now \in Int /\ NoTime \in Int
    BY Parts DEF IsWorld, NoTime
  <2> QED BY <1>4, <2>1 DEF Alike, Controllers
<1> HIDE DEF called
<1>6. Follows(b, c) /\ c \in Fitting /\ c.attached /\ c.todo = << >>
  BY <1>3, <1>4, AlikeFollows DEF Alike, Follows
<1>7. Follows(b, called)
  BY <1>5, <1>6, AlikeFollows, FollowsOn
<1>8. Follows(b, refused) /\ refused.on = "none"
  <2>1. Follows(c, x) /\ x \in Fitting /\ x.attached /\ x.todo = << >> /\ x.on = "none"
    <3>1. /\ Follows(c, c) /\ Follows(c, Quiesce(c))
          /\ Quiesce(c).todo = << >> /\ Quiesce(c).on = "none"
      BY <1>1, <1>4, <1>6, QuiesceFollows, FollowsItself DEF Quiesce, Controllers
    <3> QED BY <1>1, <1>4, <1>6, <3>1 DEF Follows
  <2>2. e \in Heard /\ ~OffSeen(e)
    BY RefusalHeard
  <2>3. p.run \in Nat /\ AnyReading \in Int /\ << >> \in Seq(Rests) /\ IsWorld
    BY <1>3, RuntimeTyped, ConstantsTyped, Lists, Parts
  <2> HIDE DEF x, e
  <2>4. Follows(x, refused) /\ refused.on = "none"
    BY <2>1, <2>2, <2>3, DispatchFollows DEF Heeds
  <2> QED BY <1>6, <2>1, <2>4, FollowsOn
<1> HIDE DEF refused
<1>9. ASSUME NEW d, Follows(b, d), SetZone(i, z, d)
      PROVE  /\ proc'[i].zone[z] = d /\ Goes(p, Put(p, z, d), z)
             /\ proc' = [proc EXCEPT ![i] = Put(p, z, d)]
  <2>1. d \in Fitting /\ IsSlots(p.slots)
    BY <1>3, <1>9, RuntimeTyped DEF Follows
  <2>2. Put(p, z, d).zone[z] = d /\ Goes(p, Put(p, z, d), z)
    BY <1>3, <1>9, <2>1, ZonePut, ZoneGoes DEF b
  <2>3. proc' = [proc EXCEPT ![i] = Put(p, z, d)]
    BY <1>9, PutBack
  <2> QED BY <2>2, <2>3, Parts
<1>10. ASSUME NEW d, Follows(b, d), SetZone(i, z, d), d.on = "none"
       PROVE  IInv'
  <2>1. proc'[i].zone[z].on = "none"
    BY <1>9, <1>10
  <2>2. latent' = latent
    BY <1>1, <2>1, Parts DEF IsWorld
  <2> QED BY <1>1, <1>10, <2>2, ControllerMoves DEF b
<1>11. CASE SetZone(i, z, called) /\ OnAuthority(p, z, c)
  <2> DEFINE q == Put(p, z, called)
  <2>1. /\ proc'[i].zone[z] = called /\ Goes(p, q, z) /\ proc' = [proc EXCEPT ![i] = q]
    BY <1>7, <1>9, <1>11
  <2> HIDE DEF q
  <2>2. latent'[z] = TRUE /\ (\A y \in Zones \ {z} : latent'[y] = latent[y])
        /\ latent' \in [Zones -> BOOLEAN]
    BY <1>1, <1>5, <2>1, Parts DEF IsWorld
  <2>3. /\ i = "live" /\ Live.phase \notin Setup /\ Live.phase # "down"
        /\ Wet(Live.zone[z])
        /\ Whole => Hazard(disk, z) /\ OpenPulse(Live.mem.zones[z].session)
    BY <1>1, <1>4, <1>11, CommandIsCovered DEF Alike, b
  <2>4. Fit(q) /\ q.phase = Live.phase /\ q.mem = Live.mem /\ Wet(q.zone[z])
    BY <2>1, <2>3, Parts, FitGoes DEF Goes, Follows, Live
  <2>5. ASSUME Whole, NEW y \in Zones
        PROVE  Guarded(q, disk', y, MayFlow(y)', latent'[y])
    <3>1. Guarded(q, disk, y, MayFlow(y), latent[y])
      BY <2>1, <2>3, <2>5, Parts, GuardGoes DEF IInv, Live
    <3>2. CASE y = z
      <4>1. q.phase \notin {"first", "rebuild"}
        BY <2>3, <2>4 DEF Setup
      <4> QED BY <1>1, <2>3, <2>4, <2>5, <3>1, <3>2, <4>1 DEF Guarded
    <3>3. CASE y # z
      <4>1. MayFlow(y)' = MayFlow(y) /\ latent'[y] = latent[y] /\ disk' = disk
        BY <1>1, <2>2, <3>3 DEF MayFlow
      <4> QED BY <3>1, <4>1
    <3> QED BY <3>2, <3>3
  <2>6. IsWorld' /\ q.phase # "orphaned"
    BY <1>1, <2>2, <2>4, Parts DEF IsWorld
  <2> QED BY <1>1, <2>1, <2>3, <2>4, <2>5, <2>6, Parts, LiveSteps
<1> QED BY <1>1, <1>2, <1>4, <1>6, <1>8, <1>10, <1>11

(* OFF was seen while nothing of ours can flow. *)
LEMMA DryMoves ==
  ASSUME IInv, NEW i \in Instances, NEW z \in Zones, NEW d \in Fitting,
         d.attached = proc[i].zone[z].attached, d.eligible => proc[i].zone[z].eligible,
         proc[i].zone[z].persistFailed => d.persistFailed,
         Unsaved(proc[i].zone[z]) => Unsaved(d), ~MayFlow(z),
         SetZone(i, z, d), UNCHANGED <<now, disk, runs, water, seen, latent, ghost>>
  PROVE  IInv'
<1> DEFINE p == proc[i]
           q == Put(p, z, d)
<1>1. /\ IsRuntime(q) /\ SameCourse(p, q) /\ q.slots = p.slots /\ q.zone[z] = d
      /\ \A y \in Zones \ {z} : q.zone[y] = p.zone[y]
  BY Parts, ZonePut
<1>2. proc' = [proc EXCEPT ![i] = q]
  BY PutBack
<1> HIDE DEF q
<1>3. \A y \in Zones : /\ q.zone[y].attached = p.zone[y].attached
                       /\ q.zone[y].eligible => p.zone[y].eligible
  BY <1>1
<1>4. Course(q)
  BY <1>1, <1>3, Parts DEF Course, Fit, SameCourse
<1>5. Fit(q)
  BY <1>1, <1>4 DEF Fit
<1>6. CASE i = "live"
  <2>1. ASSUME Whole, NEW y \in Zones
        PROVE  Guarded(q, disk', y, MayFlow(y)', latent'[y])
    <3>1. Guarded(p, disk, y, MayFlow(y), latent[y])
      BY <1>6, <2>1 DEF IInv, Live
    <3>2. MayFlow(y)' = MayFlow(y) /\ latent'[y] = latent[y] /\ disk' = disk
      BY DEF MayFlow
    <3>3. CASE y = z
      <4>1. Believes(q, y) => Believes(p, y)
        BY <1>1, <3>3 DEF Believes, SameCourse
      <4> QED BY <1>1, <3>1, <3>2, <3>3, <4>1 DEF Guarded, SameCourse
    <3>4. CASE y # z
      <4>1. Believes(q, y) = Believes(p, y) /\ q.zone[y] = p.zone[y]
        BY <1>1, <3>4 DEF Believes, SameCourse
      <4> QED BY <1>1, <3>1, <3>2, <4>1 DEF Guarded, SameCourse
    <3> QED BY <3>3, <3>4
  <2>2. IsWorld' /\ q.phase # "orphaned"
    BY <1>1, <1>6, Parts DEF IsWorld, SameCourse, Live
  <2> QED BY <1>2, <1>5, <1>6, <2>1, <2>2, Parts, LiveSteps
<1>7. CASE i = "orphan"
  BY <1>1, <1>2, <1>5, <1>7, Parts, OrphanSteps DEF SameCourse
<1> QED BY <1>6, <1>7 DEF Instances

LEMMA OffEndsKeeps ==
  ASSUME IInv, NEW i \in Instances, NEW z \in Zones, OffEnds(i, z)
  PROVE  IInv'
<1> DEFINE c == proc[i].zone[z]
           m == IF Assessment(z).provenOff THEN Call(At("OffConfirmed", now), <<EndOff("proven")>>)
                ELSE OffFailed
           b == [c EXCEPT !.off = "reporting"]
           d == [c EXCEPT !.off = "reporting", !.inbox = Append(@, m)]
<1>1. /\ c.off = "running" /\ (Assessment(z).provenOff => ~latent[z])
      /\ SetZone(i, z, d)
      /\ UNCHANGED <<now, disk, runs, water, seen, latent, ghost>>
  BY DEF OffEnds, world
<1>2. c \in Fitting /\ c \in Controllers /\ IsWorld
  BY Parts, RuntimeTyped, FittingFits
<1>3. c.attached
  BY <1>1, <1>2 DEF Fitting, Detached
<1>4. m \in Messages /\ (~Assessment(z).provenOff => ~TellsOff(m))
  BY <1>2, OffFailedTyped
<1> HIDE DEF c, m
<1>5. Alike(c, b)
  BY <1>2 DEF Controllers, Alike
<1>6. d = Send(b, m)
  BY <1>2 DEF Send, Controllers
<1> HIDE DEF b
<1>7. Follows(c, b) /\ b \in Fitting /\ b.attached
  BY <1>2, <1>3, <1>5, AlikeFollows DEF Follows
<1>8. CASE ~Assessment(z).provenOff
  <2>1. Follows(b, d)
    BY <1>4, <1>6, <1>7, <1>8, SendFollows
  <2> HIDE DEF d
  <2>2. Follows(c, d)
    BY <1>7, <2>1, FollowsOn
  <2> QED BY <1>1, <2>2, ControllerMoves DEF c
<1>9. CASE Assessment(z).provenOff
  <2>1. ~MayFlow(z)
    <3>1. water[z] = "closed"
      BY <1>2, <1>9, AssessmentTyped DEF IsWorld
    <3> QED BY <1>1, <1>9, <3>1 DEF MayFlow
  <2>2. Append(b.inbox, m) \in Seq(Messages)
    BY <1>4, <1>7, Appended, FittingFits
  <2>3. /\ d \in Controllers /\ d.attached = b.attached /\ d.state = b.state
        /\ d.session = b.session /\ d.todo = b.todo /\ d.eligible = b.eligible
        /\ d.persistFailed = b.persistFailed
    <3>1. d = [b EXCEPT !.inbox = Append(b.inbox, m)] /\ b \in Controllers
      BY <1>6, <1>7, FittingFits DEF Send
    <3> HIDE DEF d
    <3> QED BY <2>2, <3>1 DEF Controllers
  <2> HIDE DEF d
  <2>4. d \in Fitting /\ (Unsaved(b) => Unsaved(d))
    BY <1>7, <2>3, FittingFits DEF Fitting, Unsaved
  <2>5. /\ d.attached = c.attached /\ (d.eligible => c.eligible)
        /\ (c.persistFailed => d.persistFailed) /\ (Unsaved(c) => Unsaved(d))
    BY <1>7, <2>3, <2>4 DEF Follows
  <2> QED BY <1>1, <2>1, <2>4, <2>5, DryMoves DEF c
<1> QED BY <1>8, <1>9

(* A waiting task gets the lock. *)
LEMMA InboxFollows ==
  ASSUME NEW c \in Fitting, c.attached, c.inbox # << >>
  PROVE  LET d == [c EXCEPT !.inbox = Tail(@)] IN
         /\ Follows(c, d) /\ d.todo = c.todo /\ Head(c.inbox) \in Messages
         /\ Wet(c) => ~TellsOff(Head(c.inbox))
<1> DEFINE t == Tail(c.inbox)
           d == [c EXCEPT !.inbox = t]
<1>1. /\ Head(c.inbox) \in Messages /\ t \in Seq(Messages)
      /\ Range(c.inbox) = {Head(c.inbox)} \cup Range(t)
  BY FittingFits, Popped
<1>2. /\ d \in Controllers /\ d.attached = c.attached /\ d.state = c.state
      /\ d.session = c.session /\ d.todo = c.todo /\ d.inbox = t /\ d.eligible = c.eligible
      /\ d.persistFailed = c.persistFailed
  <2>1. c \in Controllers /\ t \in Seq(Messages)
    BY <1>1, FittingFits
  <2> HIDE DEF t
  <2> QED BY <2>1 DEF Controllers
<1>3. [c EXCEPT !.inbox = Tail(@)] = d
  OBVIOUS
<1> HIDE DEF t, d
<1>4. Follows(c, d)
  BY <1>1, <1>2, FittingFits, FollowsBy
<1>5. Wet(c) => ~TellsOff(Head(c.inbox))
  BY <1>1 DEF Wet, OffWaits
<1> QED BY <1>1, <1>2, <1>3, <1>4, <1>5

(* _async_actuator_change *)
LEMMA ChangeTyped ==
  ASSUME NEW c, NEW m \in Messages, m.kind = "ActuatorChange"
  PROVE  LET q == ActuatorChange(c, m) IN
         /\ q \in Seq(Todos) /\ KeysFirst(q)
         /\ ~m.cur.provenOff => \A a \in Range(q) : a.act = "Dispatch" => ~OffSeen(a.event)
<1> DEFINE lost == Dispatch(Event("ActuatorBecameUnavailable"))
           on == Dispatch(Event("ExternalActuatorOn"))
           confirmed == Dispatch(At("OnConfirmed", m.at))
           off == Dispatch(At("ExternalActuatorOff", m.at))
           q == ActuatorChange(c, m)
<1>1. m.cur \in Views /\ m.at \in Nat
  BY DEF Messages
<1>2. \/ q \in {<< >>, <<lost>>, <<on>>, <<confirmed>>}
      \/ (q \in {<<ClearKey>>, <<ClearKey, off>>} /\ m.cur.provenOff)
  BY <1>1 DEF ActuatorChange, Views
<1>3. /\ lost \in Steps /\ on \in Steps /\ confirmed \in Steps /\ off \in Steps
      /\ \A a \in {lost, on, confirmed} : ~OffSeen(a.event)
  <2>1. /\ Event("ActuatorBecameUnavailable") \in Heard /\ Event("ExternalActuatorOn") \in Heard
        /\ At("OnConfirmed", m.at) \in Heard /\ At("ExternalActuatorOff", m.at) \in Heard
        /\ ~OffSeen(Event("ActuatorBecameUnavailable")) /\ ~OffSeen(Event("ExternalActuatorOn"))
        /\ ~OffSeen(At("OnConfirmed", m.at))
    BY <1>1 DEF Event, At, Heard, Events, PlainKinds, OffSeen
  <2> QED BY <2>1 DEF Dispatch, Steps
<1>4. off # Persist /\ ClearKey # Persist /\ off # ClearKey
  BY DEF Dispatch, Persist, ClearKey
<1>5. ClearKey \in Todos /\ off \in Todos
  BY <1>3 DEF Todos
<1> HIDE DEF lost, on, confirmed, off, q
<1>6. ASSUME q \in {<< >>, <<lost>>, <<on>>, <<confirmed>>}
      PROVE  /\ q \in Seq(Todos) /\ KeysFirst(q)
             /\ \A a \in Range(q) : a.act = "Dispatch" => ~OffSeen(a.event)
  <2>1. q \in Seq(Steps) /\ Range(q) \subseteq {lost, on, confirmed}
    <3>1. CASE q = << >>
      BY <3>1, Tuples
    <3>2. ASSUME NEW a \in {lost, on, confirmed}
          PROVE  <<a>> \in Seq(Steps) /\ Range(<<a>>) = {a}
      BY <1>3, Tuples
    <3> QED BY <1>6, <3>1, <3>2
  <2> QED BY <1>3, <2>1, NoKeys
<1>7. ASSUME q \in {<<ClearKey>>, <<ClearKey, off>>}
      PROVE  q \in Seq(Todos) /\ KeysFirst(q)
  <2>1. Range(q) \subseteq {ClearKey, off} /\ q \in Seq(Todos)
    <3>1. /\ <<ClearKey>> \in Seq(Todos) /\ Range(<<ClearKey>>) = {ClearKey}
          /\ <<ClearKey, off>> \in Seq(Todos) /\ Range(<<ClearKey, off>>) = {ClearKey, off}
      BY <1>5, Tuples
    <3> QED BY <1>7, <3>1
  <2>2. \A n \in DOMAIN q : n = 1 \/ q[n] = off
    BY <1>7
  <2> QED BY <1>4, <2>1, <2>2 DEF KeysFirst
<1> QED BY <1>2, <1>6, <1>7 DEF q

LEMMA DeliverKeeps ==
  ASSUME IInv, NEW i \in Instances, NEW z \in Zones, Deliver(i, z)
  PROVE  IInv'
<1> DEFINE p == proc[i]
           b == p.zone[z]
           c == [b EXCEPT !.inbox = Tail(@)]
           m == Head(b.inbox)
<1>1. /\ LockFree(b) /\ b.inbox # << >>
      /\ UNCHANGED <<now, disk, runs, water, seen, latent, ghost>>
  BY DEF Deliver, world
<1>2. \/ m.kind = "ActuatorChange" /\ SetZone(i, z, [c EXCEPT !.todo = ActuatorChange(c, m)])
      \/ /\ m.kind # "ActuatorChange"
         /\ \E v \in Readings : SetZone(i, z, DecideAndApply(p, z, c, v, m.event, m.rest))
  BY DEF Deliver
<1>3. b \in Fitting /\ b.attached /\ b.todo = << >> /\ IsRuntime(p) /\ p.run \in Nat /\ IsWorld
  BY <1>1, Parts, RuntimeTyped DEF LockFree
<1>4. Follows(b, c) /\ c.todo = << >> /\ m \in Messages /\ (Wet(b) => ~TellsOff(m))
  BY <1>1, <1>3, InboxFollows
<1> HIDE DEF b, c, m
<1>5. c \in Fitting /\ c.attached /\ c \in Controllers
  BY <1>3, <1>4, FittingFits DEF Follows
<1>6. CASE m.kind = "ActuatorChange"
  <2> DEFINE q == ActuatorChange(c, m)
             d == [c EXCEPT !.todo = q]
  <2>1. /\ q \in Seq(Todos) /\ KeysFirst(q)
        /\ ~m.cur.provenOff => \A a \in Range(q) : a.act = "Dispatch" => ~OffSeen(a.event)
    BY <1>4, <1>6, ChangeTyped
  <2> HIDE DEF q
  <2>2. /\ d \in Controllers /\ d.attached = c.attached /\ d.state = c.state
        /\ d.session = c.session /\ d.todo = q /\ d.inbox = c.inbox /\ d.eligible = c.eligible
        /\ d.persistFailed = c.persistFailed
    BY <1>5, <2>1 DEF Controllers
  <2>3. SetZone(i, z, d)
    BY <1>2, <1>6 DEF q
  <2> HIDE DEF d
  <2>4. d \in Fitting
    BY <1>5, <2>1, <2>2, FittingFits DEF Fitting
  <2>5. Wet(b) => Wet(d)
    <3>1. ASSUME Wet(b)
          PROVE  Wet(c) /\ ~m.cur.provenOff
      BY <1>4, <1>6, <3>1 DEF Follows, TellsOff
    <3> QED BY <2>1, <2>2, <3>1 DEF Wet, OffWaits
  <2>6. Unsaved(b) => Unsaved(d)
    <3>1. Range(c.todo) = {}
      BY <1>4, Tuples
    <3>2. Unsaved(c) => c.persistFailed \/ ~OpenPulse(c.session)
      BY <3>1 DEF Unsaved
    <3> QED BY <1>4, <2>2, <3>2 DEF Follows, Unsaved
  <2>7. Follows(b, d)
    BY <1>4, <2>2, <2>4, <2>5, <2>6 DEF Follows
  <2> QED BY <1>1, <2>3, <2>7, ControllerMoves DEF b
<1>7. CASE m.kind # "ActuatorChange"
  <2>1. m.event \in Heard /\ m.rest \in Seq(Rests) /\ m.kind = "Call"
    BY <1>4, <1>7 DEF Messages
  <2>2. PICK v \in Readings : SetZone(i, z, DecideAndApply(p, z, c, v, m.event, m.rest))
    BY <1>2, <1>7
  <2>3. v \in Int
    BY ConstantsTyped
  <2>4. Wet(b) => ~OffSeen(m.event)
    BY <1>4, <2>1 DEF TellsOff
  <2>5. Follows(b, DecideAndApply(p, z, c, v, m.event, m.rest))
    BY <1>3, <1>4, <1>5, <2>1, <2>3, <2>4, DispatchGoes
  <2> QED BY <1>1, <2>2, <2>5, ControllerMoves DEF b
<1> QED BY <1>6, <1>7

(* A lock holder hears an event of its own that says nothing of OFF. *)
LEMMA Hears ==
  ASSUME IInv, NEW i \in Instances, NEW z \in Zones, Free(proc[i].zone[z]),
         NEW c, Alike(proc[i].zone[z], c), NEW v \in Int, NEW e, e \in Heard, ~OffSeen(e),
         NEW rest, rest \in Seq(Rests),
         SetZone(i, z, DecideAndApply(proc[i], z, c, v, e, rest)),
         UNCHANGED <<now, disk, runs, water, seen, latent, ghost>>
  PROVE  IInv'
<1> DEFINE p == proc[i]
           b == p.zone[z]
<1>1. b \in Fitting /\ b.attached /\ b.todo = << >> /\ IsRuntime(p) /\ IsWorld
  BY Parts, RuntimeTyped DEF Free, Idle
<1>2. Follows(b, c) /\ c.attached /\ c.todo = << >>
  BY <1>1, AlikeFollows DEF Alike
<1>3. SetZone(i, z, DecideAndApply(p, z, c, v, e, rest))
  OBVIOUS
<1> HIDE DEF b, p
<1>4. Follows(b, DecideAndApply(p, z, c, v, e, rest))
  BY <1>1, <1>2, DispatchGoes
<1> QED BY <1>3, <1>4, ControllerMoves DEF b, p

LEMMA OfferedKeeps ==
  ASSUME IInv, NEW i \in Instances, NEW z \in Zones, Offered(i, z)
  PROVE  IInv'
<1> DEFINE p == proc[i]
           c == p.zone[z]
           d == [c EXCEPT !.waiting = FALSE]
           q == PutAlso(p, z, d, Release(p.slots, z))
<1>1. Free(c) /\ UNCHANGED <<now, disk, runs, water, seen, latent, ghost>>
  BY DEF Offered, world
<1>2. \/ \E v \in Readings :
           SetZone(i, z, DecideAndApply(p, z, c, v, Event("SlotGranted"), <<EndOffer>>))
      \/ proc' = [proc EXCEPT ![i] = q]
  BY DEF Offered, PutAlso
<1>3. c \in Fitting /\ c \in Controllers /\ c.attached /\ IsRuntime(p)
  BY <1>1, Parts, RuntimeTyped, FittingFits DEF Free
<1> HIDE DEF c
<1>4. Alike(c, c) /\ Alike(c, d)
  BY <1>3 DEF Alike, Controllers
<1>5. CASE proc' = [proc EXCEPT ![i] = q]
  <2>1. Follows(c, d)
    BY <1>3, <1>4, AlikeFollows
  <2>2. IsSlots(Release(p.slots, z)) /\ Release(p.slots, z).grantsEnabled = p.slots.grantsEnabled
    BY <1>3, RuntimeTyped, SlotsKept
  <2> HIDE DEF d
  <2>3. Goes(p, q, z)
    BY <1>3, <2>1, <2>2, ZoneGoes DEF c
  <2> HIDE DEF q
  <2> QED BY <1>1, <1>5, <2>3, ZoneMoves
<1>6. ASSUME NEW v \in Readings,
             SetZone(i, z, DecideAndApply(p, z, c, v, Event("SlotGranted"), <<EndOffer>>))
      PROVE  IInv'
  <2>1. Event("SlotGranted") \in Heard /\ ~OffSeen(Event("SlotGranted"))
    BY DEF Event, Heard, Events, PlainKinds, OffSeen
  <2>2. v \in Int /\ <<EndOffer>> \in Seq(Rests)
    BY ConstantsTyped, Lists
  <2> QED BY <1>1, <1>4, <1>6, <2>1, <2>2, Hears DEF c
<1> QED BY <1>2, <1>5, <1>6

LEMMA ReportKeeps ==
  ASSUME IInv, NEW i \in Instances, NEW z \in Zones, Report(i, z)
  PROVE  IInv'
<1> DEFINE c == proc[i].zone[z]
           Moisture(v) == [kind |-> "MoistureReport", obs |-> Reading(v)]
<1>1. Free(c) /\ UNCHANGED <<now, disk, runs, water, seen, latent, ghost>>
  BY DEF Report, world
<1>2. PICK v \in Readings : SetZone(i, z, DecideAndApply(proc[i], z, c, v, Moisture(v), << >>))
  BY DEF Report
<1>3. Alike(c, c)
  BY Parts, RuntimeTyped, FittingFits DEF Alike
<1>4. v \in Int /\ << >> \in Seq(Rests)
  BY ConstantsTyped, Lists
<1>5. Reading(v) \in Reports
  BY <1>4, Parts DEF IsWorld, Reading, Reports, Classes
<1>6. Moisture(v) \in Heard /\ ~OffSeen(Moisture(v))
  BY <1>5 DEF Heard, Events, PlainKinds, OffSeen
<1> QED BY <1>1, <1>2, <1>3, <1>4, <1>6, Hears

LEMMA TimerFiresKeeps ==
  ASSUME IInv, NEW i \in Instances, NEW z \in Zones, TimerFires(i, z)
  PROVE  IInv'
<1> DEFINE c == proc[i].zone[z]
<1>1. Free(c) /\ UNCHANGED <<now, disk, runs, water, seen, latent, ghost>>
  BY DEF TimerFires, world
<1>2. PICK t \in c.timers, v \in Readings :
        SetZone(i, z, DecideAndApply(proc[i], z, [c EXCEPT !.timers = @ \ {t}], v,
                                     Event(TimerEvents[t[1]]), << >>))
  BY DEF TimerFires
<1> DEFINE d == [c EXCEPT !.timers = @ \ {t}]
<1>3. c \in Controllers
  BY Parts, RuntimeTyped, FittingFits
<1>4. t \in TimerKinds \X Int
  BY <1>3 DEF Controllers
<1>5. Event(TimerEvents[t[1]]) \in Heard /\ ~OffSeen(Event(TimerEvents[t[1]]))
  <2>1. t[1] \in TimerKinds
    BY <1>4
  <2>2. TimerEvents[t[1]] \in {"PulseDeadlineReached", "ManualDeadlineReached",
          "SoakDeadlineReached", "GraceDeadlineReached", "OnConfirmTimeout"}
    BY <2>1 DEF TimerKinds, TimerEvents
  <2> QED BY <2>2 DEF Event, Heard, Events, PlainKinds, OffSeen
<1>6. Alike(c, d)
  <2> HIDE DEF c
  <2> QED BY <1>3 DEF Alike, Controllers
<1>7. v \in Int /\ << >> \in Seq(Rests)
  BY ConstantsTyped, Lists
<1> DEFINE e == Event(TimerEvents[t[1]])
<1>8. SetZone(i, z, DecideAndApply(proc[i], z, d, v, e, << >>))
  BY <1>2
<1> HIDE DEF d, e
<1>9. e \in Heard /\ ~OffSeen(e)
  BY <1>5 DEF e
<1> QED BY <1>1, <1>6, <1>7, <1>8, <1>9, Hears

LEMMA UserCommandsKeeps ==
  ASSUME IInv, NEW z \in Zones, UserCommands(z)
  PROVE  IInv'
<1> DEFINE c == proc["live"].zone[z]
           d(e) == [c EXCEPT !.enabled = @ \/ e.kind = "EnableRequested"]
<1>1. Free(c) /\ UNCHANGED <<now, disk, runs, water, seen, latent, ghost>>
  BY DEF UserCommands, world, Live
<1>2. PICK e \in Commands :
        SetZone("live", z, DecideAndApply(proc["live"], z, d(e), AnyReading, e, << >>))
  BY DEF UserCommands, Live
<1>3. c \in Controllers
  BY Parts, RuntimeTyped, FittingFits DEF Instances
<1>4. Alike(c, d(e))
  <2> HIDE DEF c
  <2> QED BY <1>3 DEF Alike, Controllers
<1>5. e \in Heard /\ ~OffSeen(e)
  BY ConstantsTyped, RecoveryAssumption DEF OffSeen
<1>6. AnyReading \in Int /\ << >> \in Seq(Rests) /\ "live" \in Instances
  BY ConstantsTyped, Lists DEF Instances
<1> HIDE DEF d
<1> QED BY <1>1, <1>2, <1>4, <1>5, <1>6, Hears

(* The runtime once its write was read back. *)
Written(q, new) == [q EXCEPT !.mem = new]

LEMMA WrittenTyped ==
  ASSUME NEW q, IsRuntime(q), NEW new \in Snapshots
  PROVE  /\ IsRuntime(Written(q, new)) /\ Written(q, new).mem = new
         /\ Written(q, new).phase = q.phase /\ Written(q, new).failures = q.failures
         /\ Written(q, new).slots = q.slots /\ Written(q, new).todo = q.todo
         /\ Written(q, new).zone = q.zone
<1> DEFINE r == Written(q, new)
<1>1. new \in Files /\ q \in RuntimesOn(q.slots) /\ IsSlots(q.slots)
  BY RuntimeTyped DEF Files
<1>2. /\ r \in RuntimesOn(q.slots) /\ r.mem = new /\ r.phase = q.phase
      /\ r.failures = q.failures /\ r.slots = q.slots /\ r.todo = q.todo /\ r.zone = q.zone
  BY <1>1 DEF Written, RuntimesOn
<1> QED BY <1>1, <1>2 DEF IsRuntime

LEMMA ZoneSaved ==
  ASSUME NEW p, IsRuntime(p), NEW z \in Zones, NEW d \in Fitting,
         d.attached = p.zone[z].attached, d.eligible => p.zone[z].eligible,
         Wet(p.zone[z]) => Wet(d), NEW s, IsSlots(s), s.grantsEnabled = p.slots.grantsEnabled,
         NEW new, KeepsPulses(p, new, z),
         \/ Unsaved(d)
         \/ OpenPulse(new.zones[z].session)
         \/ ~Unsaved(p.zone[z]) /\ ~OpenPulse(p.mem.zones[z].session)
  PROVE  /\ Saved(p, Written(Put(p, z, d), new), z)
         /\ Saved(p, Written(PutAlso(p, z, d, s), new), z)
<1> DEFINE Good(q) == /\ IsRuntime(q) /\ SameCourse(p, q)
                      /\ q.slots.grantsEnabled = p.slots.grantsEnabled
                      /\ q.zone[z] = d /\ \A y \in Zones \ {z} : q.zone[y] = p.zone[y]
<1>1. Good(Put(p, z, d)) /\ Good(PutAlso(p, z, d, s))
  BY ZonePut, ZonePutAlso
<1>2. ASSUME NEW q, Good(q)
      PROVE  Saved(p, Written(q, new), z)
  <2> DEFINE r == Written(q, new)
  <2>1. /\ IsRuntime(r) /\ r.mem = new
        /\ r.phase = q.phase /\ r.failures = q.failures
        /\ r.slots = q.slots /\ r.todo = q.todo /\ r.zone = q.zone
    BY <1>2, WrittenTyped DEF KeepsPulses
  <2> HIDE DEF r
  <2> QED BY <1>2, <2>1 DEF Saved, SameCourse, r
<1> HIDE DEF Good
<1> QED BY <1>1, <1>2

(* _save_and_verify_locked for a zone. *)
LEMMA SaveKeeps ==
  ASSUME IInv, NEW i \in Instances, NEW z \in Zones, proc[i].zone[z].attached,
         NEW new, NEW adopted, NEW failed, Save(i, new, adopted, failed),
         KeepsPulses(proc[i], new, z), Saved(proc[i], Written(adopted, new), z),
         Written(adopted, new).mem = new,
         NEW q, Goes(proc[i], q, z), failed = [proc EXCEPT ![i] = q],
         \/ q.zone[z].persistFailed
         \/ OpenPulse(new.zones[z].session) = OpenPulse(proc[i].mem.zones[z].session),
         UNCHANGED <<now, runs, water, seen, latent, ghost>>
  PROVE  IInv'
<1>1. CASE /\ disk' = Stored(new)
           /\ proc' = [proc EXCEPT ![i] = Written(adopted, new)]
  BY <1>1, SaveSucceeds
<1>2. CASE disk' \in {disk, Stored(new)} /\ proc' = [proc EXCEPT ![i] = q]
  BY <1>2, SaveFails
<1> QED BY <1>1, <1>2 DEF Save, Written

LEMMA FailureFollows ==
  ASSUME IsWorld, NEW z \in Zones, NEW b \in Fitting, b.attached, b.todo # << >>
  PROVE  /\ Follows(b, HandlePersistFailure(z, Rest(b)))
         /\ HandlePersistFailure(z, Rest(b)).persistFailed
<1> DEFINE c == Rest(b)
           d == HandlePersistFailure(z, c)
<1>1. /\ c \in Fitting /\ c.attached /\ c.todo \in Seq(Steps) /\ (Wet(b) => Wet(c))
      /\ c = [b EXCEPT !.todo = Tail(b.todo)]
  BY RestFollows
<1>2. c.eligible = b.eligible /\ b \in Controllers
  BY <1>1, FittingFits DEF Controllers
<1> HIDE DEF c
<1>3. Follows(c, d) /\ d.persistFailed
  BY <1>1, PersistFailureFollows
<1> HIDE DEF d
<1>4. Follows(b, d) /\ d.persistFailed
  BY <1>1, <1>2, <1>3 DEF Follows, Unsaved
<1> QED BY <1>4 DEF d, c

LEMMA PerformKeeps ==
  ASSUME IInv, NEW i \in Instances, NEW z \in Zones, Perform(i, z)
  PROVE  IInv'
<1> DEFINE p == proc[i]
           b == p.zone[z]
           c == Rest(b)
           a == Head(b.todo)
           key == <<z, IF a.act = "ClearKey" THEN NotProvenOff ELSE a.reason>>
           failed == HandlePersistFailure(z, c)
<1>1. /\ b.todo # << >> /\ PerformWrite(i, z, c, a) /\ Writes(p, z, a)
      /\ UNCHANGED <<now, runs, water, seen, latent, ghost>>
  BY DEF Perform, Immediate, world
<1>2. b \in Fitting /\ IsRuntime(p) /\ IsWorld /\ Fit(p)
  BY Parts, RuntimeTyped
<1>3. b.attached
  BY <1>1, <1>2, BusyIsAttached
<1>4. p.mem \in Snapshots /\ p.mem.zones[z] # NoRecord
  BY <1>2, <1>3 DEF Fit, Course, Late, NoFile, Stopping
<1>5. /\ c \in Fitting /\ c.attached /\ a \in Todos
      /\ a # Persist => Follows(b, c)
      /\ Wet(b) => Wet(c)
      /\ a = ClearKey => Persist \notin Range(b.todo)
      /\ c = [b EXCEPT !.todo = Tail(b.todo)]
  BY <1>1, <1>2, <1>3, RestFollows
<1>6. c.eligible = b.eligible
  BY <1>2, <1>5, FittingFits DEF Controllers
<1>7. Follows(b, failed) /\ failed.persistFailed
  BY <1>1, <1>2, <1>3, FailureFollows
<1>8. IsSlots(p.slots)
  BY <1>2 DEF IsRuntime
<1> HIDE DEF c, failed
<1>9. CASE a.act = "PersistState"
  <2> DEFINE new == UpdateControllerRuntime(p.mem, z, c)
  <2>1. /\ new \in Snapshots /\ new.zones[z].session = c.session /\ new.zones[z] # NoRecord
        /\ \A y \in Zones \ {z} : new.zones[y] = p.mem.zones[y]
    BY <1>4, <1>5, UpdateTyped
  <2>2. Save(i, new, Put(p, z, c), [proc EXCEPT ![i] = Put(p, z, failed)])
    BY <1>1, <1>9, PutBack DEF PerformWrite, Put, failed
  <2> HIDE DEF new, b
  <2>3. KeepsPulses(p, new, z)
    BY <1>5, <2>1 DEF KeepsPulses, Wet, b
  <2>4. Unsaved(c) \/ OpenPulse(new.zones[z].session)
    BY <2>1 DEF Unsaved
  <2>5. Saved(p, Written(Put(p, z, c), new), z)
    BY <1>2, <1>3, <1>5, <1>6, <1>8, <2>3, <2>4, ZoneSaved DEF b
  <2>6. Goes(p, Put(p, z, failed), z) /\ Put(p, z, failed).zone[z] = failed
    BY <1>2, <1>7, <1>8, ZoneGoes, ZonePut DEF b, Follows
  <2>7. Written(Put(p, z, c), new).mem = new
    BY <1>2, <1>5, <2>1, ZonePut, WrittenTyped
  <2> QED BY <1>1, <1>3, <1>7, <2>2, <2>3, <2>5, <2>6, <2>7, SaveKeeps DEF b
<1>10. CASE a.act # "PersistState"
  <2>1. a # Persist /\ Follows(b, c)
    BY <1>5, <1>10 DEF Persist
  <2>2. Unsaved(c) \/ ~Unsaved(b)
    BY <2>1 DEF Follows
  <2>3. ASSUME NEW reason \in BlockerReasons, NEW active \in BOOLEAN, NEW s, IsSlots(s),
               s.grantsEnabled = p.slots.grantsEnabled, NEW q, Goes(p, q, z),
               Save(i, SetRecordBlocker(p.mem, z, reason, active), PutAlso(p, z, c, s),
                    [proc EXCEPT ![i] = q])
        PROVE  IInv'
    <3> DEFINE new == SetRecordBlocker(p.mem, z, reason, active)
    <3>1. new \in Snapshots /\ SamePulses(p.mem, new)
      BY <1>4, BlockerTyped
    <3> HIDE DEF new, b
    <3>2. KeepsPulses(p, new, z) /\ OpenPulse(new.zones[z].session) = OpenPulse(p.mem.zones[z].session)
      BY <3>1 DEF KeepsPulses, SamePulses
    <3>3. \/ Unsaved(c)
          \/ OpenPulse(new.zones[z].session)
          \/ ~Unsaved(b) /\ ~OpenPulse(p.mem.zones[z].session)
      BY <2>2, <3>2
    <3>4. Saved(p, Written(PutAlso(p, z, c, s), new), z)
      BY <1>2, <1>3, <1>5, <1>6, <2>3, <3>2, <3>3, ZoneSaved DEF b
    <3>5. Written(PutAlso(p, z, c, s), new).mem = new
      BY <1>2, <1>5, <2>3, <3>1, ZonePutAlso, WrittenTyped
    <3>6. Save(i, new, PutAlso(p, z, c, s), [proc EXCEPT ![i] = q])
      BY <2>3 DEF new
    <3> QED BY <1>1, <1>3, <2>3, <3>2, <3>4, <3>5, <3>6, SaveKeeps DEF b
  <2>4. CASE a.act = "AddBlocker"
    <3> DEFINE s == BlockerSaved(BlockerLive(p.slots, key), key)
               t == BlockerLive(p.slots, key)
    <3>1. a.reason \in BlockerReasons
      BY <1>5, <2>4 DEF Todos, Steps, Rests, Actions, ClearKey, KeyReasons, Unconfirmed,
                        BlockerReasons, NotProvenOff, OffUnconfirmed, ExternalKey
    <3>2. Save(i, SetRecordBlocker(p.mem, z, a.reason, TRUE), PutAlso(p, z, c, s),
               [proc EXCEPT ![i] = PutAlso(p, z, failed, t)])
      BY <1>1, <2>4 DEF PerformWrite, PutAlso, failed
    <3>3. /\ IsSlots(s) /\ s.grantsEnabled = p.slots.grantsEnabled
          /\ IsSlots(t) /\ t.grantsEnabled = p.slots.grantsEnabled
      <4> HIDE DEF p, key
      <4>1. IsSlots(t) /\ t.grantsEnabled = p.slots.grantsEnabled
        BY <1>8, SlotsKept
      <4> HIDE DEF t
      <4>2. IsSlots(BlockerSaved(t, key)) /\ BlockerSaved(t, key).grantsEnabled = t.grantsEnabled
        BY <4>1, SlotsKept
      <4> QED BY <4>1, <4>2 DEF t
    <3> HIDE DEF s, t, key
    <3>4. Goes(p, PutAlso(p, z, failed, t), z)
      BY <1>2, <1>7, <3>3, ZoneGoes
    <3> QED BY <2>3, <3>1, <3>2, <3>3, <3>4
  <2>5. CASE a.act # "AddBlocker"
    <3> DEFINE s == BlockerGone(p.slots, key)
               cut == [c EXCEPT !.todo = << >>]
               d == IF a.act = "ClearKey" THEN cut ELSE failed
    <3>1. key[2] \in BlockerReasons
      <4>1. a.act = "ClearKey" \/ a.act = "RemoveBlocker"
        BY <1>1, <1>10, <2>5 DEF Writes
      <4>2. key[2] = IF a.act = "ClearKey" THEN NotProvenOff ELSE a.reason
        OBVIOUS
      <4> HIDE DEF a, key
      <4>3. a.act = "RemoveBlocker" => a.reason \in KeyReasons
        BY <1>5 DEF Todos, Steps, Rests, Actions, ClearKey
      <4> QED BY <4>1, <4>2, <4>3 DEF KeyReasons, Unconfirmed,
                BlockerReasons, NotProvenOff, OffUnconfirmed, ExternalKey
    <3>2. Save(i, SetRecordBlocker(p.mem, z, key[2], FALSE), PutAlso(p, z, c, s),
               [proc EXCEPT ![i] = Put(p, z, d)])
      BY <1>1, <1>10, <2>5, PutBack DEF PerformWrite, PutAlso, Put, failed
    <3>3. IsSlots(s) /\ s.grantsEnabled = p.slots.grantsEnabled
      BY <1>8, SlotsKept
    <3>4. a.act = "ClearKey" => Follows(b, cut)
      <4>1. SUFFICES ASSUME a.act = "ClearKey" PROVE Follows(b, cut)
        OBVIOUS
      <4>2. a = ClearKey
        BY <1>5, <4>1 DEF Todos, Steps, Rests, Actions, ClearKey
      <4>3. Persist \notin Range(b.todo)
        BY <1>5, <4>2
      <4>4. /\ cut \in Controllers /\ cut.attached = b.attached /\ cut.state = b.state
            /\ cut.session = b.session /\ cut.todo = << >> /\ cut.inbox = b.inbox
            /\ cut.eligible = b.eligible /\ cut.persistFailed = b.persistFailed
        <5> HIDE DEF b
        <5>1. b \in Controllers /\ cut = [b EXCEPT !.todo = << >>]
          BY <1>2, <1>5, FittingFits DEF Controllers
        <5>2. << >> \in Seq(Todos)
          BY Tuples
        <5> QED BY <5>1, <5>2 DEF Controllers
      <4> HIDE DEF cut, b
      <4>5. KeysFirst(<< >>) /\ Range(<< >>) = {}
        BY Tuples DEF KeysFirst
      <4> QED BY <1>2, <1>3, <4>3, <4>4, <4>5, FittingFits, FollowsBy
    <3> HIDE DEF s, key, cut
    <3>5. Follows(b, d)
      BY <1>7, <3>4
    <3> HIDE DEF d
    <3>6. Goes(p, Put(p, z, d), z)
      BY <1>2, <1>8, <3>5, ZoneGoes
    <3> QED BY <2>3, <3>1, <3>2, <3>3, <3>6
  <2> QED BY <2>4, <2>5
<1> QED BY <1>9, <1>10

LEMMA OnReturnsKeeps ==
  ASSUME IInv, NEW i \in Instances, NEW z \in Zones, OnReturns(i, z)
  PROVE  IInv'
<1> DEFINE p == proc[i]
           b == p.zone[z]
           c == RecordPossibleCommand(b)
           saved == [c EXCEPT !.on = "commit", !.todo = <<EndOn>>]
           failed == HandlePersistFailure(z, c)
           d == Compensate(p, z, failed, AnyReading)
           e == Compensate(p, z, c, AnyReading)
           new == UpdateControllerRuntime(p.mem, z, c)
<1>1. Free(c) /\ UNCHANGED <<now, runs, water, seen, latent, ghost>>
  BY DEF OnReturns, world
<1>2. \/ Save(i, new, Put(p, z, saved), [proc EXCEPT ![i] = Put(p, z, d)])
      \/ SetZone(i, z, e) /\ UNCHANGED disk
  BY PutBack DEF OnReturns, Put
<1>3. b \in Fitting /\ IsRuntime(p) /\ Fit(p) /\ IsWorld /\ IsSlots(p.slots)
  BY Parts, RuntimeTyped
<1>4. b.attached
  <2> HIDE DEF b
  <2>1. b \in Controllers
    BY <1>3, FittingFits
  <2> QED BY <1>1, <2>1 DEF Free, RecordPossibleCommand, Controllers
<1> HIDE DEF b
<1>5. Follows(b, c) /\ c \in Fitting /\ c.attached /\ c \in Controllers /\ c.todo = << >>
  BY <1>1, <1>3, <1>4, RecordFollows, FittingFits DEF Follows, Free, Idle
<1> HIDE DEF c
<1>6. /\ saved \in Controllers /\ saved.attached = c.attached /\ saved.state = c.state
      /\ saved.session = c.session /\ saved.todo = <<EndOn>> /\ saved.inbox = c.inbox
      /\ saved.eligible = c.eligible /\ saved.persistFailed = c.persistFailed
      /\ <<EndOn>> \in Seq(Steps) /\ KeysFirst(<<EndOn>>) /\ Range(<<EndOn>>) = {EndOn}
  <2> DEFINE q == <<EndOn>>
  <2>1. q \in Seq(Todos) /\ q \in Seq(Steps) /\ KeysFirst(q) /\ Range(q) = {EndOn}
    BY Lists, NoKeys, Tuples
  <2> HIDE DEF q
  <2>2. [c EXCEPT !.on = "commit", !.todo = q] \in Controllers
    BY <1>5, <2>1 DEF Controllers
  <2> QED BY <1>5, <2>1, <2>2 DEF q, Controllers
<1> HIDE DEF saved
<1>7. saved \in Fitting
  BY <1>5, <1>6, FittingFits DEF Fitting
<1>8. Wet(b) => Wet(saved)
  <2>1. EndOn.act # "Dispatch"
    BY DEF EndOn
  <2> QED BY <1>5, <1>6, <2>1 DEF Follows, Wet, OffWaits
<1>9. p.mem \in Snapshots /\ p.mem.zones[z] # NoRecord
  BY <1>3, <1>4 DEF b, Fit, Course, Late, NoFile, Stopping
<1>10. CASE SetZone(i, z, e) /\ UNCHANGED disk
  <2>1. Follows(c, e)
    BY <1>3, <1>5, ConstantsTyped, CompensateFollows
  <2> HIDE DEF e
  <2>2. Follows(b, e)
    BY <1>5, <2>1, FollowsOn
  <2> QED BY <1>1, <1>10, <2>2, ControllerMoves DEF b
<1>11. CASE Save(i, new, Put(p, z, saved), [proc EXCEPT ![i] = Put(p, z, d)])
  <2>1. Follows(c, failed) /\ failed.persistFailed /\ failed \in Fitting /\ failed.attached
    <3>1. c.todo \in Seq(Steps)
      BY <1>5, Tuples
    <3>2. Follows(c, failed) /\ failed.persistFailed
      BY <1>3, <1>5, <3>1, PersistFailureFollows
    <3> HIDE DEF failed
    <3> QED BY <1>5, <3>2 DEF Follows
  <2> HIDE DEF failed
  <2>2. Follows(failed, d)
    BY <1>3, <2>1, ConstantsTyped, CompensateFollows
  <2> HIDE DEF d
  <2>3. Follows(b, d) /\ d.persistFailed /\ d \in Fitting
    BY <1>5, <2>1, <2>2, FollowsOn DEF Follows
  <2>4. /\ new \in Snapshots /\ new.zones[z].session = c.session /\ new.zones[z] # NoRecord
        /\ \A y \in Zones \ {z} : new.zones[y] = p.mem.zones[y]
    BY <1>5, <1>9, UpdateTyped
  <2> HIDE DEF new
  <2>5. KeepsPulses(p, new, z)
    BY <1>5, <2>4 DEF KeepsPulses, Follows, Wet, b
  <2>6. Unsaved(saved) \/ OpenPulse(new.zones[z].session)
    BY <1>6, <2>4 DEF Unsaved
  <2>7. saved.attached = b.attached /\ (saved.eligible => b.eligible)
    BY <1>4, <1>5, <1>6 DEF Follows
  <2>8. Saved(p, Written(Put(p, z, saved), new), z)
    BY <1>3, <1>7, <1>8, <2>5, <2>6, <2>7, ZoneSaved DEF b
  <2>9. Goes(p, Put(p, z, d), z) /\ Put(p, z, d).zone[z] = d
    BY <1>3, <2>3, ZoneGoes, ZonePut DEF b
  <2>10. Written(Put(p, z, saved), new).mem = new
    BY <1>3, <1>7, <2>4, ZonePut, WrittenTyped
  <2>11. p.zone[z].attached
    BY <1>4 DEF b
  <2> QED BY <1>1, <1>11, <2>3, <2>5, <2>8, <2>9, <2>10, <2>11, SaveKeeps
<1> QED BY <1>2, <1>10, <1>11

-----------------------------------------------------------------------------
(* Steps of a runtime that is setting up or shutting down. *)

LEMMA GuardBy ==
  ASSUME NEW p, NEW q, NEW f, NEW y, NEW flow, NEW lat, Guarded(p, f, y, flow, lat),
         q.mem = p.mem, q.phase \notin {"first", "rebuild"}, p.phase # "down",
         q.phase \in Setup => p.phase \in Setup, Believes(q, y) => Believes(p, y),
         q.zone[y].attached => /\ p.zone[y].attached
                               /\ Wet(p.zone[y]) => Wet(q.zone[y])
                               /\ Unsaved(p.zone[y]) => Unsaved(q.zone[y])
  PROVE  Guarded(q, f, y, flow, lat)
BY DEF Guarded

(* The runtime goes on, and nothing is written. *)
LEMMA LiveGoes ==
  ASSUME IInv, Live.phase # "down", NEW q, Fit(q), SetLive(q),
         q.phase \notin {"orphaned", "first", "rebuild"}, q.mem = Live.mem,
         q.phase \in Setup => Live.phase \in Setup,
         \A y \in Zones : /\ Believes(q, y) => Believes(Live, y)
                          /\ q.zone[y].attached =>
                               /\ Live.zone[y].attached
                               /\ Wet(Live.zone[y]) => Wet(q.zone[y])
                               /\ Unsaved(Live.zone[y]) => Unsaved(q.zone[y]),
         UNCHANGED <<now, disk, runs, water, seen, latent, ghost>>
  PROVE  IInv'
<1>1. ASSUME Whole, NEW y \in Zones
      PROVE  Guarded(q, disk', y, MayFlow(y)', latent'[y])
  <2>1. Guarded(Live, disk, y, MayFlow(y), latent[y])
    BY <1>1 DEF IInv
  <2>2. MayFlow(y)' = MayFlow(y) /\ latent'[y] = latent[y] /\ disk' = disk
    BY DEF MayFlow
  <2> QED BY <2>1, <2>2, GuardBy
<1>2. IsWorld' /\ proc' = [proc EXCEPT !["live"] = q]
  BY Parts DEF IsWorld, SetLive
<1> QED BY <1>1, <1>2, Parts, LiveSteps

(* A setup raises: its controllers, if it had any, stay behind. *)
LEMMA SetupFails ==
  ASSUME IInv, Live.phase \in Setup, proc' = FailSetup(Live), IsWorld', disk' \in Files,
         runs' \in Nat, DOMAIN ghost' = DOMAIN ghost, ghost'.lost = ghost.lost,
         ghost'.orphaned = ghost.orphaned,
         Whole => \A y \in Zones : MayFlow(y)' => Hazard(disk', y)
  PROVE  IInv'
<1>1. CASE \E z \in Zones : Live.zone[z].attached
  <2> DEFINE o == [Live EXCEPT !.phase = "orphaned"]
  <2>1. proc' = [proc EXCEPT !["live"] = Down, !["orphan"] = o]
    BY <1>1 DEF FailSetup
  <2>2. DOMAIN proc = {"live", "orphan"}
    BY DEF IInv, Instances
  <2>3. proc'["live"] = Down /\ proc'["orphan"] = o /\ DOMAIN proc' = Instances
    BY <2>1, <2>2 DEF Instances
  <2>4. Fit(Live) /\ IsRuntime(Live)
    BY DEF IInv, Fit
  <2>5. /\ IsRuntime(o) /\ o.phase = "orphaned" /\ o.mem = Live.mem /\ o.zone = Live.zone
        /\ o.slots = Live.slots /\ o.failures = Live.failures
    <3> DEFINE p == Live
    <3>1. p \in RuntimesOn(p.slots) /\ IsSlots(p.slots)
      BY <2>4, RuntimeTyped
    <3> HIDE DEF p
    <3>2. LET r == [p EXCEPT !.phase = "orphaned"] IN
          /\ r \in RuntimesOn(p.slots) /\ r.phase = "orphaned" /\ r.mem = p.mem
          /\ r.zone = p.zone /\ r.slots = p.slots /\ r.failures = p.failures
      BY <3>1 DEF RuntimesOn, Phases
    <3> QED BY <3>1, <3>2 DEF IsRuntime, p
  <2> HIDE DEF o
  <2>6. Course(o)
    <3>1. Live.phase \in Late
      BY <1>1, <2>4 DEF Fit, Course
    <3>2. Live.phase \notin NoFile /\ Live.phase \notin Stopping
      BY <3>1 DEF Late, Stopping, NoFile, Setup
    <3>3. Course(Live)
      BY <2>4 DEF Fit
    <3> QED BY <2>5, <3>1, <3>2, <3>3 DEF Course, NoFile, Late, Setup, Stopping
  <2>7. ~Whole'
    BY <2>3, <2>5 DEF Whole, NoOrphan
  <2> QED BY <2>3, <2>5, <2>6, <2>7, DownFits DEF IInv, Fit, Live
<1>2. CASE ~\E z \in Zones : Live.zone[z].attached
  <2>1. proc' = [proc EXCEPT !["live"] = Down]
    <3>1. proc' = [proc EXCEPT !["live"] = Down, !["orphan"] = @]
      BY <1>2 DEF FailSetup
    <3>2. DOMAIN proc = {"live", "orphan"}
      BY DEF IInv, Instances
    <3> QED BY <3>1, <3>2
  <2>2. ASSUME Whole, NEW y \in Zones
        PROVE  Guarded(Down, disk', y, MayFlow(y)', latent'[y])
    BY <2>2, DownFits
  <2> QED BY <2>1, <2>2, DownFits, LiveSteps
<1> QED BY <1>1, <1>2

(* A setup's write is read back. *)
LEMMA SetupSaved ==
  ASSUME IInv, Live.phase \in Setup, NEW new \in Snapshots, NEW q, Fit(q), q.mem = new,
         q.phase \in {"begin", "records", "attach", "reread"}, SetLive(q), disk' = Stored(new),
         Whole => \A y \in Zones :
           /\ MayFlow(y) => OpenPulse(new.zones[y].session)
           /\ q.zone[y].attached => /\ MayFlow(y) => Wet(q.zone[y])
                                    /\ Unsaved(q.zone[y]) \/ OpenPulse(new.zones[y].session),
         UNCHANGED <<now, runs, water, seen, latent>>,
         DOMAIN ghost' = DOMAIN ghost, ghost'.lost = ghost.lost, ghost'.orphaned = ghost.orphaned
  PROVE  IInv'
<1>1. ASSUME Whole, NEW y \in Zones
      PROVE  Guarded(q, disk', y, MayFlow(y)', latent'[y])
  <2>1. Guarded(Live, disk, y, MayFlow(y), latent[y])
    BY <1>1 DEF IInv
  <2>2. MayFlow(y)' = MayFlow(y) /\ latent'[y] = latent[y]
    BY DEF MayFlow
  <2>3. ~latent[y]
    BY <2>1 DEF Guarded
  <2>4. Stored(new).status = "valid"
        /\ OpenPulse(Stored(new).zones[y].session) = OpenPulse(new.zones[y].session)
    BY StoredKeeps, RecordTyped
  <2> QED BY <1>1, <2>2, <2>3, <2>4 DEF Guarded, Hazard
<1>2. IsWorld' /\ proc' = [proc EXCEPT !["live"] = q] /\ disk' \in Files
  BY Parts, StoredKeeps DEF IsWorld, SetLive, Files
<1> QED BY <1>1, <1>2, Parts, LiveSteps

(* A setup's write, read back or not. *)
LEMMA SetupSaves ==
  ASSUME IInv, Live.phase \in Setup, NEW new \in Snapshots, NEW adopted,
         Fit(Written(adopted, new)), Written(adopted, new).mem = new,
         Written(adopted, new).phase \in {"begin", "records", "attach", "reread"},
         Save("live", new, adopted, FailSetup(Live)),
         Whole => \A y \in Zones :
           /\ MayFlow(y) => OpenPulse(new.zones[y].session)
           /\ Written(adopted, new).zone[y].attached =>
                /\ MayFlow(y) => Wet(Written(adopted, new).zone[y])
                /\ Unsaved(Written(adopted, new).zone[y]) \/ OpenPulse(new.zones[y].session),
         UNCHANGED <<now, runs, water, seen, latent>>,
         DOMAIN ghost' = DOMAIN ghost, ghost'.lost = ghost.lost, ghost'.orphaned = ghost.orphaned
  PROVE  IInv'
<1>1. CASE disk' = Stored(new) /\ SetLive(Written(adopted, new))
  BY <1>1, SetupSaved
<1>2. CASE disk' \in {disk, Stored(new)} /\ proc' = FailSetup(Live)
  <2>1. ASSUME Whole, NEW y \in Zones, MayFlow(y)'
        PROVE  Hazard(disk', y)
    <3>1. MayFlow(y)
      BY <2>1 DEF MayFlow
    <3>2. Hazard(disk, y)
      BY <2>1, <3>1 DEF IInv, Guarded
    <3>3. Hazard(Stored(new), y)
      BY <2>1, <3>1, StoredKeeps, RecordTyped DEF Hazard
    <3> QED BY <1>2, <3>2, <3>3
  <2>2. disk' \in Files /\ IsWorld' /\ runs' \in Nat
    BY <1>2, Parts, StoredKeeps DEF IsWorld, Files
  <2> QED BY <1>2, <2>1, <2>2, SetupFails
<1> QED BY <1>1, <1>2 DEF Save, SetLive, Written

(* What a valve does, and whether it is seen; the same for every valve. *)
Valve(w, s) == w \in {"closed", "ours", "theirs"} /\ s \in BOOLEAN
Valves(w, s) ==
    w \in [Zones -> {"closed", "ours", "theirs"}] /\ s \in [Zones -> BOOLEAN]

(* Home Assistant reports a state change to one controller. *)
LEMMA NoticeTyped ==
  ASSUME IsWorld, NEW z \in Zones, NEW c \in Fitting, NEW w, NEW s, Valve(w, s), NEW own \in BOOLEAN
  PROVE  LET d == OnActuatorEvent(c, z, w, s, own) IN
         /\ d \in Fitting /\ d.attached = c.attached /\ d.eligible = c.eligible
         /\ d.persistFailed = c.persistFailed /\ (Unsaved(c) => Unsaved(d))
         /\ ~c.attached \/ Assess(w, s) = Assessment(z) => d = c
         /\ Wet(c) /\ ~Assess(w, s).provenOff => Wet(d)
<1> DEFINE cur == Assess(w, s)
           m == [kind |-> "ActuatorChange", prev |-> Assessment(z), cur |-> cur, at |-> now]
           b == Send(c, m)
           ack == IF own /\ cur.observedOn /\ c.on # "none" THEN now ELSE b.ackAt
           d == [b EXCEPT !.ackAt = ack]
           e == OnActuatorEvent(c, z, w, s, own)
<1>1. /\ cur \in Views /\ Assessment(z) \in Actuators /\ now \in Nat
  BY AssessTyped, AssessmentTyped DEF IsWorld, Valve
<1>2. m \in Messages /\ TellsOff(m) = cur.provenOff
  BY <1>1 DEF Messages, TellsOff
<1>3. \/ (~c.attached \/ cur = Assessment(z)) /\ e = c
      \/ e = d
  BY DEF OnActuatorEvent
<1>4. CASE e = c
  BY <1>4 DEF Unsaved
<1>5. CASE e = d /\ c.attached
  <2> HIDE DEF cur, m
  <2>1. b \in Controllers /\ b = [c EXCEPT !.inbox = Append(@, m)]
    <3> DEFINE q == Append(c.inbox, m)
    <3>1. q \in Seq(Messages) /\ c \in Controllers
      BY <1>2, FittingFits, Appended
    <3>2. b = [c EXCEPT !.inbox = q]
      BY DEF Send
    <3> HIDE DEF q
    <3>3. [c EXCEPT !.inbox = q] \in Controllers
      BY <3>1 DEF Controllers
    <3> QED BY <3>2, <3>3 DEF q
  <2>2. /\ b.attached = c.attached /\ b.eligible = c.eligible /\ b.state = c.state
        /\ b.session = c.session /\ b.todo = c.todo /\ b.persistFailed = c.persistFailed
        /\ b.inbox = Append(c.inbox, m)
    BY <2>1, FittingFits DEF Controllers
  <2> HIDE DEF b
  <2>3. ack \in Int
    BY <1>1, <2>1 DEF Controllers
  <2> HIDE DEF ack
  <2>4. /\ d \in Controllers /\ d.attached = b.attached /\ d.eligible = b.eligible
        /\ d.state = b.state /\ d.session = b.session /\ d.todo = b.todo
        /\ d.persistFailed = b.persistFailed /\ d.inbox = b.inbox
    BY <2>1, <2>3 DEF Controllers
  <2> HIDE DEF d
  <2>5. d \in Fitting
    BY <1>5, <2>2, <2>4, FittingFits DEF Fitting
  <2>6. Range(d.inbox) = Range(c.inbox) \cup {m}
    BY <1>2, <2>2, <2>4, FittingFits, Appended
  <2>7. Wet(c) /\ ~cur.provenOff => Wet(d)
    BY <1>2, <2>2, <2>4, <2>6 DEF Wet, OffWaits
  <2>8. Unsaved(c) => Unsaved(d)
    BY <2>2, <2>4 DEF Unsaved
  <2>9. ~c.attached \/ cur = Assessment(z) => e = c
    BY DEF OnActuatorEvent, cur
  <2> HIDE DEF e
  <2> QED BY <1>5, <2>2, <2>4, <2>5, <2>7, <2>8, <2>9 DEF e, cur
<1>6. ~c.attached => e = c
  BY DEF OnActuatorEvent
<1> QED BY <1>3, <1>4, <1>5, <1>6

(* A runtime whose controllers are told of the actuators. *)
Noticed(p, w, s, own) ==
    [p EXCEPT !.zone = [z \in Zones |-> OnActuatorEvent(p.zone[z], z, w[z], s[z], own)]]

LEMMA NoticedFits ==
  ASSUME IsWorld, NEW p, Fit(p), NEW w, NEW s, Valves(w, s), NEW own \in BOOLEAN
  PROVE  LET q == Noticed(p, w, s, own) IN
         /\ Fit(q) /\ q.phase = p.phase
         /\ \A y \in Zones : \A f, flow, lat, flow2, lat2 :
              /\ Guarded(p, f, y, flow, lat) /\ (flow2 => flow) /\ (lat2 => lat)
              /\ \/ flow2 => ~Assess(w[y], s[y]).provenOff
                 \/ Assess(w[y], s[y]) = Assessment(y)
                 \/ ~p.zone[y].attached
              => Guarded(q, f, y, flow2, lat2)
<1> DEFINE new(z) == OnActuatorEvent(p.zone[z], z, w[z], s[z], own)
           zone == [z \in Zones |-> new(z)]
           q == Noticed(p, w, s, own)
<1>1. IsRuntime(p) /\ Course(p) /\ p \in RuntimesOn(p.slots) /\ IsSlots(p.slots)
  BY RuntimeTyped DEF Fit
<1>2. ASSUME NEW z \in Zones
      PROVE  /\ new(z) \in Fitting /\ new(z).attached = p.zone[z].attached
             /\ new(z).eligible = p.zone[z].eligible
             /\ new(z).persistFailed = p.zone[z].persistFailed
             /\ Unsaved(p.zone[z]) => Unsaved(new(z))
             /\ ~p.zone[z].attached \/ Assess(w[z], s[z]) = Assessment(z) => new(z) = p.zone[z]
             /\ Wet(p.zone[z]) /\ ~Assess(w[z], s[z]).provenOff => Wet(new(z))
  <2> DEFINE c == p.zone[z]
  <2>1. c \in Fitting /\ Valve(w[z], s[z])
    BY <1>1, RuntimeTyped DEF Valve, Valves
  <2> HIDE DEF c
  <2> QED BY <2>1, NoticeTyped DEF c
<1>3. q = [p EXCEPT !.zone = zone]
  BY DEF Noticed
<1> HIDE DEF new
<1>4. zone \in [Zones -> Fitting] /\ \A z \in Zones : zone[z] = new(z)
  BY <1>2
<1> HIDE DEF zone, q
<1>5. /\ q \in RuntimesOn(p.slots) /\ q.zone = zone /\ q.phase = p.phase /\ q.mem = p.mem
      /\ q.slots = p.slots /\ q.todo = p.todo /\ q.failures = p.failures
  BY <1>1, <1>3, <1>4 DEF RuntimesOn
<1>6. IsRuntime(q)
  BY <1>1, <1>5 DEF IsRuntime
<1>7. \A z \in Zones : q.zone[z].attached = p.zone[z].attached
                       /\ q.zone[z].eligible = p.zone[z].eligible
  BY <1>2, <1>4, <1>5
<1>8. Course(q)
  BY <1>1, <1>5, <1>7 DEF Course
<1>9. ASSUME NEW y \in Zones, NEW f, NEW flow, NEW lat, NEW flow2, NEW lat2,
             Guarded(p, f, y, flow, lat), flow2 => flow, lat2 => lat,
             \/ flow2 => ~Assess(w[y], s[y]).provenOff
             \/ Assess(w[y], s[y]) = Assessment(y)
             \/ ~p.zone[y].attached
      PROVE  Guarded(q, f, y, flow2, lat2)
  <2>1. /\ q.zone[y] = new(y) /\ q.zone[y].attached = p.zone[y].attached
        /\ q.zone[y].persistFailed = p.zone[y].persistFailed
        /\ Unsaved(p.zone[y]) => Unsaved(q.zone[y])
    BY <1>2, <1>4, <1>5
  <2>2. q.zone[y].attached /\ flow2 /\ Wet(p.zone[y]) => Wet(q.zone[y])
    BY <1>2, <1>9, <2>1
  <2>3. Believes(q, y) = Believes(p, y)
    BY <1>5, <2>1 DEF Believes
  <2> QED BY <1>5, <1>9, <2>1, <2>2, <2>3 DEF Guarded
<1>10. \A y \in Zones : \A f, flow, lat, flow2, lat2 :
              /\ Guarded(p, f, y, flow, lat) /\ (flow2 => flow) /\ (lat2 => lat)
              /\ \/ flow2 => ~Assess(w[y], s[y]).provenOff
                 \/ Assess(w[y], s[y]) = Assessment(y)
                 \/ ~p.zone[y].attached
              => Guarded(q, f, y, flow2, lat2)
  BY <1>9
<1> QED BY <1>5, <1>6, <1>8, <1>10 DEF Fit, q

LEMMA DeviceKeeps ==
  ASSUME IInv, NEW z \in Zones, NEW w \in {"closed", "ours", "theirs"}, NEW s \in BOOLEAN,
         NEW own \in BOOLEAN, w = "ours" => MayFlow(z), Device(z, w, s, own)
  PROVE  IInv'
<1>1. /\ water' = [water EXCEPT ![z] = w] /\ seen' = [seen EXCEPT ![z] = s]
      /\ latent' = [latent EXCEPT ![z] = @ /\ ~own /\ ~(s /\ w = "closed")]
      /\ UNCHANGED <<now, disk, runs, ghost>>
      /\ proc' = [i \in Instances |-> Noticed(proc[i], water', seen', own)]
  BY DEF Device, Notified, Noticed
<1>2. IsWorld /\ Fit(proc["live"]) /\ Fit(proc["orphan"])
  BY Parts DEF Instances
<1>3. /\ water' \in [Zones -> {"closed", "ours", "theirs"}] /\ seen' \in [Zones -> BOOLEAN]
      /\ latent' \in [Zones -> BOOLEAN] /\ water'[z] = w /\ seen'[z] = s
      /\ latent'[z] => latent[z] /\ ~(s /\ w = "closed")
      /\ \A y \in Zones \ {z} : water'[y] = water[y] /\ seen'[y] = seen[y] /\ latent'[y] = latent[y]
  BY <1>1, <1>2 DEF IsWorld
<1>4. IsWorld' /\ Valves(water', seen')
  BY <1>1, <1>2, <1>3 DEF IsWorld, Valves
<1>5. ASSUME NEW y \in Zones
      PROVE  /\ MayFlow(y)' => MayFlow(y)
             /\ latent'[y] => latent[y]
             /\ \/ MayFlow(y)' => ~Assess(water'[y], seen'[y]).provenOff
                \/ Assess(water'[y], seen'[y]) = Assessment(y)
  <2>1. CASE y = z
    BY <1>3, <2>1, AssessTyped DEF MayFlow
  <2>2. CASE y # z
    BY <1>3, <2>2 DEF MayFlow, Assessment
  <2> QED BY <2>1, <2>2
<1>6. /\ proc'["live"] = Noticed(proc["live"], water', seen', own)
      /\ proc'["orphan"] = Noticed(proc["orphan"], water', seen', own)
      /\ DOMAIN proc' = Instances
  BY <1>1 DEF Instances
<1>7. /\ Fit(proc'["live"]) /\ proc'["live"].phase = proc["live"].phase
      /\ Fit(proc'["orphan"]) /\ proc'["orphan"].phase = proc["orphan"].phase
  BY <1>2, <1>4, <1>6, NoticedFits
<1>8. ASSUME Whole', NEW y \in Zones
      PROVE  Guarded(proc'["live"], disk', y, MayFlow(y)', latent'[y])
  <2>1. Whole
    BY <1>1, <1>7, <1>8 DEF Whole, NoOrphan
  <2>2. Guarded(proc["live"], disk, y, MayFlow(y), latent[y])
    BY <2>1 DEF IInv, Live
  <2>3. disk' = disk
    BY <1>1
  <2> DEFINE flow2 == MayFlow(y)'
             lat2 == latent'[y]
             flow == MayFlow(y)
  <2>4. /\ flow2 => flow
        /\ lat2 => latent[y]
        /\ \/ flow2 => ~Assess(water'[y], seen'[y]).provenOff
           \/ Assess(water'[y], seen'[y]) = Assessment(y)
    BY <1>5
  <2>5. Guarded(proc["live"], disk, y, flow, latent[y])
    BY <2>2
  <2> HIDE DEF flow2, lat2, flow
  <2>6. Guarded(proc'["live"], disk, y, flow2, lat2)
    BY <1>2, <1>4, <1>6, <2>4, <2>5, NoticedFits
  <2> QED BY <2>3, <2>6 DEF flow2, lat2
<1> QED BY <1>1, <1>4, <1>6, <1>7, <1>8, Parts DEF IInv, Live

LEMMA WorldKeeps ==
  ASSUME IInv, NEW z \in Zones, WorldStep(z)
  PROVE  IInv'
<1>1. water[z] \in {"closed", "ours", "theirs"} /\ seen[z] \in BOOLEAN
      /\ (water[z] = "ours" => MayFlow(z))
  BY Parts DEF IsWorld, MayFlow
<1>2. CASE OnLands(z)
  BY <1>1, <1>2, DeviceKeeps DEF OnLands, MayFlow
<1>3. CASE OffLands(z)
  BY <1>1, <1>3, DeviceKeeps DEF OffLands
<1>4. CASE Disturb(z)
  BY <1>1, <1>4, DeviceKeeps DEF Disturb
<1>5. CASE Returns(z)
  BY <1>1, <1>5, DeviceKeeps DEF Returns
<1> QED BY <1>2, <1>3, <1>4, <1>5 DEF WorldStep

LEMMA StartKeeps ==
  ASSUME IInv, Start
  PROVE  IInv'
<1> DEFINE class == ClassifySetup(disk, flag.live)
           phase == CASE class = "FIRST_INSTALL" -> "first"
                      [] class = "INTEGRITY_LOSS" -> "rebuild"
                      [] OTHER -> "begin"
           q == [Down EXCEPT !.phase = phase, !.run = runs', !.mem = disk]
<1>1. /\ Live.phase = "down" /\ (\A z \in Zones : ~latent[z]) /\ runs' = runs + 1
      /\ SetLive(q) /\ UNCHANGED <<now, disk, ghost, water, seen, latent>>
  BY DEF Start, world
<1>2. /\ phase \in {"first", "rebuild", "begin"}
      /\ phase = "begin" <=> disk.status = "valid"
  <2>1. disk.status \in {"absent", "damaged", "valid"}
    BY Parts, RecordTyped DEF Files, Absent, Damaged
  <2> QED BY <2>1 DEF ClassifySetup
<1>3. disk.status = "valid" => disk \in Snapshots
  BY Parts DEF Files, Absent, Damaged
<1> HIDE DEF class, phase
<1>4. runs' \in Nat /\ disk \in Files
  BY <1>1, Parts
<1>5. Down \in RuntimesOn(Down.slots) /\ IsSlots(Down.slots) /\ Down.slots.grantsEnabled = FALSE
      /\ Down.failures = FALSE /\ \A z \in Zones : Down.zone[z] = Detached
  BY DownFits, RuntimeTyped DEF Fit, Down, InitialSlots
<1> HIDE DEF q
<1>6. /\ q \in RuntimesOn(Down.slots) /\ q.slots = Down.slots /\ q.zone = Down.zone
      /\ q.phase = phase /\ q.mem = disk /\ q.failures = FALSE
  <2> DEFINE d == Down
  <2>1. d \in RuntimesOn(d.slots) /\ q = [d EXCEPT !.phase = phase, !.run = runs', !.mem = disk]
        /\ d.failures = FALSE
    BY <1>5 DEF q
  <2>2. phase \in Phases
    BY <1>2 DEF Phases, Setup
  <2> HIDE DEF d
  <2>3. /\ q \in RuntimesOn(d.slots) /\ q.slots = d.slots /\ q.zone = d.zone
        /\ q.phase = phase /\ q.mem = disk /\ q.failures = d.failures
    BY <1>4, <2>1, <2>2 DEF RuntimesOn
  <2> QED BY <2>1, <2>3 DEF d
<1>7. IsRuntime(q)
  BY <1>5, <1>6 DEF IsRuntime
<1>8. \A z \in Zones : ~q.zone[z].attached
  BY <1>5, <1>6, DetachedFits
<1>9. Course(q)
  BY <1>2, <1>3, <1>5, <1>6, <1>8 DEF Course, NoFile, Late, Setup, Stopping
<1>10. ASSUME Whole, NEW y \in Zones
       PROVE  Guarded(q, disk', y, MayFlow(y)', latent'[y])
  <2>1. Guarded(Live, disk, y, MayFlow(y), latent[y])
    BY <1>10 DEF IInv
  <2>2. MayFlow(y)' = MayFlow(y) /\ latent'[y] = latent[y] /\ disk' = disk
    BY <1>1 DEF MayFlow
  <2>3. ~latent[y] /\ (MayFlow(y) => Hazard(disk, y))
    BY <1>1, <2>1 DEF Guarded
  <2>4. MayFlow(y) => q.phase \notin {"first", "rebuild"} /\ OpenPulse(q.mem.zones[y].session)
    BY <1>2, <1>6, <2>3 DEF Hazard
  <2>5. Believes(q, y) /\ OpenPulse(q.mem.zones[y].session) => Hazard(disk, y)
    BY <1>2, <1>6 DEF Believes, NoFile, Hazard
  <2> QED BY <1>8, <2>2, <2>3, <2>4, <2>5 DEF Guarded
<1>11. IsWorld' /\ proc' = [proc EXCEPT !["live"] = q] /\ disk' \in Files
  BY <1>1, Parts DEF IsWorld, SetLive
<1>12. q.phase # "orphaned"
  BY <1>2, <1>6
<1> QED BY <1>1, <1>4, <1>7, <1>9, <1>10, <1>11, <1>12, Parts, LiveSteps DEF Fit

(* A runtime that has not attached a controller yet goes on.               *)
Begins(p, r) ==
    /\ p.phase \in {"first", "rebuild", "begin"} /\ r.phase \in {"begin", "records"}
    /\ IsRuntime(r) /\ r.slots = p.slots /\ r.zone = p.zone /\ r.failures = p.failures

LEMMA BeginsTyped ==
  ASSUME NEW p, IsRuntime(p), p.phase \in {"first", "rebuild", "begin"}
  PROVE  /\ Begins(p, Adopted(p))
         /\ \A prev \in Nat, clean \in BOOLEAN :
              Begins(p, [p EXCEPT !.phase = "records", !.previous = prev, !.previousClean = clean])
<1>1. p \in RuntimesOn(p.slots) /\ IsSlots(p.slots)
  BY RuntimeTyped
<1>2. Begins(p, Adopted(p))
  <2> DEFINE r == Adopted(p)
  <2>1. /\ r \in RuntimesOn(p.slots) /\ r.slots = p.slots /\ r.zone = p.zone
        /\ r.phase = "begin" /\ r.failures = p.failures
    BY <1>1 DEF Adopted, RuntimesOn, Phases, Setup
  <2> HIDE DEF r
  <2> QED BY <1>1, <2>1 DEF Begins, IsRuntime, r
<1>3. ASSUME NEW prev \in Nat, NEW clean \in BOOLEAN
      PROVE  Begins(p, [p EXCEPT !.phase = "records", !.previous = prev, !.previousClean = clean])
  <2> DEFINE r == [p EXCEPT !.phase = "records", !.previous = prev, !.previousClean = clean]
  <2>1. /\ r \in RuntimesOn(p.slots) /\ r.slots = p.slots /\ r.zone = p.zone
        /\ r.phase = "records" /\ r.failures = p.failures
    BY <1>1 DEF RuntimesOn, Phases, Setup
  <2> HIDE DEF r
  <2>2. Begins(p, r)
    BY <1>1, <2>1 DEF Begins, IsRuntime
  <2> QED BY <2>2 DEF r
<1> QED BY <1>2, <1>3

LEMMA BeginsFits ==
  ASSUME NEW p, Fit(p), NEW new \in Snapshots, NEW r, Begins(p, r)
  PROVE  LET q == Written(r, new) IN
         /\ Fit(q) /\ q.mem = new /\ q.phase = r.phase /\ \A z \in Zones : ~q.zone[z].attached
<1> DEFINE q == Written(r, new)
<1>1. /\ IsRuntime(q) /\ q.mem = new /\ q.slots = p.slots /\ q.zone = p.zone
      /\ q.phase = r.phase /\ q.failures = p.failures
  BY WrittenTyped DEF Begins
<1>2. p.phase \in {"first", "rebuild", "begin"} /\ r.phase \in {"begin", "records"} /\ Course(p)
  BY DEF Begins, Fit
<1>3. \A z \in Zones : ~p.zone[z].attached
  BY <1>2 DEF Course, Late, Stopping
<1>4. ~p.slots.grantsEnabled /\ ~p.failures
  BY <1>2 DEF Course, Setup, Stopping
<1> HIDE DEF q
<1>5. Course(q)
  BY <1>1, <1>2, <1>3, <1>4 DEF Course, NoFile, Late, Setup, Stopping
<1> QED BY <1>1, <1>3, <1>5 DEF Fit, q

LEMMA FirstInitKeeps ==
  ASSUME IInv, FirstInit \/ Rebuild
  PROVE  IInv'
<1>1. ASSUME NEW new \in Snapshots, \A y \in Zones : ~OpenPulse(new.zones[y].session),
             Live.phase \in {"first", "rebuild"},
             Save("live", new, Adopted(Live), FailSetup(Live)),
             UNCHANGED <<now, runs, water, seen, latent, ghost>>
      PROVE  IInv'
  <2> DEFINE p == Live
             r == Adopted(p)
             q == Written(r, new)
  <2>1. Fit(p) /\ IsRuntime(p) /\ p.phase \in {"first", "rebuild", "begin"}
    BY <1>1 DEF IInv, Fit
  <2> HIDE DEF p
  <2>2. Begins(p, r) /\ r.phase = "begin"
    <3>1. p \in RuntimesOn(p.slots)
      BY <2>1, RuntimeTyped
    <3> QED BY <2>1, <3>1, BeginsTyped DEF Adopted, RuntimesOn
  <2>3. Save("live", new, r, FailSetup(Live)) /\ Live.phase \in Setup
    BY <1>1 DEF Setup, p
  <2> HIDE DEF r
  <2>4. /\ Fit(q) /\ q.mem = new /\ q.phase = r.phase
        /\ \A z \in Zones : ~q.zone[z].attached
    BY <1>1, <2>1, <2>2, BeginsFits
  <2>5. ASSUME Whole, NEW y \in Zones
        PROVE  ~MayFlow(y)
    BY <1>1, <2>5 DEF IInv, Guarded
  <2> QED BY <1>1, <2>2, <2>3, <2>4, <2>5, SetupSaves
<1>2. CASE FirstInit
  BY <1>1, <1>2, FreshTyped DEF FirstInit, world
<1>3. CASE Rebuild
  BY <1>1, <1>3, FreshTyped DEF Rebuild, world
<1> QED BY <1>2, <1>3

LEMMA BeginRunKeeps ==
  ASSUME IInv, BeginRun
  PROVE  IInv'
<1> DEFINE p == Live
           new == BeginNewRun(p.mem, p.run)
           r == [p EXCEPT !.phase = "records", !.previous = p.mem.active,
                          !.previousClean = PreviousRunWasClean(p.mem)]
           q == Written(r, new)
<1>1. /\ Live.phase = "begin" /\ UNCHANGED <<now, runs, seen, latent, ghost>>
      /\ \E obeying \in SUBSET Zones :
           LET after == [z \in Zones |-> IF z \in obeying THEN "closed" ELSE water[z]] IN
           /\ Save("live", new, r, Notified(FailSetup(Live), after, seen, FALSE))
           /\ water' = IF Live'.phase = "down" THEN after ELSE water
  BY DEF BeginRun
<1>2. PICK obeying \in SUBSET Zones :
           LET after == [z \in Zones |-> IF z \in obeying THEN "closed" ELSE water[z]] IN
           /\ Save("live", new, r, Notified(FailSetup(Live), after, seen, FALSE))
           /\ water' = IF Live'.phase = "down" THEN after ELSE water
  BY <1>1
<1> DEFINE after == [z \in Zones |-> IF z \in obeying THEN "closed" ELSE water[z]]
<1>3. Fit(p) /\ IsRuntime(p) /\ p.phase = "begin" /\ p.mem \in Snapshots /\ p.run \in Nat
  <2>1. Fit(Live)
    BY DEF IInv
  <2> QED BY <1>1, <2>1, RuntimeTyped DEF Fit, Course, NoFile
<1>4. new \in Snapshots /\ new.zones = p.mem.zones
  BY <1>3, RunWritesTyped
<1>5. Begins(p, r) /\ r.phase = "records"
  <2> DEFINE prev == p.mem.active
             clean == PreviousRunWasClean(p.mem)
  <2>1. prev \in Nat /\ clean \in BOOLEAN
    BY <1>3, RecordTyped DEF PreviousRunWasClean
  <2>2. p \in RuntimesOn(p.slots)
    BY <1>3, RuntimeTyped
  <2> HIDE DEF p, prev, clean
  <2>3. Begins(p, [p EXCEPT !.phase = "records", !.previous = prev, !.previousClean = clean])
    BY <1>3, <2>1, BeginsTyped
  <2>4. [p EXCEPT !.phase = "records", !.previous = prev, !.previousClean = clean].phase = "records"
    BY <2>2 DEF RuntimesOn
  <2> QED BY <2>3, <2>4 DEF prev, clean
<1>6. Save("live", new, r, Notified(FailSetup(Live), after, seen, FALSE))
      /\ water' = IF Live'.phase = "down" THEN after ELSE water
  BY <1>2
<1>7. SetLive(q) <=> proc' = [proc EXCEPT !["live"] = [r EXCEPT !.mem = new]]
  BY DEF SetLive, Written
<1> HIDE DEF r, new, after
<1>8. /\ Fit(q) /\ q.mem = new /\ q.phase = "records"
      /\ \A z \in Zones : ~q.zone[z].attached
  BY <1>3, <1>4, <1>5, BeginsFits
<1>9. ASSUME Whole, NEW y \in Zones, MayFlow(y)
      PROVE  Hazard(disk, y) /\ OpenPulse(p.mem.zones[y].session)
  BY <1>1, <1>9 DEF IInv, Guarded
<1>10. CASE disk' = Stored(new) /\ SetLive(q)
  <2>1. Live' = q
    <3>1. "live" \in DOMAIN proc
      BY DEF IInv, Instances
    <3> QED BY <1>10, <3>1 DEF SetLive, Live
  <2>2. water' = water
    BY <1>6, <1>8, <2>1
  <2>3. Live.phase \in Setup
    BY <1>1 DEF Setup
  <2>4. ASSUME Whole, NEW y \in Zones
        PROVE  MayFlow(y) => OpenPulse(new.zones[y].session)
    BY <1>4, <1>9, <2>4
  <2> HIDE DEF q, p
  <2> QED BY <1>1, <1>4, <1>8, <1>10, <2>2, <2>3, <2>4, SetupSaved
<1>11. CASE disk' \in {disk, Stored(new)} /\ proc' = Notified(FailSetup(Live), after, seen, FALSE)
  <2> DEFINE o == proc["orphan"]
  <2>1. IsWorld /\ Valves(after, seen) /\ Fit(o) /\ disk' \in Files
    <3>1. after \in [Zones -> {"closed", "ours", "theirs"}]
      BY Parts DEF IsWorld, after
    <3> QED BY <1>4, <1>11, <3>1, Parts, StoredKeeps DEF IsWorld, Valves, Instances, Files
  <2>2. FailSetup(Live)["live"] = Down /\ FailSetup(Live)["orphan"] = o
    <3>1. \A z \in Zones : ~Live.zone[z].attached
      BY <1>3 DEF Fit, Course, Late, Stopping
    <3>2. DOMAIN proc = {"live", "orphan"}
      BY DEF IInv, Instances
    <3> QED BY <3>1, <3>2 DEF FailSetup
  <2>3. /\ proc'["live"] = Noticed(Down, after, seen, FALSE)
        /\ proc'["orphan"] = Noticed(o, after, seen, FALSE)
        /\ DOMAIN proc' = Instances
    BY <1>11, <2>2 DEF Notified, Noticed, Instances
  <2>4. /\ Fit(proc'["live"]) /\ proc'["live"].phase = "down"
        /\ Fit(proc'["orphan"]) /\ proc'["orphan"].phase = o.phase
    <3>1. Fit(Down) /\ Down.phase = "down"
      BY DownFits
    <3> DEFINE d == Down
               own == FALSE
    <3>2. own \in BOOLEAN /\ Fit(d) /\ d.phase = "down"
      BY <3>1
    <3>3. /\ proc'["live"] = Noticed(d, after, seen, own)
          /\ proc'["orphan"] = Noticed(o, after, seen, own)
      BY <2>3
    <3> HIDE DEF d, own, o
    <3>4. Fit(Noticed(d, after, seen, own)) /\ Noticed(d, after, seen, own).phase = d.phase
      BY <2>1, <3>2, NoticedFits
    <3>5. Fit(Noticed(o, after, seen, own)) /\ Noticed(o, after, seen, own).phase = o.phase
      BY <2>1, <3>2, NoticedFits
    <3> QED BY <3>2, <3>3, <3>4, <3>5
  <2>5. water' = after /\ IsWorld'
    <3>1. water' = after
      BY <1>6, <2>4 DEF Live
    <3> QED BY <1>1, <2>1, <3>1 DEF IsWorld, Valves
  <2>6. ASSUME Whole', NEW y \in Zones
        PROVE  Guarded(proc'["live"], disk', y, MayFlow(y)', latent'[y])
    <3>1. Whole
      BY <1>1, <2>4, <2>6 DEF Whole, NoOrphan
    <3>2. MayFlow(y)' => Hazard(disk', y)
      <4>1. MayFlow(y)' => MayFlow(y)
        BY <1>1, <2>5 DEF MayFlow, after
      <4>2. MayFlow(y) => Hazard(disk, y) /\ Hazard(Stored(new), y)
        BY <1>4, <1>9, <3>1, StoredKeeps, RecordTyped DEF Hazard
      <4> QED BY <1>11, <4>1, <4>2
    <3> DEFINE flow == MayFlow(y)'
               lat == latent'[y]
               f == disk'
    <3>3. flow => Hazard(f, y)
      BY <3>2
    <3>4. proc'["live"].phase = "down" /\ ~proc'["live"].zone[y].attached
      BY <2>4 DEF Fit, Course, Late, Stopping
    <3>5. "down" \in NoFile /\ "down" \notin Setup /\ "down" \notin {"first", "rebuild"}
      BY DEF NoFile, Setup
    <3> DEFINE d == proc'["live"]
    <3> HIDE DEF flow, lat, f, d
    <3>6. Guarded(d, f, y, flow, lat)
      BY <3>3, <3>4, <3>5 DEF Guarded, Believes, d
    <3> QED BY <3>6 DEF flow, lat, f, d
  <2> QED BY <1>1, <2>1, <2>3, <2>4, <2>5, <2>6, Parts DEF IInv, Live
<1> QED BY <1>6, <1>7, <1>10, <1>11 DEF Save

(* async_replace_with: the records of the run are reconciled. *)
Reconciled(p, b) == [p EXCEPT !.phase = "attach", !.todo = Zones, !.slots.blockers = b]

LEMMA ReconciledTyped ==
  ASSUME NEW p, Fit(p), p.phase = "records", NEW b, NEW new \in Snapshots,
         \A z \in Zones : new.zones[z] # NoRecord
  PROVE  LET q == Written(Reconciled(p, b), new) IN
         /\ Fit(q) /\ q.mem = new /\ q.phase = "attach" /\ \A z \in Zones : ~q.zone[z].attached
<1> DEFINE s == [p.slots EXCEPT !.blockers = b]
           r == [p EXCEPT !.phase = "attach", !.todo = Zones, !.slots = s]
<1>1. p \in RuntimesOn(p.slots) /\ IsSlots(p.slots) /\ Course(p)
  BY RuntimeTyped DEF Fit
<1>2. IsSlots(s) /\ s.grantsEnabled = p.slots.grantsEnabled
  BY <1>1 DEF IsSlots
<1>3. Reconciled(p, b) = r
  BY DEF Reconciled
<1>4. \A z \in Zones : ~p.zone[z].attached
  BY <1>1 DEF Course, Late, Stopping
<1>5. ~p.slots.grantsEnabled /\ ~p.failures
  BY <1>1 DEF Course, Setup, Stopping
<1> HIDE DEF s
<1>6. /\ r \in RuntimesOn(s) /\ r.slots = s /\ r.phase = "attach" /\ r.todo = Zones
      /\ r.zone = p.zone /\ r.failures = p.failures
  BY <1>1 DEF RuntimesOn, Phases, Setup
<1> HIDE DEF r
<1>7. IsRuntime(r)
  BY <1>2, <1>6 DEF IsRuntime
<1> DEFINE q == Written(r, new)
<1>8. /\ IsRuntime(q) /\ q.mem = new /\ q.phase = "attach" /\ q.slots = s /\ q.todo = Zones
      /\ q.zone = p.zone /\ ~q.failures
  BY <1>5, <1>6, <1>7, WrittenTyped
<1> HIDE DEF q
<1>9. Course(q)
  BY <1>2, <1>4, <1>5, <1>8 DEF Course, NoFile, Late, Setup, Stopping
<1> QED BY <1>3, <1>4, <1>8, <1>9 DEF Fit, q

LEMMA RecordsKeeps ==
  ASSUME IInv, Records
  PROVE  IInv'
<1> DEFINE p == Live
           plan == PlanReconciledStore(p.mem, [z \in Zones |-> Assessment(z)])
           r == Reconciled(p, RecordBlockers(plan))
           q == Written(r, plan)
<1>1. /\ Live.phase = "records" /\ Save("live", plan, r, FailSetup(Live))
      /\ UNCHANGED <<now, runs, water, seen, latent>>
  BY DEF Records, world, Reconciled
<1>2. /\ DOMAIN ghost' = DOMAIN ghost /\ ghost'.lost = ghost.lost
      /\ ghost'.orphaned = ghost.orphaned
  <2>1. PICK u : ghost' = [ghost EXCEPT !.unanchored = u]
    BY DEF Records
  <2>2. "lost" \in DOMAIN ghost /\ "orphaned" \in DOMAIN ghost
    BY DEF IInv
  <2> QED BY <2>1, <2>2
<1>3. Fit(p) /\ p.phase = "records" /\ p.mem \in Snapshots
  <2>1. Fit(Live)
    BY DEF IInv
  <2> QED BY <1>1, <2>1 DEF Fit, Course, NoFile
<1>4. /\ plan \in Snapshots /\ SamePulses(p.mem, plan)
      /\ \A z \in Zones : plan.zones[z] # NoRecord
  BY <1>3, PlanTyped
<1>5. ASSUME Whole, NEW y \in Zones
      PROVE  MayFlow(y) => OpenPulse(plan.zones[y].session)
  <2>1. MayFlow(y) => OpenPulse(Live.mem.zones[y].session)
    BY <1>1, <1>5 DEF IInv, Guarded
  <2> QED BY <1>4, <2>1 DEF SamePulses
<1> HIDE DEF plan, p
<1>6. Fit(q) /\ q.mem = plan /\ q.phase = "attach" /\ \A z \in Zones : ~q.zone[z].attached
  BY <1>3, <1>4, ReconciledTyped
<1>7. Live.phase \in Setup
  BY <1>1 DEF Setup
<1> HIDE DEF r
<1> QED BY <1>1, <1>2, <1>4, <1>5, <1>6, <1>7, SetupSaves

(* The setup's loops. *)
LEMMA SetupProceedsKeeps ==
  ASSUME IInv, SetupProceeds
  PROVE  IInv'
<1> DEFINE p == Live
<1>1. Fit(p) /\ IsRuntime(p) /\ Course(p) /\ p.todo = {}
  BY DEF IInv, Fit, SetupProceeds
<1>2. p \in RuntimesOn(p.slots) /\ IsSlots(p.slots)
  BY <1>1, RuntimeTyped
<1>3. UNCHANGED <<now, disk, runs, water, seen, latent, ghost>>
  BY DEF SetupProceeds, world
<1>4. CASE p.phase = "attach" /\ SetLive([Live EXCEPT !.phase = "reread", !.todo = Zones])
  <2> DEFINE q == [p EXCEPT !.phase = "reread", !.todo = Zones]
  <2>1. SetLive(q)
    BY <1>4
  <2>2. p.phase = "attach"
    BY <1>4
  <2> HIDE DEF p
  <2>3. /\ q \in RuntimesOn(p.slots) /\ q.phase = "reread" /\ q.mem = p.mem /\ q.zone = p.zone
        /\ q.slots = p.slots /\ q.failures = p.failures
    BY <1>2 DEF RuntimesOn, Phases, Setup
  <2> HIDE DEF q
  <2>4. \A z \in Zones : p.zone[z].attached
    BY <1>1, <2>2 DEF Course
  <2>5. Course(q) /\ IsRuntime(q)
    BY <1>1, <1>2, <2>2, <2>3, <2>4 DEF Course, Late, NoFile, Stopping, Setup, IsRuntime
  <2>6. \A y \in Zones : Believes(q, y) => Believes(p, y)
    BY <2>2, <2>3, <2>4 DEF Believes, NoFile
  <2> QED BY <1>3, <2>1, <2>2, <2>3, <2>5, <2>6, LiveGoes DEF Fit, p, Setup
<1>5. CASE p.phase = "reread" /\ SetLive([Live EXCEPT !.phase = "up", !.slots = SetGrants(@, TRUE)])
  <2> DEFINE s == SetGrants(p.slots, TRUE)
             q == [p EXCEPT !.phase = "up", !.slots = s]
  <2>1. SetLive(q)
    BY <1>5
  <2>2. p.phase = "reread"
    BY <1>5
  <2>3. IsSlots(s)
    <3>1. IsSlots([p.slots EXCEPT !.grantsEnabled = TRUE])
      BY <1>2 DEF IsSlots
    <3> QED BY <3>1, SlotsKept DEF SetGrants
  <2> HIDE DEF p, s
  <2>4. /\ q \in RuntimesOn(s) /\ q.phase = "up" /\ q.mem = p.mem /\ q.zone = p.zone
        /\ q.slots = s /\ q.failures = p.failures
    BY <1>2 DEF RuntimesOn, Phases, Setup
  <2> HIDE DEF q
  <2>5. \A z \in Zones : p.zone[z].attached
    BY <1>1, <2>2 DEF Course
  <2>6. Course(q) /\ IsRuntime(q)
    BY <1>1, <1>2, <2>2, <2>3, <2>4, <2>5 DEF Course, Late, NoFile, Stopping, Setup, IsRuntime
  <2>7. \A y \in Zones : Believes(q, y) => Believes(p, y)
    BY <2>2, <2>4, <2>5 DEF Believes, NoFile
  <2> QED BY <1>3, <2>1, <2>2, <2>4, <2>6, <2>7, LiveGoes DEF Fit, p, Setup
<1> QED BY <1>4, <1>5 DEF SetupProceeds

(* _republish_record_blockers, final re-read *)
LEMMA RereadZoneKeeps ==
  ASSUME IInv, NEW z \in Zones, RereadZone(z)
  PROVE  IInv'
<1> DEFINE p == Live
           adds == ~Assessment(z).provenOff
<1>1. Fit(p) /\ IsRuntime(p) /\ Course(p) /\ p.phase = "reread" /\ z \in p.todo
  BY DEF IInv, Fit, RereadZone
<1>2. p \in RuntimesOn(p.slots) /\ IsSlots(p.slots) /\ p.mem \in Snapshots
  BY <1>1, RuntimeTyped DEF Course, NoFile
<1>3. UNCHANGED <<now, runs, water, seen, latent, ghost>>
  BY DEF RereadZone, world
<1>4. CASE SetLive([Live EXCEPT !.todo = @ \ {z}]) /\ UNCHANGED disk
  <2> DEFINE q == [p EXCEPT !.todo = @ \ {z}]
  <2>1. SetLive(q) /\ UNCHANGED disk
    BY <1>4
  <2> HIDE DEF p
  <2>2. /\ q \in RuntimesOn(p.slots) /\ q.phase = p.phase /\ q.mem = p.mem /\ q.zone = p.zone
        /\ q.slots = p.slots /\ q.failures = p.failures
    BY <1>2 DEF RuntimesOn
  <2> HIDE DEF q
  <2>3. Course(q) /\ IsRuntime(q)
    BY <1>1, <1>2, <2>2 DEF Course, IsRuntime
  <2>4. \A y \in Zones : Believes(q, y) => Believes(p, y)
    BY <2>2 DEF Believes
  <2> QED BY <1>1, <1>3, <2>1, <2>2, <2>3, <2>4, LiveGoes DEF Fit, p
<1>5. ASSUME NEW r \in RereadKeys(Live, z),
             Save("live", SetRecordBlocker(Live.mem, z, r, adds),
                  [Live EXCEPT !.slots =
                     IF adds THEN BlockerSaved(BlockerLive(@, <<z, r>>), <<z, r>>)
                     ELSE BlockerGone(@, <<z, r>>)],
                  FailSetup(Live))
      PROVE  IInv'
  <2> DEFINE new == SetRecordBlocker(p.mem, z, r, adds)
             s == IF adds THEN BlockerSaved(BlockerLive(p.slots, <<z, r>>), <<z, r>>)
                  ELSE BlockerGone(p.slots, <<z, r>>)
             a == [p EXCEPT !.slots = s]
             q == Written(a, new)
  <2>1. Save("live", new, a, FailSetup(Live))
    BY <1>5
  <2>2. r \in BlockerReasons
    BY DEF RereadKeys, BlockerReasons
  <2>3. IsSlots(s) /\ s.grantsEnabled = p.slots.grantsEnabled
    <3> DEFINE k == <<z, r>>
               b == BlockerLive(p.slots, k)
    <3> HIDE DEF k, p, adds
    <3>1. IsSlots(b) /\ b.grantsEnabled = p.slots.grantsEnabled
      BY <1>2, SlotsKept
    <3>2. /\ IsSlots(BlockerGone(p.slots, k))
          /\ BlockerGone(p.slots, k).grantsEnabled = p.slots.grantsEnabled
      BY <1>2, SlotsKept
    <3> HIDE DEF b
    <3>3. IsSlots(BlockerSaved(b, k)) /\ BlockerSaved(b, k).grantsEnabled = p.slots.grantsEnabled
      BY <3>1, SlotsKept
    <3> QED BY <3>2, <3>3 DEF b, k
  <2>4. \A y \in Zones : p.mem.zones[y] # NoRecord
    BY <1>1 DEF Course, Late
  <2>5. new \in Snapshots /\ SamePulses(p.mem, new)
    BY <1>2, <2>2, <2>4, BlockerTyped
  <2>6. ASSUME Whole, NEW y \in Zones
        PROVE  /\ MayFlow(y) => OpenPulse(new.zones[y].session) /\ Wet(p.zone[y])
               /\ Unsaved(p.zone[y]) \/ OpenPulse(new.zones[y].session)
    <3>1. Guarded(p, disk, y, MayFlow(y), latent[y])
      BY <2>6 DEF IInv
    <3>2. p.zone[y].attached
      BY <1>1 DEF Course
    <3>3. OpenPulse(new.zones[y].session) = OpenPulse(p.mem.zones[y].session)
      BY <2>5 DEF SamePulses
    <3>4. p.phase \notin {"first", "rebuild", "down"}
      BY <1>1
    <3> HIDE DEF p, new
    <3> QED BY <3>1, <3>2, <3>3, <3>4 DEF Guarded
  <2> HIDE DEF p, new, s
  <2>7. /\ a \in RuntimesOn(s) /\ a.phase = p.phase /\ a.zone = p.zone /\ a.slots = s
        /\ a.failures = p.failures /\ a.todo = p.todo
    BY <1>2 DEF RuntimesOn
  <2> HIDE DEF a
  <2>8. IsRuntime(a)
    BY <2>3, <2>7 DEF IsRuntime
  <2>9. /\ IsRuntime(q) /\ q.mem = new /\ q.phase = p.phase /\ q.zone = p.zone /\ q.slots = s
        /\ q.failures = p.failures
    BY <2>5, <2>7, <2>8, WrittenTyped
  <2> HIDE DEF q
  <2>10. \A y \in Zones : new.zones[y] # NoRecord
    BY <2>4, <2>5 DEF SamePulses
  <2>11. Course(q)
    BY <1>1, <2>3, <2>5, <2>9, <2>10 DEF Course, NoFile, Setup
  <2>12. Live.phase \in Setup
    BY <1>1 DEF p, Setup
  <2>13. Fit(q) /\ q.phase = "reread"
    BY <1>1, <2>9, <2>11 DEF Fit
  <2> QED BY <1>3, <2>1, <2>5, <2>6, <2>9, <2>12, <2>13, SetupSaves DEF q
<1> QED BY <1>4, <1>5 DEF RereadZone

(* A list that tells of no OFF. *)
Quiet(q) == q \in Seq(Steps) /\ \A a \in Range(q) : a.act = "Dispatch" => ~OffSeen(a.event)

LEMMA StartupLists ==
  /\ Quiet(<<Return>>)
  /\ Quiet(<<Dispatch(Event("ExternalActuatorOn")), Return>>)
  /\ Quiet(<<Dispatch(Event("GraceDeadlineReached")), Return>>)
<1>1. Event("ExternalActuatorOn") \in Heard /\ Event("GraceDeadlineReached") \in Heard
  BY DEF Heard, Events, PlainKinds, Event, OffSeen
<1>2. /\ Dispatch(Event("ExternalActuatorOn")) \in Steps
      /\ Dispatch(Event("GraceDeadlineReached")) \in Steps
  BY <1>1 DEF Steps, Dispatch
<1>3. Return \in Steps /\ Return.act # "Dispatch"
  BY DEF Steps, Return, Rests
<1>4. /\ ~OffSeen(Dispatch(Event("ExternalActuatorOn")).event)
      /\ ~OffSeen(Dispatch(Event("GraceDeadlineReached")).event)
  BY DEF Dispatch, Event, OffSeen
<1> QED BY <1>2, <1>3, <1>4, Tuples DEF Quiet

(* What a controller is attached with: the record, under some run id. *)
AttachedBy(rec, run) == [Attached(rec) EXCEPT !.run = run]

LEMMA AttachedFits ==
  ASSUME NEW rec \in FullRecords, NEW run \in Nat
  PROVE  LET c == AttachedBy(rec, run) IN
         /\ c \in Fitting /\ c.attached /\ c.todo = << >> /\ c.inbox = << >>
         /\ c.session = rec.session /\ c.state = rec.state
         /\ OpenPulse(rec.session) => Wet(c)
         /\ ~OpenPulse(rec.session) => Unsaved(c)
<1> DEFINE c == AttachedBy(rec, run)
<1>1. /\ Detached \in Controllers /\ Detached.todo = << >> /\ Detached.inbox = << >>
      /\ KeysFirst(<< >>)
  BY DetachedFits, FittingFits DEF KeysFirst
<1>2. /\ c \in Controllers /\ c.attached /\ c.todo = << >> /\ c.inbox = << >>
      /\ c.session = rec.session /\ c.state = rec.state
  BY <1>1 DEF AttachedBy, Attached, FullRecords, Controllers
<1>3. Sound(rec.state, rec.session)
  BY RecordTyped
<1> HIDE DEF c
<1>4. ~OffWaits(c)
  BY <1>2, Tuples DEF OffWaits
<1> QED BY <1>1, <1>2, <1>3, <1>4 DEF Fitting, Wet, Unsaved, c

(* A controller that was attached to a record with session s. *)
Begun(s, d) ==
    /\ d \in Fitting /\ d.attached
    /\ OpenPulse(s) => Wet(d)
    /\ ~OpenPulse(s) => Unsaved(d)

(* What startup decides of a record. *)
LEMMA DecidedBegun ==
  ASSUME IsWorld, NEW z \in Zones, NEW p, p.run \in Nat, NEW rec \in FullRecords, NEW run \in Nat,
         NEW v \in Int, NEW off \in BOOLEAN, NEW e, NEW rest, Quiet(rest),
         Fine(Input(p, z, AttachedBy(rec, run), v), off,
              Decide(Input(p, z, AttachedBy(rec, run), v), e))
  PROVE  LET d == DecideAndApply(p, z, AttachedBy(rec, run), v, e, rest) IN
         /\ d \in Fitting /\ d.attached
         /\ OpenPulse(rec.session) /\ ~off => Wet(d)
         /\ ~OpenPulse(rec.session) => Unsaved(d)
<1> DEFINE c == AttachedBy(rec, run)
           g == Decide(Input(p, z, c, v), e)
<1>1. /\ c \in Fitting /\ c.attached /\ c.todo = << >>
      /\ OpenPulse(rec.session) => Wet(c)
      /\ ~OpenPulse(rec.session) => Unsaved(c)
  BY AttachedFits
<1>2. Fine(Input(p, z, c, v), off, g)
  OBVIOUS
<1>3. DecideAndApply(p, z, c, v, e, rest) = Adopt(p, c, g, rest)
  BY DEF DecideAndApply
<1> HIDE DEF c, g
<1>4. rest \in Seq(Steps)
      /\ \A a \in Range(rest) : a.act = "Dispatch" /\ OffSeen(a.event) => a \in Range(c.todo)
  BY DEF Quiet
<1>5. ~(Persist \in Range(c.todo))
  BY <1>1, Tuples
<1>6. LET d == Adopt(p, c, g, rest) IN
      /\ d \in Fitting /\ d.attached
      /\ Wet(c) /\ ~off => Wet(d)
      /\ Unsaved(c) => Unsaved(d)
  BY <1>1, <1>2, <1>4, <1>5, AdoptFollows
<1> QED BY <1>1, <1>3, <1>6 DEF c

(* The loop over the zones goes on. *)
Less(p, z) == [p EXCEPT !.todo = @ \ {z}]

LEMMA AttachFits ==
  ASSUME NEW p, Fit(p), p.phase = "attach", NEW z \in Zones, z \in p.todo,
         NEW d \in Fitting, d.attached
  PROVE  LET q == Put(Less(p, z), z, d) IN
         /\ Fit(q) /\ q.phase = "attach" /\ q.mem = p.mem /\ q.failures = p.failures
         /\ q.zone[z] = d /\ \A y \in Zones \ {z} : q.zone[y] = p.zone[y]
         /\ \A new \in Snapshots :
              (\A y \in Zones : new.zones[y] # NoRecord) =>
                 /\ Fit(Written(q, new)) /\ Written(q, new).mem = new
                 /\ Written(q, new).phase = "attach" /\ Written(q, new).zone = q.zone
<1> DEFINE r == Less(p, z)
           q == Put(r, z, d)
<1>1. p \in RuntimesOn(p.slots) /\ IsSlots(p.slots) /\ Course(p) /\ p.todo \in SUBSET Zones
  BY RuntimeTyped DEF Fit
<1>2. /\ r \in RuntimesOn(p.slots) /\ r.slots = p.slots /\ r.phase = p.phase /\ r.mem = p.mem
      /\ r.zone = p.zone /\ r.failures = p.failures /\ r.todo = p.todo \ {z}
  BY <1>1 DEF RuntimesOn, Less
<1> HIDE DEF r
<1>3. IsRuntime(r)
  BY <1>1, <1>2 DEF IsRuntime
<1>4. /\ IsRuntime(q) /\ SameCourse(r, q) /\ q.slots = r.slots /\ q.zone[z] = d
      /\ \A y \in Zones \ {z} : q.zone[y] = r.zone[y]
  BY <1>3, ZonePut
<1> HIDE DEF q
<1>5. /\ q.phase = "attach" /\ q.mem = p.mem /\ q.failures = p.failures /\ q.todo = p.todo \ {z}
      /\ q.slots = p.slots /\ q.zone[z] = d /\ \A y \in Zones \ {z} : q.zone[y] = p.zone[y]
  BY <1>2, <1>4 DEF SameCourse
<1>6. \A y \in Zones : q.zone[y].attached <=> y \notin q.todo
  BY <1>1, <1>5 DEF Course
<1>7. Course(q)
  BY <1>1, <1>5, <1>6 DEF Course, NoFile, Late, Setup, Stopping
<1>8. ASSUME NEW new \in Snapshots, \A y \in Zones : new.zones[y] # NoRecord
      PROVE  /\ Fit(Written(q, new)) /\ Written(q, new).mem = new
             /\ Written(q, new).phase = "attach" /\ Written(q, new).zone = q.zone
  <2> DEFINE w == Written(q, new)
  <2>1. /\ IsRuntime(w) /\ w.mem = new /\ w.phase = q.phase /\ w.failures = q.failures
        /\ w.slots = q.slots /\ w.todo = q.todo /\ w.zone = q.zone
    BY <1>4, WrittenTyped
  <2> HIDE DEF w
  <2>2. Course(w)
    BY <1>5, <1>7, <1>8, <2>1 DEF Course, NoFile, Late, Setup, Stopping
  <2> QED BY <1>5, <2>1, <2>2 DEF Fit, w
<1> QED BY <1>4, <1>5, <1>7, <1>8 DEF Fit, q, r

(* _reconcile_zone without a write *)
LEMMA Attaches ==
  ASSUME IInv, NEW z \in Zones, Live.phase = "attach", z \in Live.todo,
         NEW d \in Fitting, d.attached,
         ~OpenPulse(Live.mem.zones[z].session) => Unsaved(d),
         Whole /\ MayFlow(z) /\ OpenPulse(Live.mem.zones[z].session) => Wet(d),
         SetLive(Put(Less(Live, z), z, d)),
         UNCHANGED <<now, disk, runs, water, seen, latent, ghost>>
  PROVE  IInv'
<1> DEFINE p == Live
           q == Put(Less(p, z), z, d)
<1>1. Fit(p) /\ d \in Fitting /\ d.attached /\ SetLive(q)
  BY DEF IInv
<1>2. /\ Fit(q) /\ q.phase = "attach" /\ q.mem = p.mem /\ q.failures = p.failures
      /\ q.zone[z] = d /\ \A y \in Zones \ {z} : q.zone[y] = p.zone[y]
  BY <1>1, AttachFits
<1>3. ~p.zone[z].attached
  BY <1>1 DEF Fit, Course
<1> HIDE DEF q
<1>4. ASSUME Whole, NEW y \in Zones
      PROVE  Guarded(q, disk', y, MayFlow(y)', latent'[y])
  <2>1. Guarded(p, disk, y, MayFlow(y), latent[y])
    BY <1>4 DEF IInv
  <2>2. MayFlow(y)' = MayFlow(y) /\ latent'[y] = latent[y] /\ disk' = disk
    BY DEF MayFlow
  <2> DEFINE flow == MayFlow(y)
             lat == latent[y]
  <2>3. Guarded(p, disk, y, flow, lat)
    BY <2>1
  <2>4. p.phase = "attach"
    OBVIOUS
  <2>5. y = z => /\ ~OpenPulse(p.mem.zones[y].session) => Unsaved(d)
                 /\ flow /\ OpenPulse(p.mem.zones[y].session) => Wet(d)
    BY <1>4
  <2> HIDE DEF flow, lat, p
  <2>6. ASSUME y = z
        PROVE  Guarded(q, disk, y, flow, lat)
    <3>1. flow => OpenPulse(p.mem.zones[y].session)
      BY <2>3, <2>4 DEF Guarded
    <3>4. Believes(p, y) \/ p.failures
      BY <1>3, <2>4, <2>6 DEF Believes, NoFile
    <3>2. /\ flow => Wet(q.zone[y])
          /\ Unsaved(q.zone[y]) \/ OpenPulse(q.mem.zones[y].session)
      BY <1>2, <2>5, <2>6, <3>1
    <3>3. Believes(q, y) => Believes(p, y)
      BY <1>2, <3>4 DEF Believes
    <3> QED BY <1>2, <2>3, <2>4, <3>2, <3>3 DEF Guarded
  <2>7. ASSUME y # z
        PROVE  Guarded(q, disk, y, flow, lat)
    <3>1. q.zone[y] = p.zone[y]
      BY <1>2, <2>7
    <3>2. Believes(q, y) => Believes(p, y)
      BY <1>2, <2>4, <3>1 DEF Believes
    <3> QED BY <1>2, <2>3, <2>4, <3>1, <3>2, GuardBy
  <2> QED BY <2>2, <2>6, <2>7 DEF flow, lat
<1>5. IsWorld' /\ disk' \in Files /\ runs' \in Nat
  BY Parts DEF IsWorld
<1> HIDE DEF p
<1> QED BY <1>1, <1>2, <1>4, <1>5, LiveSteps DEF SetLive

(* _reconcile_soaking, async_rebase_soaking_owner *)
LEMMA AttachesRebased ==
  ASSUME IInv, NEW z \in Zones, Live.phase = "attach", z \in Live.todo,
         NEW d, Begun(Live.mem.zones[z].session, d),
         Save("live", RebaseSoakingOwner(Live.mem, z, Live.run), Put(Less(Live, z), z, d),
              FailSetup(Live)),
         UNCHANGED <<now, runs, water, seen, latent, ghost>>
  PROVE  IInv'
<1> DEFINE p == Live
           a == Put(Less(p, z), z, d)
           new == RebaseSoakingOwner(p.mem, z, p.run)
           q == Written(a, new)
<1>1. Fit(p) /\ d \in Fitting /\ d.attached /\ Save("live", new, a, FailSetup(Live))
  BY DEF IInv, Begun
<1>2. /\ p.mem \in Snapshots /\ p.run \in Nat /\ \A y \in Zones : p.mem.zones[y] # NoRecord
  BY <1>1, RuntimeTyped DEF Fit, Course, NoFile, Late
<1>3. /\ new \in Snapshots /\ SamePulses(p.mem, new)
  BY <1>2, RunWritesTyped
<1>4. \A y \in Zones : new.zones[y] # NoRecord
  BY <1>2, <1>3 DEF SamePulses
<1> HIDE DEF new
<1>5. /\ Fit(q) /\ q.mem = new /\ q.phase = "attach"
      /\ q.zone[z] = d /\ \A y \in Zones \ {z} : q.zone[y] = p.zone[y]
  BY <1>1, <1>3, <1>4, AttachFits
<1> HIDE DEF q
<1>6. ASSUME Whole, NEW y \in Zones
      PROVE  /\ MayFlow(y) => OpenPulse(new.zones[y].session)
             /\ q.zone[y].attached => /\ MayFlow(y) => Wet(q.zone[y])
                                      /\ Unsaved(q.zone[y]) \/ OpenPulse(new.zones[y].session)
  <2>1. Guarded(p, disk, y, MayFlow(y), latent[y])
    BY <1>6 DEF IInv
  <2>2. OpenPulse(new.zones[y].session) = OpenPulse(p.mem.zones[y].session)
    BY <1>3 DEF SamePulses
  <2>3. p.phase = "attach" /\ (y = z => Begun(p.mem.zones[y].session, d))
    OBVIOUS
  <2> HIDE DEF p
  <2>4. MayFlow(y) => OpenPulse(p.mem.zones[y].session)
    BY <2>1, <2>3 DEF Guarded
  <2>5. CASE y = z
    BY <1>5, <2>2, <2>3, <2>4, <2>5 DEF Begun
  <2>6. CASE y # z
    BY <1>5, <2>1, <2>2, <2>4, <2>6 DEF Guarded
  <2> QED BY <2>5, <2>6
<1>7. Live.phase \in Setup
  BY DEF Setup
<1> HIDE DEF a, p
<1> QED BY <1>1, <1>3, <1>5, <1>6, <1>7, SetupSaves DEF q

(* _reconcile_zone *)
LEMMA AttachZoneKeeps ==
  ASSUME IInv, NEW z \in Zones, AttachZone(z)
  PROVE  IInv'
<1> DEFINE rec == Live.mem.zones[z]
           c == Attached(rec)
           r == Less(Live, z)
           open == rec.session # NoSession
           expired == IF Grace(rec.session) <= now
                      THEN <<Dispatch(Event("GraceDeadlineReached")), Return>> ELSE <<Return>>
<1>1. Live.phase = "attach" /\ z \in Live.todo /\ UNCHANGED <<now, runs, water, seen, latent, ghost>>
  BY DEF AttachZone, world
<1>2. \/ /\ rec.state = "WATERING" /\ open /\ UNCHANGED disk
         /\ SetLive(Put(r, z, DecideAndApply(r, z, c, AnyReading, Startup(Finding(z)), <<Return>>)))
      \/ /\ rec.state = "SOAKING" /\ open
         /\ Save("live", RebaseSoakingOwner(Live.mem, z, Live.run),
                 Put(r, z, DecideAndApply(r, z, [c EXCEPT !.run = Live.run], AnyReading,
                                          StartupSoaking(TRUE), expired)),
                 FailSetup(Live))
      \/ /\ rec.state = "SOAKING" /\ open /\ UNCHANGED disk
         /\ SetLive(Put(r, z, DecideAndApply(r, z, c, AnyReading, StartupSoaking(FALSE),
                                             NoticeOn(z))))
      \/ UNCHANGED disk /\ SetLive(Put(r, z, [c EXCEPT !.todo = NoticeOn(z)]))
  BY DEF AttachZone, Put, Less
<1>3. Fit(Live) /\ IsWorld
  BY DEF IInv
<1>4. rec \in FullRecords /\ Live.run \in Nat /\ Live \in RuntimesOn(Live.slots)
  BY <1>1, <1>3, RuntimeTyped, RecordTyped DEF Fit, Course, NoFile, Late, ZoneRecords
<1>5. r.run \in Nat
  <2> DEFINE p == Live
  <2> HIDE DEF p
  <2>1. p \in RuntimesOn(p.slots) => Less(p, z).run = p.run
    BY DEF RuntimesOn, Less
  <2> QED BY <1>4, <2>1 DEF p
<1>6. c = AttachedBy(rec, rec.run) /\ [c EXCEPT !.run = Live.run] = AttachedBy(rec, Live.run)
  <2>1. c = AttachedBy(rec, rec.run)
    <3>1. Detached \in Controllers
      BY DetachedFits, FittingFits
    <3>2. c \in Controllers /\ c.run = rec.run
      BY <1>4, <3>1 DEF Attached, Controllers, FullRecords
    <3> DEFINE k == c
    <3>3. k \in Controllers /\ k.run = rec.run /\ AttachedBy(rec, rec.run) = [k EXCEPT !.run = rec.run]
      BY <3>2 DEF AttachedBy
    <3> HIDE DEF k, rec
    <3>4. [k EXCEPT !.run = rec.run] = k
      BY <3>3 DEF Controllers
    <3> QED BY <3>3, <3>4 DEF k
  <2> QED BY <2>1 DEF AttachedBy
<1>7. rec.run \in Nat /\ Sound(rec.state, rec.session)
  BY <1>4 DEF FullRecords
<1>8. Quiet(<<Return>>) /\ Quiet(NoticeOn(z)) /\ Quiet(expired)
  BY StartupLists DEF NoticeOn
<1>9. AnyReading \in Int
  BY ConstantsTyped
<1>10. ASSUME NEW run \in Nat
       PROVE  LET k == AttachedBy(rec, run)
                  i == Input(r, z, k, AnyReading)
              IN  i \in Situations /\ i.now \in Nat /\ i.state = rec.state /\ i.session = rec.session
  <2> DEFINE k == AttachedBy(rec, run)
  <2>1. k \in Fitting /\ k.session = rec.session /\ k.state = rec.state
    BY <1>4, AttachedFits
  <2> HIDE DEF k
  <2>2. k \in Controllers /\ Sound(k.state, k.session)
    BY <2>1, FittingFits
  <2> QED BY <1>3, <1>9, <2>1, <2>2, InputTyped DEF k
<1>11. Begun(rec.session, DecideAndApply(r, z, AttachedBy(rec, Live.run), AnyReading,
                                         StartupSoaking(TRUE), expired))
       \/ rec.state # "SOAKING"
  <2> DEFINE k == AttachedBy(rec, Live.run)
             i == Input(r, z, k, AnyReading)
             d == DecideAndApply(r, z, k, AnyReading, StartupSoaking(TRUE), expired)
  <2> SUFFICES ASSUME rec.state = "SOAKING" PROVE Begun(rec.session, d)
    OBVIOUS
  <2>1. i \in Situations /\ i.now \in Nat /\ i.state = "SOAKING" /\ Sound(i.state, i.session)
    BY <1>4, <1>7, <1>10
  <2> HIDE DEF i, expired, rec, r
  <2>2. Fine(i, FALSE, Decide(i, StartupSoaking(TRUE)))
    BY <2>1, StartupSoakingFine
  <2>3. /\ d \in Fitting /\ d.attached
        /\ OpenPulse(rec.session) => Wet(d)
        /\ ~OpenPulse(rec.session) => Unsaved(d)
    BY <1>3, <1>4, <1>5, <1>8, <1>9, <2>2, DecidedBegun DEF i
  <2> QED BY <2>3 DEF Begun
<1>12. Begun(rec.session, DecideAndApply(r, z, AttachedBy(rec, rec.run), AnyReading,
                                         StartupSoaking(FALSE), NoticeOn(z)))
       \/ rec.state # "SOAKING"
  <2> DEFINE k == AttachedBy(rec, rec.run)
             i == Input(r, z, k, AnyReading)
             d == DecideAndApply(r, z, k, AnyReading, StartupSoaking(FALSE), NoticeOn(z))
  <2> SUFFICES ASSUME rec.state = "SOAKING" PROVE Begun(rec.session, d)
    OBVIOUS
  <2>1. i \in Situations /\ i.now \in Nat /\ i.state = "SOAKING" /\ Sound(i.state, i.session)
    BY <1>4, <1>7, <1>10
  <2> HIDE DEF i, rec, r
  <2>2. Fine(i, FALSE, Decide(i, StartupSoaking(FALSE)))
    BY <2>1, StartupSoakingFine
  <2>3. /\ d \in Fitting /\ d.attached
        /\ OpenPulse(rec.session) => Wet(d)
        /\ ~OpenPulse(rec.session) => Unsaved(d)
    BY <1>3, <1>4, <1>5, <1>7, <1>8, <1>9, <2>2, DecidedBegun DEF i
  <2> QED BY <2>3 DEF Begun
<1>13. Begun(rec.session, [c EXCEPT !.todo = NoticeOn(z)])
  <2> DEFINE k == AttachedBy(rec, rec.run)
             todo == NoticeOn(z)
             d == [k EXCEPT !.todo = todo]
  <2>1. /\ k \in Fitting /\ k.attached /\ k.todo = << >> /\ k.inbox = << >>
        /\ k.session = rec.session /\ k.state = rec.state
        /\ OpenPulse(rec.session) => Wet(k)
        /\ ~OpenPulse(rec.session) => Unsaved(k)
    BY <1>4, <1>7, AttachedFits
  <2>2. Quiet(todo) /\ todo \in Seq(Todos) /\ KeysFirst(todo)
    BY <1>8, NoKeys DEF Quiet
  <2>3. d = [c EXCEPT !.todo = NoticeOn(z)]
    BY <1>6
  <2>4. Sound(k.state, k.session)
    BY <1>7, <2>1
  <2> HIDE DEF k, todo, rec
  <2>5. /\ d \in Controllers /\ d.attached /\ d.todo = todo /\ d.inbox = k.inbox
        /\ d.session = k.session /\ d.state = k.state
    BY <2>1, <2>2, FittingFits DEF Controllers
  <2> HIDE DEF d
  <2>6. d \in Fitting
    BY <2>2, <2>4, <2>5 DEF Fitting
  <2>7. ~OffWaits(d)
    BY <2>1, <2>2, <2>5, Tuples DEF OffWaits, Quiet
  <2>8. Begun(rec.session, d)
    BY <2>1, <2>5, <2>6, <2>7 DEF Begun, Wet, Unsaved
  <2> QED BY <2>3, <2>8
<1>14. CASE /\ rec.state = "WATERING" /\ UNCHANGED disk
            /\ SetLive(Put(r, z, DecideAndApply(r, z, c, AnyReading, Startup(Finding(z)), <<Return>>)))
  <2> DEFINE k == AttachedBy(rec, rec.run)
             i == Input(r, z, k, AnyReading)
             off == Finding(z) = "OFF"
             d == DecideAndApply(r, z, k, AnyReading, Startup(Finding(z)), <<Return>>)
  <2>1. i \in Situations /\ i.now \in Nat /\ i.state = "WATERING" /\ Sound(i.state, i.session)
    BY <1>7, <1>10, <1>14
  <2>2. SetLive(Put(r, z, d)) /\ UNCHANGED disk
    BY <1>6, <1>14
  <2>3. off \in BOOLEAN /\ (off => Assessment(z).provenOff)
    BY DEF Finding
  <2>4. Fine(i, off, Decide(i, Startup(Finding(z))))
    BY <2>1, StartupFine
  <2>5. /\ d \in Fitting /\ d.attached
        /\ OpenPulse(rec.session) /\ ~off => Wet(d)
        /\ ~OpenPulse(rec.session) => Unsaved(d)
    <3> HIDE DEF off, rec, r, i
    <3> QED BY <1>3, <1>4, <1>5, <1>7, <1>8, <1>9, <2>3, <2>4, DecidedBegun DEF i
  <2>6. Whole /\ MayFlow(z) => ~Assessment(z).provenOff
    <3> SUFFICES ASSUME Whole, MayFlow(z) PROVE ~Assessment(z).provenOff
      OBVIOUS
    <3>1. ~latent[z]
      BY <1>1 DEF IInv, Guarded, Setup
    <3> QED BY <1>3, <3>1, AssessmentTyped DEF MayFlow
  <2> HIDE DEF d, off
  <2> QED BY <1>1, <2>2, <2>3, <2>5, <2>6, Attaches
<1>15. CASE /\ rec.state = "SOAKING"
            /\ Save("live", RebaseSoakingOwner(Live.mem, z, Live.run),
                    Put(r, z, DecideAndApply(r, z, [c EXCEPT !.run = Live.run], AnyReading,
                                             StartupSoaking(TRUE), expired)),
                    FailSetup(Live))
  BY <1>1, <1>6, <1>11, <1>15, AttachesRebased
<1>16. CASE /\ rec.state = "SOAKING" /\ UNCHANGED disk
            /\ SetLive(Put(r, z, DecideAndApply(r, z, c, AnyReading, StartupSoaking(FALSE),
                                                NoticeOn(z))))
  BY <1>1, <1>6, <1>12, <1>16, Attaches DEF Begun
<1>17. CASE UNCHANGED disk /\ SetLive(Put(r, z, [c EXCEPT !.todo = NoticeOn(z)]))
  BY <1>1, <1>13, <1>17, Attaches DEF Begun
<1> QED BY <1>2, <1>14, <1>15, <1>16, <1>17

-----------------------------------------------------------------------------
(* Shutdown and unload. *)

(* The bookkeeping of the runtime's loops. *)
Watering(p, w) == [p EXCEPT !.watering = w]
Preserved(p, w) == [p EXCEPT !.preserved = w]
Deadline(p, t) == [p EXCEPT !.deadline = t]

Even(p, q) ==
    /\ IsRuntime(q)
    /\ q.phase = p.phase /\ q.run = p.run /\ q.mem = p.mem /\ q.failures = p.failures
    /\ q.zone = p.zone /\ q.slots = p.slots
    /\ q.watering \in SUBSET Zones /\ q.preserved \in SUBSET Zones

LEMMA EvenTyped ==
  ASSUME NEW p, NEW q, Even(p, q), NEW z, NEW w \in SUBSET Zones, NEW t \in Int
  PROVE  /\ Even(p, Less(q, z)) /\ Less(q, z).watering = q.watering
         /\ Less(q, z).preserved = q.preserved
         /\ Even(p, Watering(q, w)) /\ Even(p, Preserved(q, w)) /\ Even(p, Deadline(q, t))
<1>1. q \in RuntimesOn(q.slots) /\ IsSlots(q.slots)
  BY RuntimeTyped DEF Even
<1>2. Even(p, Less(q, z)) /\ Less(q, z).watering = q.watering /\ Less(q, z).preserved = q.preserved
  <2> DEFINE r == Less(q, z)
  <2>1. /\ r \in RuntimesOn(q.slots) /\ r.slots = q.slots /\ r.phase = q.phase /\ r.run = q.run
        /\ r.mem = q.mem /\ r.failures = q.failures /\ r.zone = q.zone
        /\ r.watering = q.watering /\ r.preserved = q.preserved
    BY <1>1 DEF RuntimesOn, Less
  <2> HIDE DEF r
  <2> QED BY <1>1, <2>1 DEF Even, IsRuntime, r
<1>3. Even(p, Watering(q, w))
  <2> DEFINE r == Watering(q, w)
  <2>1. /\ r \in RuntimesOn(q.slots) /\ r.slots = q.slots /\ r.phase = q.phase /\ r.run = q.run
        /\ r.mem = q.mem /\ r.failures = q.failures /\ r.zone = q.zone
        /\ r.watering = w /\ r.preserved = q.preserved
    BY <1>1 DEF RuntimesOn, Watering
  <2> HIDE DEF r
  <2> QED BY <1>1, <2>1 DEF Even, IsRuntime, r
<1>4. Even(p, Preserved(q, w))
  <2> DEFINE r == Preserved(q, w)
  <2>1. /\ r \in RuntimesOn(q.slots) /\ r.slots = q.slots /\ r.phase = q.phase /\ r.run = q.run
        /\ r.mem = q.mem /\ r.failures = q.failures /\ r.zone = q.zone
        /\ r.watering = q.watering /\ r.preserved = w
    BY <1>1 DEF RuntimesOn, Preserved
  <2> HIDE DEF r
  <2> QED BY <1>1, <2>1 DEF Even, IsRuntime, r
<1>5. Even(p, Deadline(q, t))
  <2> DEFINE r == Deadline(q, t)
  <2>1. /\ r \in RuntimesOn(q.slots) /\ r.slots = q.slots /\ r.phase = q.phase /\ r.run = q.run
        /\ r.mem = q.mem /\ r.failures = q.failures /\ r.zone = q.zone
        /\ r.watering = q.watering /\ r.preserved = q.preserved
    BY <1>1 DEF RuntimesOn, Deadline
  <2> HIDE DEF r
  <2> QED BY <1>1, <2>1 DEF Even, IsRuntime, r
<1> QED BY <1>2, <1>3, <1>4, <1>5

LEMMA EvenGoes ==
  ASSUME NEW p, IsRuntime(p), p.phase # "attach", NEW r, Even(p, r), NEW z \in Zones
  PROVE  /\ Goes(p, r, z)
         /\ \A d : Follows(p.zone[z], d) => Goes(p, Put(r, z, d), z)
<1>1. Goes(p, r, z)
  BY RuntimeTyped, FollowsItself DEF Even, Goes
<1>2. ASSUME NEW d, Follows(p.zone[z], d)
      PROVE  Goes(p, Put(r, z, d), z)
  <2>1. d \in Fitting /\ IsRuntime(r) /\ r.zone = p.zone
    BY <1>2 DEF Follows, Even
  <2> DEFINE q == Put(r, z, d)
  <2>2. /\ IsRuntime(q) /\ SameCourse(r, q) /\ q.slots = r.slots /\ q.zone[z] = d
        /\ \A y \in Zones \ {z} : q.zone[y] = r.zone[y]
    BY <2>1, ZonePut
  <2> HIDE DEF q
  <2> QED BY <1>2, <2>1, <2>2 DEF Goes, SameCourse, Even, q
<1> QED BY <1>1, <1>2

(* What shutdown and unload tell a session. *)
LEMMA StopCalls ==
  ASSUME NEW z
  PROVE  LET Told(m) == m \in Messages /\ ~TellsOff(m) IN
         /\ Told(Call(Event("HomeAssistantShutdown"), <<BeginOff, Return>>))
         /\ Told(Call(Event("ConfigEntryReload"), <<Return>>))
         /\ Told(SoakingShutdown(z))
<1>1. /\ Event("HomeAssistantShutdown") \in Heard /\ ~OffSeen(Event("HomeAssistantShutdown"))
      /\ Event("ConfigEntryReload") \in Heard /\ ~OffSeen(Event("ConfigEntryReload"))
      /\ Event("ExternalActuatorOn") \in Heard /\ ~OffSeen(Event("ExternalActuatorOn"))
      /\ Event("ActuatorBecameUnavailable") \in Heard
      /\ ~OffSeen(Event("ActuatorBecameUnavailable"))
  BY DEF Heard, Events, PlainKinds, Event, OffSeen
<1>2. \A e, q : e \in Heard /\ ~OffSeen(e) /\ q \in Seq(Rests) =>
                  Call(e, q) \in Messages /\ ~TellsOff(Call(e, q))
  BY DEF Call, Messages, TellsOff
<1>3. /\ <<Return>> \in Seq(Rests) /\ <<BeginOff, Return>> \in Seq(Rests)
      /\ <<ShutdownOff, Return>> \in Seq(Rests)
  BY Lists
<1> QED BY <1>1, <1>2, <1>3 DEF SoakingShutdown

LEMMA LiveMoves ==
  ASSUME IInv, NEW z \in Zones, NEW q, Goes(Live, q, z), SetLive(q),
         UNCHANGED <<now, disk, runs, water, seen, latent, ghost>>
  PROVE  IInv'
BY ZoneMoves DEF SetLive, Live, Instances

LEMMA SignalZoneKeeps ==
  ASSUME IInv, NEW z \in Zones, SignalZone(z)
  PROVE  IInv'
<1> DEFINE p == Live
           c == p.zone[z]
           r == Less(p, z)
           call == Call(Event("HomeAssistantShutdown"), <<BeginOff, Return>>)
           wet == Watering(r, r.watering \cup {z})
           kept == Preserved(r, IF Assessment(z).provenOff THEN r.preserved \cup {z} ELSE r.preserved)
<1>1. /\ Live.phase = "signal" /\ UNCHANGED <<now, disk, runs, water, seen, latent, ghost>>
      /\ \/ c.state = "WATERING" /\ SetLive(Put(wet, z, Send(c, call)))
         \/ c.state = "SOAKING" /\ SetLive(Put(kept, z, Send(c, SoakingShutdown(z))))
         \/ SetLive(r)
  BY DEF SignalZone, world, Put, Watering, Preserved, Less
<1>2. Fit(p) /\ IsRuntime(p) /\ c \in Fitting /\ p.phase # "attach"
  <2>1. Fit(Live)
    BY DEF IInv
  <2> QED BY <1>1, <2>1, RuntimeTyped DEF Fit
<1>3. c.state \in {"WATERING", "SOAKING"} => c.attached
  BY <1>2 DEF Fitting, Detached
<1>4. Even(p, p)
  BY <1>2, RuntimeTyped DEF Even
<1>5. Even(p, r) /\ r.watering \in SUBSET Zones /\ r.preserved \in SUBSET Zones
  <2>1. 0 \in Int
    OBVIOUS
  <2> HIDE DEF p
  <2>2. Even(p, r)
    BY <1>4, <2>1, EvenTyped
  <2> QED BY <2>2 DEF Even
<1> HIDE DEF r
<1>6. Even(p, wet) /\ Even(p, kept)
  <2> DEFINE w == r.watering \cup {z}
             k == IF Assessment(z).provenOff THEN r.preserved \cup {z} ELSE r.preserved
  <2>1. w \in SUBSET Zones /\ k \in SUBSET Zones /\ 0 \in Int
    BY <1>5
  <2> HIDE DEF w, k, p
  <2>2. Even(p, Watering(r, w)) /\ Even(p, Preserved(r, k))
    BY <1>5, <2>1, EvenTyped
  <2> QED BY <2>2 DEF w, k
<1>7. call \in Messages /\ ~TellsOff(call)
      /\ SoakingShutdown(z) \in Messages /\ ~TellsOff(SoakingShutdown(z))
  BY StopCalls
<1> HIDE DEF wet, kept, call
<1>8. c.attached => Follows(c, Send(c, call)) /\ Follows(c, Send(c, SoakingShutdown(z)))
  BY <1>2, <1>7, SendFollows
<1>9. CASE c.state = "WATERING" /\ SetLive(Put(wet, z, Send(c, call)))
  <2>1. Goes(p, Put(wet, z, Send(c, call)), z)
    BY <1>2, <1>3, <1>6, <1>8, <1>9, EvenGoes
  <2> QED BY <1>1, <1>9, <2>1, LiveMoves
<1>10. CASE c.state = "SOAKING" /\ SetLive(Put(kept, z, Send(c, SoakingShutdown(z))))
  <2>1. Goes(p, Put(kept, z, Send(c, SoakingShutdown(z))), z)
    BY <1>2, <1>3, <1>6, <1>8, <1>10, EvenGoes
  <2> QED BY <1>1, <1>10, <2>1, LiveMoves
<1>11. CASE SetLive(r)
  <2>1. Goes(p, r, z)
    BY <1>2, <1>5, EvenGoes
  <2> QED BY <1>1, <1>11, <2>1, LiveMoves
<1> QED BY <1>1, <1>9, <1>10, <1>11

(* async_unload: one session after the other is told. *)
LEMMA UnloadZoneKeeps ==
  ASSUME IInv, NEW z \in Zones, UnloadZone(z)
  PROVE  IInv'
<1> DEFINE p == Live
           c == p.zone[z]
           t == now + ShutdownBudget
           r == Deadline(Less(p, z), t)
           call == Call(Event("ConfigEntryReload"), <<Return>>)
           told == Put(r, z, Send(c, call))
<1>1. /\ Live.phase = "unload" /\ UNCHANGED <<now, disk, runs, water, seen, latent, ghost>>
      /\ \/ c.state = "WATERING" /\ SetLive(Watering(told, {z}))
         \/ c.state = "SOAKING" /\ SetLive(told)
         \/ SetLive(r)
  BY DEF UnloadZone, world, Put, Watering, Deadline, Less
<1>2. Fit(p) /\ IsRuntime(p) /\ c \in Fitting /\ p.phase # "attach"
  <2>1. Fit(Live)
    BY DEF IInv
  <2> QED BY <1>1, <2>1, RuntimeTyped DEF Fit
<1>3. c.state \in {"WATERING", "SOAKING"} => c.attached
  BY <1>2 DEF Fitting, Detached
<1>4. Even(p, p)
  BY <1>2, RuntimeTyped DEF Even
<1>5. Even(p, r)
  <2>1. t \in Int /\ {z} \in SUBSET Zones
    BY Parts, ConstantsTyped DEF IsWorld
  <2> HIDE DEF p, t
  <2>2. Even(p, Less(p, z))
    BY <1>4, <2>1, EvenTyped
  <2> QED BY <2>1, <2>2, EvenTyped
<1>6. call \in Messages /\ ~TellsOff(call)
  BY StopCalls
<1> HIDE DEF r, call
<1>7. c.attached => Follows(c, Send(c, call))
  BY <1>2, <1>6, SendFollows
<1>8. c.attached => Goes(p, told, z)
  BY <1>2, <1>5, <1>7, EvenGoes
<1>9. CASE c.state = "WATERING" /\ SetLive(Watering(told, {z}))
  <2>1. IsRuntime(told) /\ 0 \in Int /\ {z} \in SUBSET Zones
    BY <1>3, <1>8, <1>9 DEF Goes
  <2>2. Goes(p, told, z)
    BY <1>3, <1>8, <1>9
  <2>3. Even(told, told)
    BY <2>1, RuntimeTyped DEF Even
  <2> HIDE DEF told
  <2>4. Even(told, Watering(told, {z}))
    BY <2>1, <2>3, EvenTyped
  <2>5. told.phase # "attach"
    BY <1>2, <2>2 DEF Goes
  <2>6. Goes(told, Watering(told, {z}), z)
    BY <2>1, <2>4, <2>5, EvenGoes
  <2>7. Goes(p, Watering(told, {z}), z)
    BY <2>2, <2>6, GoesOnAndOn
  <2> QED BY <1>1, <1>9, <2>7, LiveMoves
<1>10. CASE c.state = "SOAKING" /\ SetLive(told)
  BY <1>1, <1>3, <1>8, <1>10, LiveMoves
<1>11. CASE SetLive(r)
  <2>1. Goes(p, r, z)
    BY <1>2, <1>5, EvenGoes
  <2> QED BY <1>1, <1>11, <2>1, LiveMoves
<1> QED BY <1>1, <1>9, <1>10, <1>11

(* _await_off_within_budget *)
LEMMA AwaitZoneKeeps ==
  ASSUME IInv, NEW z \in Zones, AwaitZone(z)
  PROVE  IInv'
<1> DEFINE p == Live
           c == p.zone[z]
           r == Less(p, z)
           next == Watering(r, IF p.stopping THEN r.watering ELSE r.watering \ {z})
<1>1. /\ Live.phase \in {"await", "unload"}
      /\ UNCHANGED <<now, disk, runs, water, seen, latent, ghost>>
      /\ \/ SetLive(next)
         \/ LockFree(c) /\ SetLive(Put(p, z, Abort(p, z, c)))
  BY DEF AwaitZone, world, Put, Watering, Less
<1>2. Fit(p) /\ IsRuntime(p) /\ c \in Fitting /\ p.phase # "attach"
  <2>1. Fit(Live)
    BY DEF IInv
  <2> QED BY <1>1, <2>1, RuntimeTyped DEF Fit
<1>3. CASE SetLive(next)
  <2>1. Even(p, p) /\ 0 \in Int /\ Zones \in SUBSET Zones
    BY <1>2, RuntimeTyped DEF Even
  <2>2. p.phase # "attach" /\ IsRuntime(p)
    BY <1>2
  <2> DEFINE w == IF p.stopping THEN r.watering ELSE r.watering \ {z}
  <2> HIDE DEF p
  <2>3. Even(p, r)
    BY <2>1, EvenTyped
  <2> HIDE DEF r
  <2>4. w \in SUBSET Zones
    BY <2>3 DEF Even
  <2> HIDE DEF w
  <2>5. Even(p, Watering(r, w))
    BY <2>1, <2>3, <2>4, EvenTyped
  <2>6. Goes(p, Watering(r, w), z)
    BY <2>2, <2>5, EvenGoes
  <2> QED BY <1>1, <1>3, <2>6, LiveMoves DEF p, r, w
<1>4. CASE LockFree(c) /\ SetLive(Put(p, z, Abort(p, z, c)))
  <2>1. Follows(c, Abort(p, z, c))
    BY <1>2, <1>4, Parts, AbortFollows DEF LockFree
  <2>2. Goes(p, Put(p, z, Abort(p, z, c)), z)
    BY <1>2, <2>1, RuntimeTyped, ZoneGoes
  <2> QED BY <1>1, <1>4, <2>2, LiveMoves
<1> QED BY <1>1, <1>3, <1>4

(* The shutdown's loops, and the start of an unload. *)
LEMMA StopProceedsKeeps ==
  ASSUME IInv, StopProceeds \/ UnloadBegins
  PROVE  IInv'
<1>1. ASSUME NEW next \in {"await", "persist", "unload"}, NEW s, IsSlots(s),
             SetLive([Live EXCEPT !.phase = next, !.todo = Zones, !.slots = s]),
             Live.phase \in {"signal", "await", "up"},
             next \in {"await", "persist"} => Live.phase \in Stopping,
             next = "unload" => Live.phase = "up",
             UNCHANGED <<now, disk, runs, water, seen, latent, ghost>>
      PROVE  IInv'
  <2> DEFINE p == Live
             q == [p EXCEPT !.phase = next, !.todo = Zones, !.slots = s]
  <2>1. Course(p) /\ p \in RuntimesOn(p.slots) /\ SetLive(q)
    BY <1>1, RuntimeTyped DEF IInv, Fit
  <2>2. p.phase \in {"signal", "await", "up"} /\ (next \in {"await", "persist"} => p.phase \in Stopping)
      /\ (next = "unload" => p.phase = "up")
    BY <1>1
  <2> HIDE DEF p
  <2>3. /\ q \in RuntimesOn(s) /\ q.phase = next /\ q.mem = p.mem /\ q.zone = p.zone
        /\ q.slots = s /\ q.failures = p.failures
    BY <1>1, <2>1 DEF RuntimesOn, Phases, Stopping
  <2> HIDE DEF q
  <2>4. IsRuntime(q)
    BY <1>1, <2>3 DEF IsRuntime
  <2>5. next = "unload" => ~p.failures
    BY <2>1, <2>2 DEF Course, Stopping
  <2>6. Course(q)
    BY <1>1, <2>1, <2>2, <2>3, <2>5 DEF Course, NoFile, Late, Stopping, Setup
  <2>7. \A y \in Zones : Believes(q, y) => Believes(p, y)
    BY <2>2, <2>3 DEF Believes, NoFile
  <2> QED BY <1>1, <2>1, <2>3, <2>4, <2>6, <2>7, LiveGoes DEF Fit, p, Setup
<1>2. Live \in RuntimesOn(Live.slots) /\ IsSlots(Live.slots)
  BY RuntimeTyped DEF IInv, Fit
<1> DEFINE p == Live
<1>3. CASE StopProceeds
  <2>1. \A next : [p EXCEPT !.phase = next, !.todo = Zones]
                    = [p EXCEPT !.phase = next, !.todo = Zones, !.slots = p.slots]
    <3> HIDE DEF p
    <3> QED BY <1>2 DEF RuntimesOn, p
  <2>2. Live.phase \in Stopping /\ UNCHANGED <<now, disk, runs, water, seen, latent, ghost>>
    BY <1>3 DEF StopProceeds, world, Stopping
  <2>3. CASE Live.phase = "signal" /\ SetLive([p EXCEPT !.phase = "await", !.todo = Zones])
    BY <1>1, <1>2, <2>1, <2>2, <2>3
  <2>4. CASE Live.phase = "await" /\ SetLive([p EXCEPT !.phase = "persist", !.todo = Zones])
    BY <1>1, <1>2, <2>1, <2>2, <2>4
  <2> QED BY <1>3, <2>3, <2>4 DEF StopProceeds
<1>4. CASE UnloadBegins
  <2> DEFINE s == SetGrants(p.slots, FALSE)
  <2>1. IsSlots(s)
    BY <1>2 DEF SetGrants, IsSlots
  <2>2. /\ Live.phase = "up" /\ SetLive([Live EXCEPT !.phase = "unload", !.todo = Zones, !.slots = s])
        /\ UNCHANGED <<now, disk, runs, water, seen, latent, ghost>>
    BY <1>4 DEF UnloadBegins, world
  <2> HIDE DEF s
  <2> QED BY <1>1, <2>1, <2>2
<1> QED BY <1>3, <1>4

(* begin_shutdown: every controller is quiesced. *)
LEMMA StopFollows ==
  ASSUME NEW z \in Zones, NEW p, NEW c \in Fitting, c.attached, NEW b \in BOOLEAN
  PROVE  LET k == [Quiesce(c) EXCEPT !.waiting = b] IN
         /\ Follows(c, k) /\ ~k.eligible
         /\ Follows(c, BeginShutdownOff(p, z, k)) /\ ~BeginShutdownOff(p, z, k).eligible
<1> DEFINE d == Quiesce(c)
           k == [d EXCEPT !.waiting = b]
<1>1. Follows(c, d) /\ ~d.eligible
  BY QuiesceFollows
<1>2. d \in Fitting /\ d.attached /\ d \in Controllers
  BY <1>1, FittingFits DEF Follows
<1> HIDE DEF d
<1>3. Alike(d, k)
  BY <1>2 DEF Alike, Controllers
<1> HIDE DEF k
<1>4. Follows(d, k) /\ ~k.eligible
  BY <1>1, <1>2, <1>3, AlikeFollows DEF Follows
<1>5. Follows(c, k) /\ k \in Fitting /\ k.attached
  BY <1>1, <1>2, <1>4, FollowsOn DEF Follows
<1>6. Follows(k, BeginShutdownOff(p, z, k))
  BY <1>5, ShutdownOffFollows
<1>7. Follows(c, BeginShutdownOff(p, z, k)) /\ ~BeginShutdownOff(p, z, k).eligible
  BY <1>4, <1>5, <1>6, FollowsOn DEF Follows
<1> QED BY <1>4, <1>5, <1>7 DEF k, d

LEMMA StopBeginsKeeps ==
  ASSUME IInv, StopBegins
  PROVE  IInv'
<1> DEFINE p == Live
           s == CloseAdmission(p.slots)
           k(z) == [Quiesce(p.zone[z]) EXCEPT !.waiting = @ /\ s.future[z] # "cancelled"]
           d(z) == IF p.zone[z].state \notin {"WATERING", "SOAKING"}
                   THEN BeginShutdownOff(p, z, k(z)) ELSE k(z)
           zone == [z \in Zones |-> d(z)]
           t == now + ShutdownBudget
           closed == [p EXCEPT !.slots = s]
           q == [closed EXCEPT !.phase = "signal", !.stopping = TRUE, !.deadline = t,
                               !.todo = Zones, !.zone = zone]
<1>1. Fit(p) /\ IsRuntime(p) /\ p \in RuntimesOn(p.slots) /\ IsSlots(p.slots) /\ Course(p)
  BY RuntimeTyped DEF IInv, Fit
<1>2. /\ p.phase = "up" /\ UNCHANGED <<now, disk, runs, water, seen, latent, ghost>>
  BY DEF StopBegins, world
<1>3. SetLive(q)
  <2>1. closed.slots.future = s.future
    <3> HIDE DEF p, s
    <3> QED BY <1>1 DEF RuntimesOn
  <2> QED BY <2>1 DEF StopBegins
<1>4. ASSUME NEW z \in Zones
      PROVE  d(z) \in Fitting /\ Follows(p.zone[z], d(z)) /\ ~d(z).eligible
  <2>1. p.zone[z] \in Fitting /\ p.zone[z].attached
    BY <1>1, <1>2, RuntimeTyped DEF Course
  <2> DEFINE c == p.zone[z]
             b == Quiesce(c).waiting /\ s.future[z] # "cancelled"
  <2>2. b \in BOOLEAN
    OBVIOUS
  <2>3. d(z) = IF c.state \notin {"WATERING", "SOAKING"}
               THEN BeginShutdownOff(p, z, [Quiesce(c) EXCEPT !.waiting = b])
               ELSE [Quiesce(c) EXCEPT !.waiting = b]
    OBVIOUS
  <2> HIDE DEF c, b, d, p
  <2>4. LET e == [Quiesce(c) EXCEPT !.waiting = b] IN
        /\ Follows(c, e) /\ ~e.eligible
        /\ Follows(c, BeginShutdownOff(p, z, e)) /\ ~BeginShutdownOff(p, z, e).eligible
    BY <2>1, <2>2, StopFollows DEF c
  <2>5. Follows(c, d(z)) /\ ~d(z).eligible
    BY <2>3, <2>4
  <2> QED BY <2>5 DEF Follows, c
<1> HIDE DEF d
<1>5. zone \in [Zones -> Fitting] /\ \A z \in Zones : zone[z] = d(z)
  BY <1>4
<1>6. IsSlots(s)
  BY <1>1 DEF IsSlots, CloseAdmission
<1>7. t \in Int
  BY Parts, ConstantsTyped DEF IsWorld
<1> HIDE DEF p, s, zone, t
<1>8. /\ q \in RuntimesOn(s) /\ q.phase = "signal" /\ q.mem = p.mem /\ q.zone = zone
      /\ q.slots = s /\ q.failures = p.failures
  <2>1. closed \in RuntimesOn(s) /\ closed.mem = p.mem /\ closed.failures = p.failures
    BY <1>1 DEF RuntimesOn
  <2> HIDE DEF closed
  <2> QED BY <1>5, <1>7, <2>1 DEF RuntimesOn, Phases, Stopping
<1> HIDE DEF q
<1>9. \A z \in Zones : /\ q.zone[z].attached = p.zone[z].attached /\ ~q.zone[z].eligible
                       /\ p.zone[z].persistFailed => q.zone[z].persistFailed
                       /\ Wet(p.zone[z]) => Wet(q.zone[z])
                       /\ Unsaved(p.zone[z]) => Unsaved(q.zone[z])
  BY <1>4, <1>5, <1>8 DEF Follows
<1>10. Course(q)
  BY <1>1, <1>2, <1>8, <1>9 DEF Course, NoFile, Late, Stopping, Setup
<1>11. IsRuntime(q)
  BY <1>6, <1>8 DEF IsRuntime
<1>12. \A y \in Zones : Believes(q, y) => Believes(p, y)
  BY <1>1, <1>2, <1>8, <1>9 DEF Believes, NoFile, Course
<1> QED BY <1>2, <1>3, <1>8, <1>9, <1>10, <1>11, <1>12, LiveGoes DEF Fit, p, Setup

(* A zone that could not be persisted. *)
Failing(p, z) == [Less(p, z) EXCEPT !.failures = TRUE]

LEMMA FailureKeeps ==
  ASSUME IInv, Live.phase = "persist", NEW z \in Zones, SetLive(Failing(Live, z)), disk' \in Files,
         Whole => \A y \in Zones : MayFlow(y) => Hazard(disk', y),
         UNCHANGED <<now, runs, water, seen, latent, ghost>>
  PROVE  IInv'
<1> DEFINE p == Live
           r == Less(p, z)
           q == Failing(p, z)
<1>1. Course(p) /\ p \in RuntimesOn(p.slots) /\ IsSlots(p.slots) /\ p.phase = "persist" /\ SetLive(q)
  BY RuntimeTyped DEF IInv, Fit
<1> HIDE DEF p
<1>2. /\ q \in RuntimesOn(p.slots) /\ q.phase = p.phase /\ q.mem = p.mem /\ q.zone = p.zone
      /\ q.slots = p.slots /\ q.failures = TRUE
  <2>1. /\ r \in RuntimesOn(p.slots) /\ r.phase = p.phase /\ r.mem = p.mem /\ r.zone = p.zone
        /\ r.slots = p.slots
    BY <1>1 DEF RuntimesOn, Less
  <2> HIDE DEF r
  <2> QED BY <2>1 DEF RuntimesOn, Failing, r
<1> HIDE DEF q
<1>3. IsRuntime(q)
  BY <1>1, <1>2 DEF IsRuntime
<1>4. Course(q)
  BY <1>1, <1>2 DEF Course, NoFile, Late, Stopping, Setup
<1>5. ASSUME Whole, NEW y \in Zones
      PROVE  Guarded(q, disk', y, MayFlow(y)', latent'[y])
  <2>1. Guarded(p, disk, y, MayFlow(y), latent[y])
    BY <1>5 DEF IInv, p
  <2>2. MayFlow(y)' = MayFlow(y) /\ latent'[y] = latent[y]
    BY DEF MayFlow
  <2>3. MayFlow(y) => Hazard(disk', y)
    BY <1>5
  <2>4. Guarded(q, disk', y, MayFlow(y), latent[y])
    BY <1>1, <1>2, <2>1, <2>3 DEF Guarded, Believes, Setup
  <2> QED BY <2>2, <2>4
<1>6. IsWorld' /\ runs' \in Nat
  BY Parts DEF IsWorld
<1> QED BY <1>1, <1>2, <1>3, <1>4, <1>5, <1>6, LiveSteps DEF Fit, SetLive

(* _persist_and_mark *)
LEMMA PersistZoneKeeps ==
  ASSUME IInv, NEW z \in Zones, PersistZone(z)
  PROVE  IInv'
<1> DEFINE p == Live
           c == p.zone[z]
           r == Less(p, z)
           new == UpdateControllerRuntime(p.mem, z, c)
           q == Written(r, new)
<1>1. /\ Live.phase = "persist" /\ UNCHANGED <<now, runs, water, seen, latent, ghost>>
      /\ \/ SetLive(Failing(p, z)) /\ UNCHANGED disk
         \/ /\ Free(c)
            /\ Save("live", new, r, [proc EXCEPT !["live"] = Failing(p, z)])
  BY DEF PersistZone, world, Less, Failing
<1>2. Fit(p) /\ IsRuntime(p) /\ c \in Fitting /\ p.phase = "persist" /\ IsWorld /\ disk \in Files
  <2>1. Fit(Live)
    BY DEF IInv
  <2> QED BY <1>1, <2>1, Parts, RuntimeTyped DEF Fit
<1>3. ASSUME Whole, NEW y \in Zones, MayFlow(y)
      PROVE  /\ Hazard(disk, y) /\ OpenPulse(p.mem.zones[y].session)
             /\ c.attached /\ y = z => OpenPulse(c.session)
  <2>1. Guarded(p, disk, y, MayFlow(y), latent[y])
    BY <1>3 DEF IInv
  <2> HIDE DEF p
  <2> QED BY <1>2, <1>3, <2>1 DEF Guarded, Wet
<1>4. CASE SetLive(Failing(p, z)) /\ UNCHANGED disk
  BY <1>1, <1>2, <1>3, <1>4, FailureKeeps
<1>5. CASE Free(c) /\ Save("live", new, r, [proc EXCEPT !["live"] = Failing(p, z)])
  <2>1. c.attached
    BY <1>5 DEF Free
  <2>2. p.mem \in Snapshots /\ \A y \in Zones : p.mem.zones[y] # NoRecord
    BY <1>2 DEF Fit, Course, NoFile, Late, Stopping
  <2>3. /\ new \in Snapshots /\ new.zones[z].session = c.session /\ new.zones[z] # NoRecord
        /\ \A y \in Zones \ {z} : new.zones[y] = p.mem.zones[y]
    BY <1>2, <2>2, UpdateTyped
  <2>4. KeepsPulses(p, new, z)
    BY <2>2, <2>3 DEF KeepsPulses, Wet
  <2>5. SetLive(q) <=> proc' = [proc EXCEPT !["live"] = [r EXCEPT !.mem = new]]
    BY DEF SetLive, Written
  <2>6. CASE disk' = Stored(new) /\ SetLive(q)
    <3>1. Even(p, r) /\ r.phase = p.phase
      <4>1. Even(p, p) /\ 0 \in Int /\ Zones \in SUBSET Zones
        BY <1>2, RuntimeTyped DEF Even
      <4> HIDE DEF p
      <4> QED BY <4>1, EvenTyped DEF Even
    <3> HIDE DEF r, new
    <3>2. /\ IsRuntime(q) /\ q.mem = new /\ q.phase = p.phase /\ q.failures = p.failures
          /\ q.slots = p.slots /\ q.zone = p.zone
      BY <2>3, <3>1, WrittenTyped DEF Even
    <3> HIDE DEF q
    <3>3. Unsaved(c) \/ OpenPulse(c.session)
      BY DEF Unsaved
    <3>4. c = p.zone[z] /\ p.phase = "persist"
      BY <1>2
    <3> HIDE DEF p, c
    <3>5. Saved(p, q, z)
      BY <2>3, <2>4, <3>2, <3>3, <3>4 DEF Saved
    <3>6. p = proc["live"] /\ "live" \in Instances
      BY DEF p, Live, Instances
    <3> QED BY <1>1, <2>1, <2>6, <3>2, <3>4, <3>5, <3>6, SaveSucceeds DEF SetLive
  <2>7. CASE disk' \in {disk, Stored(new)} /\ SetLive(Failing(p, z))
    <3>1. Stored(new) \in Snapshots /\ disk' \in Files
          /\ \A y \in Zones : OpenPulse(Stored(new).zones[y].session) = OpenPulse(new.zones[y].session)
      BY <1>2, <2>3, <2>7, StoredKeeps DEF Files
    <3>2. ASSUME Whole, NEW y \in Zones, MayFlow(y)
          PROVE  Hazard(disk', y)
      <4>1. OpenPulse(new.zones[y].session)
        BY <1>3, <2>1, <2>3, <3>2
      <4>2. Hazard(Stored(new), y)
        BY <3>1, <4>1, RecordTyped DEF Hazard
      <4> QED BY <1>3, <2>7, <3>2, <4>2
    <3> QED BY <1>1, <2>7, <3>1, <3>2, FailureKeeps
  <2> QED BY <1>5, <2>5, <2>6, <2>7 DEF Save, SetLive
<1> QED BY <1>1, <1>4, <1>5

(* async_mark_clean_shutdown, or no marker. *)
Stopped(p) == [p EXCEPT !.phase = "stopped"]

LEMMA StoppedKeeps ==
  ASSUME IInv, Live.phase = "persist", NEW q, IsRuntime(q), SetLive(q), q.phase = "stopped",
         q.zone = Live.zone, q.slots = Live.slots, q.failures = Live.failures,
         q.mem \in Snapshots, q.mem.zones = Live.mem.zones,
         disk' \in Files,
         Whole => \A y \in Zones :
           OpenPulse(Live.mem.zones[y].session) /\ Hazard(disk, y) => Hazard(disk', y),
         UNCHANGED <<now, runs, water, seen, latent, ghost>>
  PROVE  IInv'
<1> DEFINE p == Live
<1>1. Course(p) /\ p.phase = "persist"
  BY DEF IInv, Fit
<1>2. /\ q.zone = p.zone /\ q.slots = p.slots /\ q.failures = p.failures
      /\ q.mem.zones = p.mem.zones
  OBVIOUS
<1> HIDE DEF p
<1>3. Course(q)
  BY <1>1, <1>2 DEF Course, NoFile, Late, Stopping, Setup
<1>4. ASSUME Whole, NEW y \in Zones
      PROVE  Guarded(q, disk', y, MayFlow(y)', latent'[y])
  <2>1. Guarded(p, disk, y, MayFlow(y), latent[y])
    BY <1>4 DEF IInv, p
  <2>2. MayFlow(y)' = MayFlow(y) /\ latent'[y] = latent[y]
    BY DEF MayFlow
  <2>3. OpenPulse(p.mem.zones[y].session) /\ Hazard(disk, y) => Hazard(disk', y)
    BY <1>4 DEF p
  <2>4. Believes(q, y) => Believes(p, y)
    BY <1>1, <1>2 DEF Believes, NoFile
  <2>5. Guarded(q, disk', y, MayFlow(y), latent[y])
    BY <1>1, <1>2, <2>1, <2>3, <2>4 DEF Guarded, Setup
  <2> QED BY <2>2, <2>5
<1>5. IsWorld' /\ runs' \in Nat
  BY Parts DEF IsWorld
<1> QED BY <1>3, <1>4, <1>5, LiveSteps DEF Fit, SetLive

LEMMA MarkKeeps ==
  ASSUME IInv, Mark
  PROVE  IInv'
<1> DEFINE p == Live
           r == Stopped(p)
           new == MarkCleanShutdown(p.mem)
           q == Written(r, new)
<1>1. /\ Live.phase = "persist" /\ UNCHANGED <<now, runs, water, seen, latent, ghost>>
      /\ \/ Save("live", new, r, [proc EXCEPT !["live"] = r])
         \/ SetLive(r) /\ UNCHANGED disk
  BY DEF Mark, world, Stopped
<1>2. Fit(p) /\ IsRuntime(p) /\ p.phase = "persist" /\ disk \in Files
  <2>1. Fit(Live)
    BY DEF IInv
  <2> QED BY <1>1, <2>1, Parts DEF Fit
<1>3. p.mem \in Snapshots
  BY <1>2 DEF Fit, Course, NoFile
<1>4. /\ IsRuntime(r) /\ r.phase = "stopped" /\ r.zone = p.zone /\ r.slots = p.slots
      /\ r.failures = p.failures /\ r.mem = p.mem
  <2>1. p \in RuntimesOn(p.slots) /\ IsSlots(p.slots)
    BY <1>2, RuntimeTyped
  <2> HIDE DEF p
  <2>2. /\ r \in RuntimesOn(p.slots) /\ r.phase = "stopped" /\ r.zone = p.zone /\ r.slots = p.slots
        /\ r.failures = p.failures /\ r.mem = p.mem
    BY <2>1 DEF RuntimesOn, Stopped, Phases, Stopping
  <2> HIDE DEF r
  <2> QED BY <2>1, <2>2 DEF IsRuntime, r
<1>5. new \in Snapshots /\ new.zones = p.mem.zones
  <2>1. 0 \in Nat
    OBVIOUS
  <2> QED BY <1>3, <2>1, RunWritesTyped
<1>6. SetLive(q) <=> proc' = [proc EXCEPT !["live"] = [r EXCEPT !.mem = new]]
  BY DEF SetLive, Written
<1> HIDE DEF r, new
<1>7. /\ IsRuntime(q) /\ q.mem = new /\ q.phase = "stopped" /\ q.zone = p.zone
      /\ q.slots = p.slots /\ q.failures = p.failures
  BY <1>4, <1>5, WrittenTyped
<1> HIDE DEF q
<1>8. /\ Stored(new) \in Files
      /\ \A y \in Zones : OpenPulse(p.mem.zones[y].session) => Hazard(Stored(new), y)
  BY <1>5, StoredKeeps, RecordTyped DEF Hazard, Files
<1>9. CASE disk' = Stored(new) /\ SetLive(q)
  <2>1. disk' \in Files /\ \A y \in Zones :
           OpenPulse(Live.mem.zones[y].session) /\ Hazard(disk, y) => Hazard(disk', y)
    BY <1>8, <1>9
  <2>2. /\ q.zone = Live.zone /\ q.slots = Live.slots /\ q.failures = Live.failures
        /\ q.mem \in Snapshots /\ q.mem.zones = Live.mem.zones
    BY <1>5, <1>7
  <2> QED BY <1>1, <1>7, <1>9, <2>1, <2>2, StoppedKeeps
<1>10. CASE disk' \in {disk, Stored(new)} /\ SetLive(r)
  <2>1. disk' \in Files /\ \A y \in Zones :
           OpenPulse(Live.mem.zones[y].session) /\ Hazard(disk, y) => Hazard(disk', y)
    BY <1>2, <1>8, <1>10
  <2>2. /\ r.zone = Live.zone /\ r.slots = Live.slots /\ r.failures = Live.failures
        /\ r.mem \in Snapshots /\ r.mem.zones = Live.mem.zones
    BY <1>3, <1>4
  <2> QED BY <1>1, <1>4, <1>10, <2>1, <2>2, StoppedKeeps
<1> QED BY <1>1, <1>6, <1>9, <1>10 DEF Save, SetLive

(* async_detach *)
LEMMA DetachZoneKeeps ==
  ASSUME IInv, NEW z \in Zones, DetachZone(z)
  PROVE  IInv'
<1> DEFINE p == Live
           c == p.zone[z]
           cut == [Quiesce(c) EXCEPT !.waiting = FALSE, !.onRequested = FALSE]
<1>1. /\ Live.phase = "unload" /\ c.attached
      /\ UNCHANGED <<now, disk, runs, water, seen, latent, ghost>>
      /\ \/ SetZone("live", z, Abort(Live, z, cut))
         \/ SetZone("live", z, Detached)
  BY DEF DetachZone, world
<1>2. Fit(p) /\ IsRuntime(p) /\ c \in Fitting /\ p.phase = "unload" /\ IsWorld
  <2>1. Fit(Live)
    BY DEF IInv
  <2> QED BY <1>1, <2>1, Parts, RuntimeTyped DEF Fit
<1>3. "live" \in Instances /\ p = proc["live"]
  BY DEF Instances, Live
<1>4. CASE SetZone("live", z, Abort(Live, z, cut))
  <2> DEFINE d == Quiesce(c)
  <2>1. Follows(c, d) /\ d \in Fitting /\ d.attached /\ d \in Controllers
    BY <1>1, <1>2, QuiesceFollows, FittingFits DEF Follows
  <2>2. SetZone("live", z, Abort(p, z, cut))
    BY <1>4
  <2> HIDE DEF d, p
  <2>3. Alike(d, [d EXCEPT !.waiting = FALSE, !.onRequested = FALSE])
    BY <2>1 DEF Alike, Controllers
  <2>4. Follows(d, cut)
    BY <2>1, <2>3, AlikeFollows DEF d
  <2>5. cut \in Fitting /\ cut.attached
    BY <2>1, <2>4 DEF Follows
  <2> HIDE DEF cut
  <2>6. Follows(cut, Abort(p, z, cut))
    BY <1>2, <2>5, AbortFollows
  <2>7. Follows(c, Abort(p, z, cut))
    BY <2>1, <2>4, <2>6, FollowsOn
  <2> QED BY <1>1, <1>3, <2>2, <2>7, ControllerMoves
<1>5. CASE SetZone("live", z, Detached)
  <2> DEFINE q == Put(p, z, Detached)
  <2>1. SetLive(q)
    BY <1>3, <1>5, PutBack
  <2>2. Detached \in Fitting /\ ~Detached.attached
    BY DetachedFits
  <2> HIDE DEF p
  <2>3. /\ IsRuntime(q) /\ SameCourse(p, q) /\ q.slots = p.slots /\ q.zone[z] = Detached
        /\ \A y \in Zones \ {z} : q.zone[y] = p.zone[y]
    BY <1>2, <2>2, ZonePut
  <2> HIDE DEF q
  <2>4. /\ q.phase = "unload" /\ q.mem = p.mem /\ q.failures = p.failures
        /\ ~q.zone[z].attached /\ p.phase = "unload" /\ Course(p)
    BY <1>2, <2>2, <2>3 DEF SameCourse, Fit
  <2>5. Course(q)
    BY <2>3, <2>4 DEF Course, NoFile, Late, Stopping, Setup
  <2>6. \A y \in Zones : y # z => q.zone[y] = p.zone[y]
    BY <2>3
  <2>7. \A y \in Zones : /\ Believes(q, y) => Believes(p, y)
                         /\ q.zone[y].attached => q.zone[y] = p.zone[y]
    BY <2>4, <2>6 DEF Believes, NoFile
  <2> QED BY <1>1, <2>1, <2>3, <2>4, <2>5, <2>7, LiveGoes DEF Fit, p, Setup
<1> QED BY <1>1, <1>4, <1>5

LEMMA UnloadedKeeps ==
  ASSUME IInv, Unloaded
  PROVE  IInv'
<1>1. /\ SetLive(Down) /\ UNCHANGED <<now, disk, runs, water, seen, latent, ghost>>
  BY DEF Unloaded, world
<1>2. ASSUME Whole, NEW y \in Zones
      PROVE  Guarded(Down, disk', y, MayFlow(y)', latent'[y])
  <2>1. Guarded(Live, disk, y, MayFlow(y), latent[y])
    BY <1>2 DEF IInv
  <2>2. MayFlow(y)' = MayFlow(y) /\ latent'[y] = latent[y] /\ disk' = disk
    BY <1>1 DEF MayFlow
  <2>3. MayFlow(y) => Hazard(disk, y)
    BY <2>1 DEF Guarded
  <2> DEFINE flow == MayFlow(y)
             lat == latent[y]
  <2>4. flow => Hazard(disk, y)
    BY <2>3
  <2> HIDE DEF flow, lat
  <2>5. Guarded(Down, disk, y, flow, lat)
    BY <2>4, DownFits
  <2> QED BY <2>2, <2>5 DEF flow, lat
<1>3. Fit(Down) /\ Down.phase # "orphaned"
  BY DownFits
<1> HIDE DEF Down
<1> QED BY <1>1, <1>2, <1>3, Parts, LiveSteps DEF SetLive, IsWorld

(* Every runtime is gone, and what they did not finish stays history. *)
LEMMA GoneKeeps ==
  ASSUME IInv, proc' = Gone, UNCHANGED <<now, disk, runs, water, seen, latent>>,
         DOMAIN ghost' = DOMAIN ghost, ghost'.lost = ghost.lost,
         ghost'.orphaned = (ghost.orphaned \/ ~NoOrphan)
  PROVE  IInv'
<1>1. proc'["live"] = Down /\ proc'["orphan"] = Down /\ DOMAIN proc' = Instances
  BY DEF Gone, Instances
<1>2. Fit(Down) /\ Down.phase = "down"
  BY DownFits
<1>3. Whole' => Whole
  BY DEF Whole, NoOrphan
<1>4. ASSUME Whole', NEW y \in Zones
      PROVE  Guarded(Down, disk', y, MayFlow(y)', latent'[y])
  <2>1. Guarded(Live, disk, y, MayFlow(y), latent[y])
    BY <1>3, <1>4 DEF IInv
  <2>2. MayFlow(y)' = MayFlow(y) /\ latent'[y] = latent[y] /\ disk' = disk
    BY DEF MayFlow
  <2> DEFINE flow == MayFlow(y)
             lat == latent[y]
  <2>3. flow => Hazard(disk, y)
    BY <2>1 DEF Guarded
  <2> HIDE DEF flow, lat
  <2>4. Guarded(Down, disk, y, flow, lat)
    BY <2>3, DownFits
  <2> QED BY <2>2, <2>4 DEF flow, lat
<1> HIDE DEF Down
<1> QED BY <1>1, <1>2, <1>4 DEF IInv, IsWorld, Live

LEMMA EndsKeep ==
  ASSUME IInv, ProcessEnds \/ Crash
  PROVE  IInv'
<1>1. {"lost", "orphaned"} \subseteq DOMAIN ghost
  BY DEF IInv
<1>2. CASE ProcessEnds
  <2>1. /\ proc' = Gone /\ UNCHANGED <<now, disk, runs, water, seen, latent>>
        /\ ghost' = [ghost EXCEPT !.orphaned = @ \/ ~NoOrphan]
    BY <1>2 DEF ProcessEnds, world
  <2>2. /\ DOMAIN ghost' = DOMAIN ghost /\ ghost'.lost = ghost.lost
        /\ ghost'.orphaned = (ghost.orphaned \/ ~NoOrphan)
    BY <1>1, <2>1
  <2> QED BY <2>1, <2>2, GoneKeeps
<1>3. CASE Crash
  <2> DEFINE dead == ghost.dead \cup IF Live.phase = "stopped" THEN {} ELSE {Live.run}
  <2>1. /\ proc' = Gone /\ UNCHANGED <<now, disk, runs, water, seen, latent>>
        /\ ghost' = [ghost EXCEPT !.dead = dead, !.orphaned = @ \/ ~NoOrphan]
    BY <1>3 DEF Crash, world
  <2> HIDE DEF dead
  <2>2. /\ DOMAIN ghost' = DOMAIN ghost /\ ghost'.lost = ghost.lost
        /\ ghost'.orphaned = (ghost.orphaned \/ ~NoOrphan)
    BY <1>1, <2>1
  <2> QED BY <2>1, <2>2, GoneKeeps
<1> QED BY <1>2, <1>3

(* Time passes, Core saves the flag, or nothing happens. *)
LEMMA TimeKeeps ==
  ASSUME IInv, FlushFlag \/ Tick \/ UNCHANGED vars
  PROVE  IInv'
<1>1. UNCHANGED <<disk, proc, runs, water, seen, latent, ghost>> /\ now' \in Nat
  BY Parts DEF FlushFlag, Tick, vars, world, IsWorld
<1>2. \A y \in Zones : MayFlow(y)' = MayFlow(y) /\ latent'[y] = latent[y]
  BY <1>1 DEF MayFlow
<1>3. Live' = Live /\ Whole' = Whole
  BY <1>1 DEF Live, Whole, NoOrphan
<1>4. ASSUME Whole', NEW y \in Zones
      PROVE  Guarded(Live', disk', y, MayFlow(y)', latent'[y])
  <2>1. Guarded(Live, disk, y, MayFlow(y), latent[y])
    BY <1>3, <1>4 DEF IInv
  <2> QED BY <1>1, <1>2, <1>3, <2>1
<1> QED BY <1>1, <1>3, <1>4 DEF IInv, IsWorld, Live

(* The file is lost while no runtime is there. *)
LEMMA DamageKeeps ==
  ASSUME IInv, Damage
  PROVE  IInv'
<1>1. /\ UNCHANGED <<now, proc, runs, water, seen, latent>> /\ disk' \in {Absent, Damaged}
      /\ ghost' = [ghost EXCEPT !.lost = TRUE, !.told = flag.saved \/ disk' = Damaged]
  BY DEF Damage, world
<1>2. {"lost", "orphaned"} \subseteq DOMAIN ghost
  BY DEF IInv
<1>3. DOMAIN ghost' = DOMAIN ghost /\ ghost'.lost = TRUE
  BY <1>1, <1>2
<1>4. ~Whole'
  BY <1>3 DEF Whole
<1>5. disk' \in Files
  BY <1>1 DEF Files
<1> QED BY <1>1, <1>3, <1>4, <1>5 DEF IInv, IsWorld, Live

-----------------------------------------------------------------------------
(* Every step. *)

LEMMA ZoneStepKeeps ==
  ASSUME IInv, NEW i \in Instances, NEW z \in Zones, ZoneStep(i, z)
  PROVE  IInv'
BY PerformKeeps, DeliverKeeps, OfferedKeeps, TimerFiresKeeps, PerformOnKeeps, PerformOffKeeps,
   ReportKeeps, OnReturnsKeeps, OffEndsKeeps DEF ZoneStep, Runs

LEMMA RuntimeStepKeeps ==
  ASSUME IInv, RuntimeStep
  PROVE  IInv'
<1>1. CASE StopStep
  BY <1>1, MarkKeeps, EndsKeep, SignalZoneKeeps, AwaitZoneKeeps, PersistZoneKeeps DEF StopStep
<1>2. CASE Start \/ FirstInit \/ Rebuild \/ BeginRun \/ Records
  BY <1>2, StartKeeps, FirstInitKeeps, BeginRunKeeps, RecordsKeeps
<1>3. CASE StopBegins \/ UnloadBegins \/ Unloaded
  BY <1>3, StopBeginsKeeps, StopProceedsKeeps, UnloadedKeeps
<1>4. ASSUME NEW z \in Zones, \/ AttachZone(z) \/ RereadZone(z) \/ UnloadZone(z)
                              \/ DetachZone(z) \/ UserCommands(z)
      PROVE  IInv'
  BY <1>4, AttachZoneKeeps, RereadZoneKeeps, UnloadZoneKeeps, DetachZoneKeeps, UserCommandsKeeps
<1> QED BY <1>1, <1>2, <1>3, <1>4 DEF RuntimeStep

LEMMA NextKeeps ==
  ASSUME IInv, [Next]_vars
  PROVE  IInv'
<1>1. CASE Continues
  BY <1>1, SetupProceedsKeeps, StopProceedsKeeps, RunsOnKeeps DEF Continues
<1>2. ASSUME NEW i \in Instances, NEW z \in Zones, ZoneStep(i, z)
      PROVE  IInv'
  BY <1>2, ZoneStepKeeps
<1>3. CASE RuntimeStep
  BY <1>3, RuntimeStepKeeps
<1>4. ASSUME NEW z \in Zones, WorldStep(z)
      PROVE  IInv'
  BY <1>4, WorldKeeps
<1>5. CASE Crash \/ FlushFlag \/ Damage \/ Tick \/ TimeIsUp
  BY <1>5, EndsKeep, TimeKeeps, DamageKeeps DEF TimeIsUp
<1>6. CASE UNCHANGED vars
  BY <1>6, TimeKeeps
<1> QED BY <1>1, <1>2, <1>3, <1>4, <1>5, <1>6 DEF Next
-----------------------------------------------------------------------------
(* At first no runtime is there and no valve is open. *)

LEMMA ReadyTyped == Ready \in FullRecords
<1>1. NewRecord \in FullRecords /\ NewRecord.session = NoSession /\ "IDLE" \in States
  BY NewRecordTyped DEF States
<1> HIDE DEF NewRecord
<1>2. /\ Ready.state = "IDLE" /\ Ready.session = NewRecord.session
      /\ Ready \in [state : States, enabled : BOOLEAN, session : Sessions, run : Nat,
                    fault : FaultOrNone, daily : Int, lastEnd : Int,
                    blockers : SUBSET BlockerReasons, flowOwner : FlowOwners]
  BY <1>1 DEF Ready, FullRecords
<1> HIDE DEF Ready
<1>3. Sound(Ready.state, Ready.session)
  BY <1>1, <1>2 DEF Sound
<1> QED BY <1>2, <1>3 DEF FullRecords

LEMMA InitFits ==
  ASSUME Init
  PROVE  IInv
<1>1. /\ now = 0 /\ runs = 1 /\ proc = Gone
      /\ water = [z \in Zones |-> "closed"] /\ seen = [z \in Zones |-> TRUE]
      /\ latent = [z \in Zones |-> FALSE]
      /\ {"lost", "orphaned"} \subseteq DOMAIN ghost
      /\ disk = Absent \/ disk = Snapshot(1, 1, [z \in Zones |-> Ready])
  BY DEF Init
<1>2. IsWorld /\ runs \in Nat
  BY <1>1 DEF IsWorld
<1>3. disk \in Files
  <2>1. [z \in Zones |-> Ready] \in [Zones -> ZoneRecords]
    BY ReadyTyped DEF ZoneRecords
  <2> DEFINE zones == [z \in Zones |-> Ready]
  <2> HIDE DEF zones
  <2>2. zones \in [Zones -> ZoneRecords] => Snapshot(1, 1, zones) \in Files
    BY DEF Snapshot, Snapshots, Files
  <2> QED BY <1>1, <2>1, <2>2 DEF Files, zones
<1>4. Live = Down /\ proc["orphan"] = Down /\ DOMAIN proc = Instances
  BY <1>1 DEF Gone, Instances, Live
<1>5. Fit(Down) /\ Down.phase = "down"
  BY DownFits
<1>6. ASSUME NEW z \in Zones
      PROVE  Guarded(Live, disk, z, MayFlow(z), latent[z])
  <2>1. MayFlow(z) = FALSE
    BY <1>1 DEF MayFlow
  <2> DEFINE lat == latent[z]
  <2> HIDE DEF lat
  <2>2. Guarded(Down, disk, z, FALSE, lat)
    BY DownFits
  <2> QED BY <1>4, <2>1, <2>2 DEF lat
<1> HIDE DEF Down
<1> QED BY <1>1, <1>2, <1>3, <1>4, <1>5, <1>6 DEF IInv

(* What the invariant says. *)

LEMMA TypesFollow ==
  ASSUME IInv
  PROVE  TypeOK
<1>1. IsWorld /\ disk \in Files
  BY Parts
<1>2. disk.status \in {"absent", "damaged", "valid"}
  BY <1>1 DEF Files, Absent, Damaged, Snapshots
<1>3. ASSUME NEW i \in Instances, NEW z \in Zones
      PROVE  LET c == proc[i].zone[z] IN
             /\ c.state \in States /\ c.fault \in Faults \cup {NoFault}
             /\ c.on \in {"none", "call", "commit"}
             /\ c.off \in {"none", "running", "reporting", "proven", "failed"}
             /\ c.session # NoSession =>
                  /\ c.session.pending \in Reasons \cup {NoReason}
                  /\ c.session.cycle \in 1 .. MaxCycles
             /\ c.state \in {"WATERING", "SOAKING"} => c.session # NoSession
  <2> DEFINE c == proc[i].zone[z]
  <2>1. c \in Fitting
    BY Parts, RuntimeTyped
  <2> HIDE DEF c
  <2>2. c \in Controllers /\ Sound(c.state, c.session) /\ c.session \in Sessions
    BY <2>1, FittingFits
  <2>3. c.session # NoSession => c.session.pending \in Reasons \cup {NoReason}
    BY <2>2 DEF Sessions, OpenSessions, ReasonOrNone
  <2>4. /\ c.state \in States /\ c.fault \in Faults \cup {NoFault}
        /\ c.on \in {"none", "call", "commit"}
        /\ c.off \in {"none", "running", "reporting", "proven", "failed"}
    BY <2>2 DEF Controllers, FaultOrNone
  <2> QED BY <2>2, <2>3, <2>4 DEF Sound, OpenPulse, c
<1> QED BY <1>1, <1>2, <1>3 DEF TypeOK, IsWorld

LEMMA HazardFollows ==
  ASSUME IInv
  PROVE  HazardOnDisk
<1> SUFFICES ASSUME NEW z \in Zones, MayFlow(z), NoOrphan, ~ghost.lost
             PROVE  disk.status = "valid" /\ OpenPulse(disk.zones[z].session)
  BY DEF HazardOnDisk
<1>1. Guarded(Live, disk, z, MayFlow(z), latent[z])
  BY DEF IInv, Whole
<1> QED BY <1>1 DEF Guarded, Hazard

-----------------------------------------------------------------------------
(* For every number of zones and every configuration.                      *)

(* Through every start, stop, crash, failing write and disturbance, the    *)
(* Store in memory, the file, the controllers and the valves fit together. *)
THEOREM Invariance == Spec => []IInv
<1>1. Init => IInv
  BY InitFits
<1>2. IInv /\ [Next]_vars => IInv'
  BY NextKeeps
<1> QED BY <1>1, <1>2, PTL DEF Spec

(* Every controller has its types, also of a runtime whose setup failed,   *)
(* and owns a session, of at most max_cycles pulses, whenever it is        *)
(* WATERING or SOAKING (ZoneController._apply_locked).                     *)
THEOREM TypeCorrect == Spec => []TypeOK
BY Invariance, TypesFollow, PTL

(* While water may flow by our order, the file has a session with an open  *)
(* pulse to account it by, whenever the process dies (_perform_on,         *)
(* _await_off_within_budget, _reconcile_zone).                             *)
THEOREM HazardIsOnDisk == Spec => []HazardOnDisk
BY Invariance, HazardFollows, PTL
=============================================================================
