---------------------------- MODULE SafetyStore ----------------------------
(***************************************************************************)
(* The contents of the runtime safety Store (storage.py) and every         *)
(* transaction on them, as operators.  A snapshot holds the run ids and    *)
(* per zone the SafetyRecord with the ZoneHistory it points to, for zones  *)
(* whose configuration does not change (SafetyRecords has the ones that    *)
(* do).  Revision and generation ids guard against foreign files; a file   *)
(* that fails any such check is "damaged" here.                            *)
(***************************************************************************)
EXTENDS StateMachine

NoRun == 0

NotProvenOff == "actuator_not_proven_off"
OffUnconfirmed == "integration_off_unconfirmed"
ExternalKey == "external_flow"
BlockerReasons == {NotProvenOff, OffUnconfirmed, ExternalKey}

FlowOwners == {"none", "INTEGRATION", "EXTERNAL"}

(* No record: the zone was never part of a reconciled snapshot. *)
NoRecord == [state |-> "none", session |-> NoSession, blockers |-> {}, flowOwner |-> "none"]

(* A new logical zone starts disabled. *)
NewRecord ==
    [state |-> "DISABLED", enabled |-> FALSE, session |-> NoSession, run |-> NoRun,
     fault |-> NoFault, daily |-> 0, lastEnd |-> NoTime, blockers |-> {},
     flowOwner |-> "none"]

(* Integrity loss: nothing is known, so today's budget counts as spent and *)
(* the zone waits for OFF proof and for an acknowledgement.                *)
LostRecord ==
    [NewRecord EXCEPT !.state = "FAULT", !.enabled = TRUE, !.daily = MaxDailyRuntime,
                      !.fault = "RESTORED_FROM_UNSAFE_STATE", !.blockers = {NotProvenOff}]

Absent == [status |-> "absent"]
Damaged == [status |-> "damaged"]
Snapshot(active, clean, zones) ==
    [status |-> "valid", active |-> active, clean |-> clean, zones |-> zones]

FirstInitialize(zones) == Snapshot(NoRun, NoRun, [z \in zones |-> NoRecord])
ReconstructAfterIntegrityLoss(zones) == Snapshot(NoRun, NoRun, [z \in zones |-> LostRecord])

(* Slip: an unreadable file counts as a first install. *)
ClassifyForgetting(file, initialized) ==
    CASE file.status # "valid" -> "FIRST_INSTALL"
      [] file.status = "valid" /\ initialized -> "INITIALIZED_OK"
      [] OTHER -> "INTERRUPTED_INITIALIZATION"

ClassifySetup(file, initialized) ==
    CASE file.status = "absent" -> IF initialized THEN "INTEGRITY_LOSS" ELSE "FIRST_INSTALL"
      [] file.status = "damaged" -> "INTEGRITY_LOSS"
      [] OTHER -> IF initialized THEN "INITIALIZED_OK" ELSE "INTERRUPTED_INITIALIZATION"

(* What the file keeps of a session: the committed reason, the freshness   *)
(* deadline and the watchdog's generation live only in memory.             *)
StoredSession(s) ==
    IF s = NoSession THEN s
    ELSE [s EXCEPT !.pending = NoReason, !.freshUntil = NoTime, !.generation = 0]

Stored(data) ==
    [data EXCEPT !.zones = [z \in DOMAIN data.zones |->
        [data.zones[z] EXCEPT !.session = StoredSession(@)]]]

-----------------------------------------------------------------------------
(* The transactions. *)

BeginNewRun(data, run) == [data EXCEPT !.active = run]
MarkCleanShutdown(data) == [data EXCEPT !.clean = data.active]
PreviousRunWasClean(data) == data.active # NoRun /\ data.active = data.clean

OpenPulse(s) == s # NoSession /\ s.intent # NoTime /\ s.offAt = NoTime

(* Whose water may flow, as the controller's own write records it. *)
PossibleFlowOwner(c, blockers) ==
    CASE OpenPulse(c.session) \/ OffUnconfirmed \in blockers -> "INTEGRATION"
      [] ~OpenPulse(c.session) /\ OffUnconfirmed \notin blockers
           /\ (c.externalOn \/ ExternalKey \in blockers) -> "EXTERNAL"
      [] OTHER -> "none"

UpdateControllerRuntime(data, z, c) ==
    [data EXCEPT !.zones[z] =
       [@ EXCEPT !.state = c.state, !.enabled = c.enabled, !.session = c.session,
                 !.run = c.run, !.fault = c.fault, !.daily = c.daily,
                 !.lastEnd = c.lastEnd,
                 !.flowOwner = PossibleFlowOwner(c, data.zones[z].blockers)]]

(* One blocker key.  The possible-flow owner follows the key, or what is   *)
(* left of the others.                                                     *)
FlowOwnerAfter(rec, blockers, reason, active) ==
    CASE active -> IF reason = ExternalKey THEN "EXTERNAL"
                   ELSE IF reason = OffUnconfirmed THEN "INTEGRATION" ELSE rec.flowOwner
      [] ~active /\ OffUnconfirmed \in blockers -> "INTEGRATION"
      [] ~active /\ OffUnconfirmed \notin blockers /\ ExternalKey \in blockers -> "EXTERNAL"
      [] OTHER -> "none"

SetRecordBlocker(data, z, reason, active) ==
    LET rec == data.zones[z]
        blockers == IF active THEN rec.blockers \cup {reason} ELSE rec.blockers \ {reason}
    IN  IF blockers = rec.blockers THEN data
        ELSE [data EXCEPT !.zones[z].blockers = blockers,
                          !.zones[z].flowOwner = FlowOwnerAfter(rec, blockers, reason, active)]

RebaseSoakingOwner(data, z, run) == [data EXCEPT !.zones[z].run = run]

-----------------------------------------------------------------------------
(* The reconciliation of one record with what its actuator shows. *)

ReconcileActive(rec, a) ==
    LET open == rec.session # NoSession
        cleared == rec.blockers \ {NotProvenOff, ExternalKey}
    IN  CASE a.provenOff ->
               [rec EXCEPT !.blockers = cleared,
                           !.flowOwner = IF ~open /\ OffUnconfirmed \notin cleared
                                         THEN "none" ELSE @]
          [] ~a.provenOff /\ a.observedOn /\ ~open ->
               [rec EXCEPT !.blockers = @ \cup {ExternalKey}, !.flowOwner = "EXTERNAL"]
          [] OTHER -> [rec EXCEPT !.blockers = @ \cup {NotProvenOff}]

(* A session whose OFF was exhausted gets its live-only reason back. *)
RestoreTerminalReason(rec) ==
    IF /\ rec.session # NoSession /\ rec.session.pending = NoReason
       /\ rec.state = "FAULT" /\ rec.fault = "ACTUATOR_OFF_TIMEOUT"
    THEN [rec EXCEPT !.session.pending = "ACTUATOR_FAULT"] ELSE rec

(* Zones of an unchanged configuration: each keeps its record, or gets a   *)
(* new one; assess gives each zone's actuator.                             *)
PlanReconciledStore(data, assess) ==
    [data EXCEPT !.zones = [z \in DOMAIN data.zones |->
       ReconcileActive(IF data.zones[z] = NoRecord THEN NewRecord
                       ELSE RestoreTerminalReason(data.zones[z]),
                       assess[z])]]
=============================================================================
