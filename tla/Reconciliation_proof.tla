------------------------ MODULE Reconciliation_proof ------------------------
(***************************************************************************)
(* Proofs about the reconciliation coordinator, for any set of subentries, *)
(* any settings and any number of notifications.  The safety properties    *)
(* rest on three facts that no single one of them states: the worker never *)
(* runs ahead of what was observed, a clear barrier means that nothing is  *)
(* under way, and a reload is always covered by its decision.              *)
(***************************************************************************)
EXTENDS Reconciliation, TLAPS

(* The worker holds a generation between the applied and the observed one, *)
(* and if it is the observed one, its very snapshot (is_current).          *)
WorkerBehind ==
    /\ applied.gen <= observed.gen
    /\ worker # None =>
         /\ applied.gen <= worker.gen /\ worker.gen <= observed.gen
         /\ worker.gen = observed.gen => worker.target = observed.snap

(* Only publication opens the barrier, and whatever invalidates it closes  *)
(* the barrier in the same step.                                           *)
ClearIsSettled ==
    barrier = Clear =>
        /\ worker = None /\ ~stopping
        /\ setup = "new" \/ (observed = applied /\ observed.snap # None)

(* A queued or running reload keeps its decision pending; it is one or the *)
(* other, and a queued one is not the one that failed (_queue_reload,      *)
(* _cancel_pending_reload, prior_reload_failure).                          *)
ReloadCovered ==
    /\ reload.handle =>
         reload.pending /\ reload.task = None /\ reload.fp # reload.failedFp
    /\ reload.task # None => reload.pending

IInv == TypeOK /\ WorkerBehind /\ ClearIsSettled /\ ReloadCovered

-----------------------------------------------------------------------------
(* A configuration is neither the absent nor the unreadable one. *)
LEMMA ConfigurationsProper ==
    None \notin Configurations /\ Unreadable \notin Configurations
BY ReconciliationAssumption DEF Configurations

(* What an observation is. *)
LEMMA ObservationType ==
    ASSUME NEW gen \in Nat, mapping \in Configurations \cup {Unreadable}
    PROVE  Observation(gen) \in [gen : Nat, snap : Snapshots]
BY DEF Observation, Snapshots

(* Observing closes the barrier and moves ahead of the worker. *)
LEMMA ObserveSound ==
    ASSUME IInv, Observe
    PROVE  /\ observed' \in [gen : Nat, snap : Snapshots]
           /\ observed'.gen = observed.gen + 1
           /\ flags' \in [dirty : BOOLEAN, reconciling : BOOLEAN, failed : BOOLEAN]
           /\ barrier' \in [dirty : BOOLEAN, reconciling : BOOLEAN, failed : BOOLEAN]
           /\ barrier' # Clear
  <1>1. observed' \in [gen : Nat, snap : Snapshots]
    BY ObservationType DEF IInv, TypeOK, Observe
  <1>2. observed'.gen = observed.gen + 1
    BY DEF Observe, Observation
  <1>3. /\ flags' \in [dirty : BOOLEAN, reconciling : BOOLEAN, failed : BOOLEAN]
        /\ barrier' \in [dirty : BOOLEAN, reconciling : BOOLEAN, failed : BOOLEAN]
        /\ barrier'.dirty = TRUE
    BY DEF IInv, TypeOK, Observe
  <1>4. barrier' # Clear
    BY <1>3 DEF Clear, Status
  <1> QED
    BY <1>1, <1>2, <1>3, <1>4

(* A status is a record of three flags. *)
LEMMA StatusType ==
    ASSUME NEW d \in BOOLEAN, NEW r \in BOOLEAN, NEW f \in BOOLEAN
    PROVE  Status(d, r, f) \in [dirty : BOOLEAN, reconciling : BOOLEAN, failed : BOOLEAN]
BY DEF Status

(* Failing closes the barrier. *)
LEMMA FailSound ==
    ASSUME Fail
    PROVE  /\ flags' \in [dirty : BOOLEAN, reconciling : BOOLEAN, failed : BOOLEAN]
           /\ barrier' \in [dirty : BOOLEAN, reconciling : BOOLEAN, failed : BOOLEAN]
           /\ barrier' # Clear
BY DEF Fail, Status, Clear

(* The end of the worker, whoever ran it. *)
LEMMA WorkerEndsSound ==
    ASSUME NEW owner, WorkerEnds(owner), setup \in Stages,
           flags' \in [dirty : BOOLEAN, reconciling : BOOLEAN, failed : BOOLEAN]
    PROVE  worker' = None /\ issue' \in BOOLEAN /\ setup' \in Stages
BY DEF WorkerEnds, MirrorRepairs, Stages

(* The head of the loop: the barrier is closed, the worker is none or holds *)
(* the latest observation.                                                  *)
LEMMA TakeLatestSound ==
    ASSUME NEW owner \in {"setup", "listener"},
           NEW latest \in [gen : Nat, snap : Snapshots],
           setup \in Stages, issue \in BOOLEAN, TakeLatest(owner, latest)
    PROVE  /\ flags' \in [dirty : BOOLEAN, reconciling : BOOLEAN, failed : BOOLEAN]
           /\ barrier' \in [dirty : BOOLEAN, reconciling : BOOLEAN, failed : BOOLEAN]
           /\ barrier' # Clear
           /\ issue' \in BOOLEAN /\ setup' \in Stages
           /\ worker' \in {None} \cup
                [owner : {"setup", "listener"}, gen : Nat, target : Configurations]
           /\ worker' # None => worker'.gen = latest.gen /\ worker'.target = latest.snap
  <1>1. CASE latest.snap # None /\ Iterate(owner, latest)
    BY <1>1 DEF Iterate, Status, Clear, Stages, Snapshots
  <1>2. CASE latest.snap = None /\ Fail /\ WorkerEnds(owner)
    BY <1>2, FailSound, WorkerEndsSound
  <1> QED
    BY <1>1, <1>2 DEF TakeLatest

-----------------------------------------------------------------------------
(* A new coordinator satisfies the invariant. *)
LEMMA InitIInv == Init => IInv
  <1> SUFFICES ASSUME Init PROVE IInv
    OBVIOUS
  <1>1. TypeOK
    BY DEF Init, TypeOK, Clear, Status, Stages, Snapshots
  <1>2. WorkerBehind /\ ClearIsSettled /\ ReloadCovered
    BY DEF Init, WorkerBehind, ClearIsSettled, ReloadCovered
  <1> QED
    BY <1>1, <1>2 DEF IInv

(* Publication: the only step that may open the barrier. *)
LEMMA PublishSound ==
    ASSUME IInv, worker # None, ~stopping, observed.gen = worker.gen,
           mapping = worker.target, Publish(worker),
           UNCHANGED <<mapping, calls, stopping>>
    PROVE  IInv'
  <1> USE DEF IInv
  <1>0. /\ worker \in [owner : {"setup", "listener"}, gen : Nat, target : Configurations]
        /\ worker.target = observed.snap /\ worker.target # None
    BY ConfigurationsProper DEF TypeOK, WorkerBehind
  <1>1. /\ applied' = observed /\ applied' \in [gen : Nat, snap : Snapshots]
        /\ UNCHANGED observed
    BY <1>0 DEF Publish, TypeOK
  <1>2. platform' \in Snapshots
    BY <1>0 DEF Publish, TypeOK, Snapshots
  <1>3. /\ flags' \in [dirty : BOOLEAN, reconciling : BOOLEAN, failed : BOOLEAN]
        /\ barrier' \in [dirty : BOOLEAN, reconciling : BOOLEAN, failed : BOOLEAN]
    <2>1. CASE Fail
      BY <2>1, FailSound
    <2>2. CASE flags' = Clear /\ (barrier' = Clear \/ barrier' = Status(TRUE, FALSE, FALSE))
      BY <2>2, StatusType DEF Clear
    <2> QED
      BY <2>1, <2>2 DEF Publish
  <1>4. worker' = None /\ issue' \in BOOLEAN /\ setup' \in Stages
    <2>1. WorkerEnds(worker.owner)
      BY DEF Publish
    <2> QED
      BY <1>3, <2>1, WorkerEndsSound DEF TypeOK
  <1>5. /\ reload' \in [pending : BOOLEAN, gen : Nat, fp : Snapshots,
                        handle : BOOLEAN, task : Snapshots, failedFp : Snapshots]
        /\ ReloadCovered'
    <2>1. \/ reload' = reload
          \/ reload' = Queued(reload, worker) /\ reload.failedFp # worker.target
          \/ reload' = Cancelled(reload)
      BY DEF Publish, FailedBefore
    <2>2. CASE reload' = reload
      BY <2>2 DEF TypeOK, ReloadCovered
    <2>3. CASE reload' = Queued(reload, worker) /\ reload.failedFp # worker.target
      BY <1>0, <2>3 DEF Queued, TypeOK, ReloadCovered, Snapshots
    <2>4. CASE reload' = Cancelled(reload)
      BY <2>4 DEF Cancelled, TypeOK, ReloadCovered, Snapshots
    <2> QED
      BY <2>1, <2>2, <2>3, <2>4
  <1>6. TypeOK'
    BY <1>1, <1>2, <1>3, <1>4, <1>5 DEF TypeOK
  <1>7. WorkerBehind' /\ ClearIsSettled'
    BY <1>0, <1>1, <1>4 DEF WorkerBehind, ClearIsSettled, TypeOK
  <1> QED
    BY <1>5, <1>6, <1>7

(* Every step of the coordinator keeps the invariant. *)
LEMMA StepIInv == IInv /\ [Next]_vars => IInv'
  <1> SUFFICES ASSUME IInv, [Next]_vars PROVE IInv'
    OBVIOUS
  <1> USE DEF IInv
  <1>1. CASE Initialize
    <2>1. Observe
      BY <1>1 DEF Initialize
    <2>2. setup' \in Stages
      BY <1>1 DEF Initialize, Stages
    <2>3. TypeOK'
      BY <1>1, <2>1, <2>2, ObserveSound DEF Initialize, TypeOK
    <2>4. WorkerBehind' /\ ClearIsSettled' /\ ReloadCovered'
      BY <1>1, <2>1, ObserveSound
         DEF Initialize, TypeOK, WorkerBehind, ClearIsSettled, ReloadCovered
    <2> QED
      BY <2>3, <2>4
  <1>2. CASE Start
    <2>1. /\ UNCHANGED <<mapping, applied, calls, platform, reload, stopping>>
          /\ setup = "loading"
      BY <1>2 DEF Start
    <2>2. CASE stopping /\ Observe /\ WorkerEnds("setup")
      <3>1. worker' = None /\ issue' \in BOOLEAN /\ setup' \in Stages
        BY <2>2, ObserveSound, WorkerEndsSound DEF TypeOK
      <3>2. TypeOK'
        BY <2>1, <2>2, <3>1, ObserveSound DEF TypeOK
      <3>3. WorkerBehind' /\ ClearIsSettled' /\ ReloadCovered'
        BY <2>1, <2>2, <3>1, ObserveSound
           DEF TypeOK, WorkerBehind, ClearIsSettled, ReloadCovered
      <3> QED
        BY <3>2, <3>3
    <2>3. CASE /\ ~stopping
               /\ observed' = Observation(observed.gen + 1)
               /\ TakeLatest("setup", observed')
      <3>1. observed' \in [gen : Nat, snap : Snapshots] /\ observed'.gen = observed.gen + 1
        BY <2>3, ObservationType DEF TypeOK, Observation
      <3>2. /\ flags' \in [dirty : BOOLEAN, reconciling : BOOLEAN, failed : BOOLEAN]
            /\ barrier' \in [dirty : BOOLEAN, reconciling : BOOLEAN, failed : BOOLEAN]
            /\ barrier' # Clear
            /\ issue' \in BOOLEAN /\ setup' \in Stages
            /\ worker' \in {None} \cup
                 [owner : {"setup", "listener"}, gen : Nat, target : Configurations]
            /\ worker' # None => worker'.gen = observed'.gen /\ worker'.target = observed'.snap
        BY <2>3, <3>1, TakeLatestSound DEF TypeOK
      <3>3. TypeOK'
        BY <2>1, <3>1, <3>2 DEF TypeOK
      <3>4. WorkerBehind' /\ ClearIsSettled' /\ ReloadCovered'
        BY <2>1, <3>1, <3>2 DEF TypeOK, WorkerBehind, ClearIsSettled, ReloadCovered
      <3> QED
        BY <3>3, <3>4
    <2> QED
      BY <1>2, <2>2, <2>3 DEF Start
  <1>3. CASE \E m \in Configurations \cup {Unreadable} : Change(m)
    <2>1. TypeOK'
      BY <1>3 DEF Change, TypeOK
    <2>2. WorkerBehind' /\ ClearIsSettled' /\ ReloadCovered'
      BY <1>3 DEF Change, WorkerBehind, ClearIsSettled, ReloadCovered
    <2> QED
      BY <2>1, <2>2
  <1>4. CASE Notify
    <2>1. Observe
      BY <1>4 DEF Notify
    <2>2. TypeOK'
      BY <1>4, <2>1, ObserveSound DEF Notify, TypeOK
    <2>3. WorkerBehind' /\ ClearIsSettled' /\ ReloadCovered'
      BY <1>4, <2>1, ObserveSound
         DEF Notify, TypeOK, WorkerBehind, ClearIsSettled, ReloadCovered
    <2> QED
      BY <2>2, <2>3
  <1>5. CASE Reconcile
    <2>1. /\ UNCHANGED <<mapping, observed, applied, platform, reload, stopping>>
          /\ calls' \in Nat
      BY <1>5 DEF Reconcile, TypeOK
    <2>2. CASE UNCHANGED <<flags, barrier, worker, setup>> /\ issue' \in BOOLEAN
      <3>1. TypeOK'
        BY <2>1, <2>2 DEF TypeOK
      <3>2. WorkerBehind' /\ ClearIsSettled' /\ ReloadCovered'
        BY <2>1, <2>2 DEF WorkerBehind, ClearIsSettled, ReloadCovered
      <3> QED
        BY <3>1, <3>2
    <2>3. CASE TakeLatest("listener", observed)
      <3>1. TypeOK'
        BY <2>1, <2>3, TakeLatestSound DEF TypeOK
      <3>2. WorkerBehind' /\ ClearIsSettled' /\ ReloadCovered'
        BY <2>1, <2>3, TakeLatestSound
           DEF TypeOK, WorkerBehind, ClearIsSettled, ReloadCovered
      <3> QED
        BY <3>1, <3>2
    <2> QED
      BY <1>5, <2>2, <2>3 DEF Reconcile, MirrorRepairs, TypeOK
  <1>6. CASE ApplierReturns
    <2>1. worker # None /\ UNCHANGED <<mapping, calls, stopping>>
      BY <1>6 DEF ApplierReturns
    <2>2. worker.owner \in {"setup", "listener"}
      BY <2>1 DEF TypeOK
    <2>3. CASE /\ stopping
               /\ UNCHANGED <<observed, applied, flags, barrier, platform, reload>>
               /\ WorkerEnds(worker.owner)
      <3>1. worker' = None /\ issue' \in BOOLEAN /\ setup' \in Stages
        BY <2>3, WorkerEndsSound DEF TypeOK
      <3>2. TypeOK'
        BY <2>1, <2>3, <3>1 DEF TypeOK
      <3>3. barrier # Clear
        BY <2>1, <2>3 DEF ClearIsSettled
      <3>4. WorkerBehind' /\ ClearIsSettled' /\ ReloadCovered'
        BY <2>1, <2>3, <3>1, <3>3 DEF WorkerBehind, ClearIsSettled, ReloadCovered
      <3> QED
        BY <3>2, <3>4
    <2>4. CASE /\ Superseded(worker)
               /\ UNCHANGED <<observed, applied, platform, reload>>
      <3>1. TakeLatest(worker.owner, observed)
        BY <2>4 DEF Superseded
      <3>2. TypeOK'
        BY <2>1, <2>2, <2>4, <3>1, TakeLatestSound DEF TypeOK
      <3>3. WorkerBehind' /\ ClearIsSettled' /\ ReloadCovered'
        BY <2>1, <2>2, <2>4, <3>1, TakeLatestSound
           DEF TypeOK, WorkerBehind, ClearIsSettled, ReloadCovered
      <3> QED
        BY <3>2, <3>3
    <2>5. CASE /\ Fail /\ WorkerEnds(worker.owner)
               /\ UNCHANGED <<observed, applied, platform, reload>>
      <3>1. worker' = None /\ issue' \in BOOLEAN /\ setup' \in Stages
        BY <2>5, FailSound, WorkerEndsSound DEF TypeOK
      <3>2. TypeOK'
        BY <2>1, <2>5, <3>1, FailSound DEF TypeOK
      <3>3. WorkerBehind' /\ ClearIsSettled' /\ ReloadCovered'
        BY <2>1, <2>5, <3>1, FailSound DEF WorkerBehind, ClearIsSettled, ReloadCovered
      <3> QED
        BY <3>2, <3>3
    <2>6. CASE /\ Fresh \notin {Unreadable, worker.target}
               /\ observed' = Observation(observed.gen + 1)
               /\ Iterate(worker.owner, observed')
               /\ UNCHANGED <<applied, platform, reload>>
      <3>1. observed' \in [gen : Nat, snap : Snapshots] /\ observed'.gen = observed.gen + 1
        BY <2>6, ObservationType DEF TypeOK, Observation
      <3>2. observed'.snap # None
        BY <2>6, ConfigurationsProper DEF Fresh, Observation, TypeOK
      <3>3. TakeLatest(worker.owner, observed')
        BY <2>6, <3>2 DEF TakeLatest
      <3>4. /\ flags' \in [dirty : BOOLEAN, reconciling : BOOLEAN, failed : BOOLEAN]
            /\ barrier' \in [dirty : BOOLEAN, reconciling : BOOLEAN, failed : BOOLEAN]
            /\ barrier' # Clear
            /\ issue' \in BOOLEAN /\ setup' \in Stages
            /\ worker' \in {None} \cup
                 [owner : {"setup", "listener"}, gen : Nat, target : Configurations]
            /\ worker' # None => worker'.gen = observed'.gen /\ worker'.target = observed'.snap
        BY <2>2, <3>1, <3>3, TakeLatestSound DEF TypeOK
      <3>5. TypeOK'
        BY <2>1, <2>6, <3>1, <3>4 DEF TypeOK
      <3>6. WorkerBehind' /\ ClearIsSettled' /\ ReloadCovered'
        BY <2>1, <2>6, <3>1, <3>4 DEF TypeOK, WorkerBehind, ClearIsSettled, ReloadCovered
      <3> QED
        BY <3>5, <3>6
    <2>7. CASE /\ ~stopping /\ observed.gen = worker.gen
               /\ Fresh = worker.target /\ Publish(worker)
      BY <2>1, <2>7, PublishSound DEF Fresh
    <2> QED
      BY <1>6, <2>3, <2>4, <2>5, <2>6, <2>7 DEF ApplierReturns
  <1>7. CASE ApplierRaises
    <2>1. /\ worker # None /\ Fail /\ WorkerEnds(worker.owner)
          /\ UNCHANGED <<mapping, observed, applied, calls, platform, reload, stopping>>
      BY <1>7 DEF ApplierRaises
    <2>2. worker' = None /\ issue' \in BOOLEAN /\ setup' \in Stages
      BY <2>1, FailSound, WorkerEndsSound DEF TypeOK
    <2>3. TypeOK'
      BY <2>1, <2>2, FailSound DEF TypeOK
    <2>4. WorkerBehind' /\ ClearIsSettled' /\ ReloadCovered'
      BY <2>1, <2>2, FailSound DEF WorkerBehind, ClearIsSettled, ReloadCovered
    <2> QED
      BY <2>3, <2>4
  <1>8. CASE BeginReload
    <2>0. PICK task \in Snapshots :
            reload' = [reload EXCEPT !.handle = FALSE, !.task = task]
      BY <1>8 DEF BeginReload, TypeOK, Snapshots
    <2>1. TypeOK'
      <3>1. reload' \in [pending : BOOLEAN, gen : Nat, fp : Snapshots,
                         handle : BOOLEAN, task : Snapshots, failedFp : Snapshots]
        BY <2>0 DEF TypeOK
      <3>2. UNCHANGED <<mapping, observed, applied, flags, barrier, calls, worker,
                        platform, stopping, setup, issue>>
        BY <1>8 DEF BeginReload
      <3> QED
        BY <3>1, <3>2 DEF TypeOK
    <2>2. ReloadCovered'
      BY <1>8 DEF BeginReload, ReloadCurrent, ReloadCovered, TypeOK
    <2>3. WorkerBehind' /\ ClearIsSettled'
      BY <1>8 DEF BeginReload, WorkerBehind, ClearIsSettled
    <2> QED
      BY <2>1, <2>2, <2>3
  <1>9. CASE ReloadFails \/ ReloadCancelled
    <2>1. /\ UNCHANGED <<mapping, observed, applied, calls, worker, platform, stopping, setup>>
          /\ issue' = flags'.failed
          /\ Fail \/ UNCHANGED <<flags, barrier>>
      BY <1>9 DEF ReloadFails, ReloadCancelled, MirrorRepairs
    <2>2. /\ reload' \in [pending : BOOLEAN, gen : Nat, fp : Snapshots,
                          handle : BOOLEAN, task : Snapshots, failedFp : Snapshots]
          /\ ReloadCovered'
      <3>1. CASE reload' = [reload EXCEPT !.task = None]
        BY <3>1 DEF TypeOK, ReloadCovered, Snapshots
      <3>2. CASE /\ reload.task # None
                 /\ reload' = [reload EXCEPT !.failedFp = reload.task, !.pending = FALSE,
                                             !.task = None]
        BY <3>2 DEF TypeOK, ReloadCovered, Snapshots
      <3> QED
        BY <1>9, <3>1, <3>2 DEF ReloadFails, ReloadCancelled
    <2>3. /\ flags' \in [dirty : BOOLEAN, reconciling : BOOLEAN, failed : BOOLEAN]
          /\ barrier' \in [dirty : BOOLEAN, reconciling : BOOLEAN, failed : BOOLEAN]
          /\ barrier' # Clear \/ barrier' = barrier
      BY <2>1, FailSound DEF TypeOK
    <2>4. TypeOK'
      BY <2>1, <2>2, <2>3 DEF TypeOK
    <2>5. WorkerBehind' /\ ClearIsSettled'
      BY <2>1, <2>3 DEF WorkerBehind, ClearIsSettled
    <2> QED
      BY <2>2, <2>4, <2>5
  <1>10. CASE ReloadSucceeds
    <2>1. TypeOK'
      BY <1>10 DEF ReloadSucceeds, MirrorRepairs, TypeOK, Snapshots
    <2>2. ReloadCovered'
      BY <1>10 DEF ReloadSucceeds, ReloadCovered, TypeOK
    <2>3. WorkerBehind' /\ ClearIsSettled'
      BY <1>10 DEF ReloadSucceeds, WorkerBehind, ClearIsSettled
    <2> QED
      BY <2>1, <2>2, <2>3
  <1>11. CASE ClosePublication
    <2>1. /\ UNCHANGED <<mapping, observed, applied, calls, worker, platform, setup, issue>>
          /\ stopping' = TRUE
          /\ reload' = Cancelled(reload)
      BY <1>11 DEF ClosePublication
    <2>2. /\ flags' \in [dirty : BOOLEAN, reconciling : BOOLEAN, failed : BOOLEAN]
          /\ barrier' \in [dirty : BOOLEAN, reconciling : BOOLEAN, failed : BOOLEAN]
          /\ barrier'.dirty = TRUE
      BY <1>11 DEF ClosePublication, TypeOK
    <2>3. barrier' # Clear
      BY <2>2 DEF Clear, Status
    <2>4. /\ reload' \in [pending : BOOLEAN, gen : Nat, fp : Snapshots,
                          handle : BOOLEAN, task : Snapshots, failedFp : Snapshots]
          /\ ReloadCovered'
      BY <2>1 DEF Cancelled, TypeOK, ReloadCovered, Snapshots
    <2>5. TypeOK'
      BY <2>1, <2>2, <2>4 DEF TypeOK
    <2>6. WorkerBehind' /\ ClearIsSettled'
      BY <2>1, <2>3 DEF WorkerBehind, ClearIsSettled
    <2> QED
      BY <2>4, <2>5, <2>6
  <1>12. CASE UNCHANGED vars
    BY <1>12 DEF vars, TypeOK, WorkerBehind, ClearIsSettled, ReloadCovered
  <1> QED
    BY <1>1, <1>2, <1>3, <1>4, <1>5, <1>6, <1>7, <1>8, <1>9, <1>10, <1>11, <1>12 DEF Next

(* The strengthening holds in every reachable state. *)
THEOREM Invariance == Spec => []IInv
  <1>1. Init => IInv
    BY InitIInv
  <1>2. IInv /\ [Next]_vars => IInv'
    BY StepIInv
  <1> QED
    BY <1>1, <1>2, PTL DEF Spec

(* The coordinator's state keeps its types (TypeOK). *)
THEOREM TypeCorrect == Spec => []TypeOK
  <1>1. IInv => TypeOK
    BY DEF IInv
  <1> QED
    BY <1>1, Invariance, PTL

(* Admission is open only for the configuration observed last, with no     *)
(* worker under way and publication still allowed (_run_latest_loop).      *)
THEOREM AdmissionSettled == Spec => []AdmissionIsSettled
  <1>1. IInv => AdmissionIsSettled
    BY DEF IInv, ClearIsSettled, AdmissionIsSettled, Admission
  <1> QED
    BY <1>1, Invariance, PTL

(* The final ON gate is shut while a reload is queued or running           *)
(* (_queue_reload, _cancel_pending_reload).                                *)
THEOREM GateExcludesReload == Spec => []NoOnDuringReload
  <1>1. IInv => NoOnDuringReload
    BY DEF IInv, ReloadCovered, NoOnDuringReload, OnGate
  <1> QED
    BY <1>1, Invariance, PTL

(* Latest snapshot wins: a publication is of the mapping as it is then,    *)
(* never of an older generation and never after the stop.                  *)
THEOREM LatestWins == Spec => PublishesLiveMapping
  <1> DEFINE P == applied' # applied =>
                    applied'.snap = mapping /\ applied'.gen >= applied.gen /\ ~stopping
  <1>1. IInv /\ [Next]_vars => [P]_vars
    <2> SUFFICES ASSUME IInv, Next, applied' # applied
                 PROVE  applied'.snap = mapping /\ applied'.gen >= applied.gen /\ ~stopping
      OBVIOUS
    <2>1. ApplierReturns
      BY DEF Next, Initialize, Start, Change, Notify, Reconcile, ApplierRaises, BeginReload,
             ReloadFails, ReloadCancelled, ReloadSucceeds, ClosePublication
    <2>2. /\ ~stopping /\ worker # None /\ mapping = worker.target
          /\ applied' = [gen |-> worker.gen, snap |-> worker.target]
      BY <2>1 DEF ApplierReturns, Publish, Fresh
    <2> QED
      BY <2>2 DEF IInv, TypeOK, WorkerBehind
  <1> QED
    BY <1>1, Invariance, PTL DEF Spec, PublishesLiveMapping

(* One deterministic failure stays fail closed: no reload begins for the   *)
(* configuration whose reload failed last (prior_reload_failure).          *)
THEOREM NoRetryOfFailedReload == Spec => FailedReloadNotRepeated
  <1> DEFINE P == reload.task = None /\ reload'.task # None => reload'.task # reload.failedFp
  <1>1. IInv /\ [Next]_vars => [P]_vars
    <2> SUFFICES ASSUME IInv, Next, reload.task = None, reload'.task # None
                 PROVE  reload'.task # reload.failedFp
      OBVIOUS
    <2> USE DEF IInv
    <2>1. CASE ApplierReturns
      <3>1. \/ reload' = reload
            \/ reload' = Queued(reload, worker)
            \/ reload' = Cancelled(reload)
        BY <2>1 DEF ApplierReturns, Publish
      <3>2. reload'.task = reload.task
        BY <3>1 DEF Queued, Cancelled, TypeOK
      <3> QED
        BY <3>2
    <2>2. CASE BeginReload
      BY <2>2 DEF BeginReload, ReloadCovered, TypeOK
    <2>3. CASE ClosePublication
      <3>1. reload'.task = reload.task
        BY <2>3 DEF ClosePublication, Cancelled, TypeOK
      <3> QED
        BY <3>1
    <2>4. CASE reload' = reload \/ reload.task # None
      BY <2>4
    <2> QED
      BY <2>1, <2>2, <2>3, <2>4
         DEF Next, Initialize, Start, Change, Notify, Reconcile, ApplierRaises,
             ReloadFails, ReloadCancelled, ReloadSucceeds
  <1> QED
    BY <1>1, Invariance, PTL DEF Spec, FailedReloadNotRepeated

-----------------------------------------------------------------------------
(* The Repair.  The property looks at moments with nothing under way; the  *)
(* fact that carries from step to step is that only an observation whose   *)
(* coroutine still waits, or a worker, may be ahead of what is shown.      *)
Mirrored == setup = "ready" /\ calls = 0 /\ worker = None => issue = flags.failed

(* The worker that the head of the loop leaves behind is one. *)
LEMMA IterateWorks ==
    ASSUME NEW owner \in {"setup", "listener"},
           NEW latest \in [gen : Nat, snap : Snapshots],
           latest.snap # None, Iterate(owner, latest)
    PROVE  worker' # None
  <1>1. worker' \in [owner : {"setup", "listener"}, gen : Nat, target : Configurations]
    BY DEF Iterate, Snapshots
  <1> QED
    BY <1>1, ReconciliationAssumption DEF Configurations

(* The head of the loop leaves a worker behind or settles the Repair. *)
LEMMA TakeLatestMirrors ==
    ASSUME NEW owner \in {"setup", "listener"},
           NEW latest \in [gen : Nat, snap : Snapshots], TakeLatest(owner, latest)
    PROVE  worker' # None \/ issue' = flags'.failed
  <1>1. CASE latest.snap # None /\ Iterate(owner, latest)
    BY <1>1, IterateWorks
  <1>2. CASE WorkerEnds(owner)
    BY <1>2 DEF WorkerEnds, MirrorRepairs
  <1> QED
    BY <1>1, <1>2 DEF TakeLatest

(* Every step keeps what is shown in line with what is known. *)
LEMMA StepMirrored == IInv /\ Mirrored /\ [Next]_vars => Mirrored'
  <1> SUFFICES ASSUME IInv, Mirrored, [Next]_vars PROVE Mirrored'
    OBVIOUS
  <1>0. TypeOK
    BY DEF IInv
  <1>1. CASE Initialize
    BY <1>1 DEF Initialize, Mirrored
  <1>2. CASE Start
    <2>1. CASE WorkerEnds("setup")
      BY <2>1 DEF WorkerEnds, MirrorRepairs, Mirrored
    <2>2. CASE observed' = Observation(observed.gen + 1) /\ TakeLatest("setup", observed')
      <3>1. observed' \in [gen : Nat, snap : Snapshots]
        BY <1>0, <2>2, ObservationType DEF TypeOK
      <3> QED
        BY <2>2, <3>1, TakeLatestMirrors DEF Mirrored
    <2> QED
      BY <1>2, <2>1, <2>2 DEF Start
  <1>3. CASE \E m \in Configurations \cup {Unreadable} : Change(m)
    BY <1>3 DEF Change, Mirrored
  <1>4. CASE Notify
    <2>1. calls' = calls + 1 /\ calls \in Nat
      BY <1>0, <1>4 DEF Notify, TypeOK
    <2>2. calls' # 0
      BY <2>1
    <2> QED
      BY <2>2 DEF Mirrored
  <1>5. CASE Reconcile
    <2>1. CASE MirrorRepairs
      BY <2>1 DEF MirrorRepairs, Mirrored
    <2>2. CASE worker # None /\ UNCHANGED worker
      BY <2>2 DEF Mirrored
    <2>3. CASE TakeLatest("listener", observed)
      BY <1>0, <2>3, TakeLatestMirrors DEF Mirrored, TypeOK
    <2> QED
      BY <1>5, <2>1, <2>2, <2>3 DEF Reconcile
  <1>6. CASE ApplierReturns
    <2>1. worker.owner \in {"setup", "listener"}
      BY <1>0, <1>6 DEF ApplierReturns, TypeOK
    <2>2. CASE WorkerEnds(worker.owner)
      BY <2>2 DEF WorkerEnds, MirrorRepairs, Mirrored
    <2>3. CASE Superseded(worker)
      BY <1>0, <2>1, <2>3, TakeLatestMirrors DEF Superseded, Mirrored, TypeOK
    <2>4. CASE /\ Fresh \notin {Unreadable, worker.target}
               /\ observed' = Observation(observed.gen + 1)
               /\ Iterate(worker.owner, observed')
      <3>1. observed' \in [gen : Nat, snap : Snapshots]
        BY <1>0, <2>4, ObservationType DEF TypeOK
      <3>2. observed'.snap # None
        BY <1>0, <2>4, ConfigurationsProper DEF Fresh, Observation, TypeOK
      <3> QED
        BY <2>1, <2>4, <3>1, <3>2, IterateWorks DEF Mirrored
    <2> QED
      BY <1>6, <2>2, <2>3, <2>4 DEF ApplierReturns, Publish
  <1>7. CASE ApplierRaises
    BY <1>7 DEF ApplierRaises, WorkerEnds, MirrorRepairs, Mirrored
  <1>8. CASE BeginReload
    BY <1>8 DEF BeginReload, Mirrored
  <1>9. CASE ReloadFails \/ ReloadCancelled \/ ReloadSucceeds
    BY <1>9 DEF ReloadFails, ReloadCancelled, ReloadSucceeds, MirrorRepairs, Mirrored
  <1>10. CASE ClosePublication
    <2>1. flags'.failed = flags.failed
      BY <1>0, <1>10 DEF ClosePublication, TypeOK
    <2> QED
      BY <1>10, <2>1 DEF ClosePublication, Mirrored
  <1>11. CASE UNCHANGED vars
    BY <1>11 DEF vars, Mirrored
  <1> QED
    BY <1>1, <1>2, <1>3, <1>4, <1>5, <1>6, <1>7, <1>8, <1>9, <1>10, <1>11 DEF Next

(* With nothing under way the Repair is shown exactly if reconciliation    *)
(* has failed: no interleaving of observations, joins, reloads and the     *)
(* stop leaves it behind (_sync_repairs_from_authority).                   *)
THEOREM RepairsMirrorFailure == Spec => []RepairMirrorsFailure
  <1>1. Init => Mirrored
    BY DEF Init, Mirrored
  <1>2. IInv /\ Mirrored /\ [Next]_vars => Mirrored'
    BY StepMirrored
  <1>3. Mirrored => RepairMirrorsFailure
    BY DEF Mirrored, RepairMirrorsFailure, Quiet
  <1> QED
    BY <1>1, <1>2, <1>3, Invariance, PTL DEF Spec
=============================================================================
