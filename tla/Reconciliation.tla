--------------------------- MODULE Reconciliation ---------------------------
(***************************************************************************)
(* The configuration reconciliation coordinator (reconciliation.py): the   *)
(* entry's live mapping of zones, the generations observed of it, the one  *)
(* worker that applies them, the reload that follows, and the admission    *)
(* barrier it closes and opens in the slot manager.  A fingerprint is the  *)
(* configuration it is the hash of.  What the worker does to the Store and *)
(* the controllers is one call that returns or raises.                     *)
(***************************************************************************)
EXTENDS Integers

CONSTANTS
    Subentries,     \* the identifiers a configured zone may have
    Versions,       \* the settings it may have
    None,           \* no snapshot, no worker, no reload, no fingerprint
    Unreadable,     \* a mapping the snapshot builder raises on
    MaxGeneration   \* bound: the last generation Core's changes may cause

ASSUME ReconciliationAssumption ==
    /\ MaxGeneration \in Nat
    /\ None \notin UNION {[S -> Versions] : S \in SUBSET Subentries}
    /\ Unreadable \notin UNION {[S -> Versions] : S \in SUBSET Subentries}
    /\ None # Unreadable
    /\ None \notin [owner : {"setup", "listener"}, gen : Nat,
                     target : UNION {[S -> Versions] : S \in SUBSET Subentries}]

VARIABLES
    mapping,    \* entry.subentries, changed by Home Assistant
    observed,   \* observed_generation and observed_snapshot
    applied,    \* applied_generation and applied_snapshot
    flags,      \* dirty, reconciling and failed of the coordinator
    barrier,    \* the same three in the SlotManager
    calls,      \* async_reconcile coroutines that have not run yet
    worker,     \* the iteration of the worker that awaits the applier
    platform,   \* the snapshot the entity platforms were built from
    reload,     \* the reload decision, its call_soon handle and its task
    stopping,   \* publication is closed for good
    setup,      \* how far async_initialize and async_start are
    issue       \* the configuration_reconciliation_failed Repair

vars == <<mapping, observed, applied, flags, barrier, calls, worker, platform,
          reload, stopping, setup, issue>>

Configurations == UNION {[S -> Versions] : S \in SUBSET Subentries}
Stages         == {"new", "loading", "starting", "ready", "failed"}

Status(dirty, reconciling, failed) ==
    [dirty |-> dirty, reconciling |-> reconciling, failed |-> failed]
Clear == Status(FALSE, FALSE, FALSE)

Init ==
    /\ mapping \in Configurations \cup {Unreadable}
    /\ observed = [gen |-> 0, snap |-> None]
    /\ applied = [gen |-> 0, snap |-> None]
    /\ flags = Clear
    /\ barrier = Clear
    /\ calls = 0
    /\ worker = None
    /\ platform = None
    /\ reload = [pending |-> FALSE, gen |-> 0, fp |-> None,
                 handle |-> FALSE, task |-> None, failedFp |-> None]
    /\ stopping = FALSE
    /\ setup = "new"
    /\ issue = FALSE

-----------------------------------------------------------------------------
(* Slip: an unreadable mapping is kept as if it were a snapshot. *)
ObservationRaw(gen) == [gen |-> gen, snap |-> mapping]

(* What the snapshot builder makes of the mapping now: nothing if it raises. *)
Observation(gen) == [gen |-> gen, snap |-> IF mapping = Unreadable THEN None ELSE mapping]

(* Slip: closing the barrier is left to the worker. *)
ObserveUnfenced ==
    /\ observed' = Observation(observed.gen + 1)
    /\ flags' = [flags EXCEPT !.dirty = TRUE, !.failed = mapping = Unreadable]
    /\ UNCHANGED barrier

(* observe_current: take the next generation of the mapping and close the  *)
(* barrier.  A mapping that cannot be read is an observation that failed.  *)
Observe ==
    LET error == mapping = Unreadable IN
    /\ observed' = Observation(observed.gen + 1)
    /\ flags' = [flags EXCEPT !.dirty = TRUE, !.failed = error]
    /\ barrier' = [barrier EXCEPT !.dirty = TRUE, !.failed = error]

(* _fail: the barrier stays closed and the failure is shown. *)
Fail ==
    /\ flags' = Status(TRUE, FALSE, TRUE)
    /\ barrier' = Status(TRUE, FALSE, TRUE)

(* Slip: the Repair is created and never deleted. *)
MirrorRepairsSticky == issue' = (issue \/ flags'.failed)

(* _sync_repairs_from_authority, as far as this coordinator goes. *)
MirrorRepairs == issue' = flags'.failed

(* The coroutine that ran the worker ends: Repairs mirror the outcome, and *)
(* the setup, if the coroutine is its own, goes on or gives up.            *)
WorkerEnds(owner) ==
    /\ worker' = None
    /\ MirrorRepairs
    /\ setup' = IF owner = "setup" THEN (IF flags'.failed THEN "failed" ELSE "ready") ELSE setup

(* The head of _run_latest_loop: an observation that failed ends it, any   *)
(* other is handed to the applier.                                         *)
Iterate(owner, latest) ==
    /\ flags' = Status(TRUE, TRUE, FALSE)
    /\ barrier' = Status(TRUE, TRUE, FALSE)
    /\ worker' = [owner |-> owner, gen |-> latest.gen, target |-> latest.snap]
    /\ setup' = IF owner = "setup" THEN "starting" ELSE setup
    /\ UNCHANGED issue

TakeLatest(owner, latest) ==
    \/ latest.snap # None /\ Iterate(owner, latest)
    \/ latest.snap = None /\ Fail /\ WorkerEnds(owner)

-----------------------------------------------------------------------------
(* Setup: async_initialize observes the mapping twice, before and after    *)
(* the Store is loaded; async_start then runs the first worker.            *)

Initialize ==
    /\ setup = "new"
    /\ Observe
    /\ setup' = IF mapping = Unreadable THEN "failed" ELSE "loading"
    /\ UNCHANGED <<mapping, applied, calls, worker, platform, reload, stopping, issue>>

Start ==
    /\ setup = "loading"
    /\ \/ stopping /\ Observe /\ WorkerEnds("setup")
       \/ /\ ~stopping
          /\ observed' = Observation(observed.gen + 1)
          /\ TakeLatest("setup", observed')
    /\ UNCHANGED <<mapping, applied, calls, platform, reload, stopping>>

(* Core changes the entry's subentries. *)
Change(m) ==
    /\ m # mapping
    /\ observed.gen < MaxGeneration
    /\ mapping' = m
    /\ UNCHANGED <<observed, applied, flags, barrier, calls, worker, platform,
                   reload, stopping, setup, issue>>

(* The listener, or a followed rename: observe, and schedule a coroutine.  *)
(* A failed setup has unsubscribed it.                                     *)
Notify ==
    /\ setup \in {"loading", "starting", "ready"}
    /\ observed.gen < MaxGeneration
    /\ Observe
    /\ calls' = calls + 1
    /\ UNCHANGED <<mapping, applied, worker, platform, reload, stopping, setup, issue>>

Ready == setup \notin {"new", "loading"} \/ stopping

UpToDate == ~flags.dirty /\ applied.gen = observed.gen

(* async_reconcile: return, join the worker or become it.  Joining leaves  *)
(* nothing to do but the Repairs, which the worker's end settles.          *)
Reconcile ==
    /\ calls > 0 /\ Ready
    /\ calls' = calls - 1
    /\ \/ /\ stopping \/ UpToDate
          /\ UNCHANGED <<flags, barrier, worker, setup>>
          /\ MirrorRepairs
       \/ /\ ~stopping /\ ~UpToDate /\ worker # None
          /\ UNCHANGED <<flags, barrier, worker, setup, issue>>
       \/ /\ ~stopping /\ ~UpToDate /\ worker = None
          /\ TakeLatest("listener", observed)
    /\ UNCHANGED <<mapping, observed, applied, platform, reload, stopping>>

-----------------------------------------------------------------------------
(* stable_batch_requires_reload: a zone was added or changed since the     *)
(* platforms were set up; a deletion alone needs no reload.                *)
ReloadRequired(target) ==
    /\ platform # None
    /\ \E s \in DOMAIN target : ~(s \in DOMAIN platform /\ platform[s] = target[s])

(* Slip: a running reload is forgotten with the decision. *)
CancelledForgetting(r) ==
    [r EXCEPT !.pending = FALSE, !.gen = 0, !.fp = None, !.handle = FALSE]

(* _cancel_pending_reload: the handle goes; a running task keeps its own.  *)
Cancelled(r) ==
    IF r.task = None
      THEN [r EXCEPT !.pending = FALSE, !.gen = 0, !.fp = None, !.handle = FALSE]
      ELSE [r EXCEPT !.handle = FALSE]

(* _queue_reload: one handle or task at a time. *)
Queued(r, w) ==
    [r EXCEPT !.pending = TRUE, !.gen = w.gen, !.fp = w.target,
              !.handle = r.handle \/ r.task = None]

(* Slip: asks for the failed flag, which the loop head has just reset. *)
FailedBeforeFlagged(w) == flags.failed /\ reload.failedFp = w.target

(* This very configuration's reload failed before. *)
FailedBefore(w) == reload.failedFp = w.target

(* The end of an iteration that is still current: publish and decide. *)
Publish(w) ==
    /\ applied' = [gen |-> w.gen, snap |-> w.target]
    /\ platform' = IF platform = None THEN w.target ELSE platform
    /\ \/ FailedBefore(w) /\ Fail /\ UNCHANGED reload
       \/ /\ ~FailedBefore(w) /\ ReloadRequired(w.target)
          /\ flags' = Clear
          /\ barrier' = Status(TRUE, FALSE, FALSE)
          /\ reload' = Queued(reload, w)
       \/ /\ ~FailedBefore(w) /\ ~ReloadRequired(w.target)
          /\ flags' = Clear
          /\ barrier' = Clear
          /\ reload' = Cancelled(reload)
    /\ WorkerEnds(w.owner)
    /\ UNCHANGED observed

(* Slip: the snapshot taken before the await is used again. *)
FreshCached == observed.snap

(* The mapping as it is read again after the awaited application. *)
Fresh == mapping

(* Slip: the worker leaves the newer generation to its joiners. *)
SupersededGivesUp(w) == UNCHANGED <<flags, barrier>> /\ WorkerEnds(w.owner)

(* A newer generation was observed meanwhile: go round again. *)
Superseded(w) == TakeLatest(w.owner, observed)

(* The awaited applier returns.  Publication closed: give up.  A newer     *)
(* observation, or a mapping that changed without one: take the latest.    *)
ApplierReturns ==
    /\ worker # None
    /\ \/ /\ stopping
          /\ UNCHANGED <<observed, applied, flags, barrier, platform, reload>>
          /\ WorkerEnds(worker.owner)
       \/ /\ ~stopping /\ observed.gen # worker.gen
          /\ Superseded(worker)
          /\ UNCHANGED <<observed, applied, platform, reload>>
       \/ /\ ~stopping /\ observed.gen = worker.gen /\ Fresh = Unreadable
          /\ Fail
          /\ WorkerEnds(worker.owner)
          /\ UNCHANGED <<observed, applied, platform, reload>>
       \/ /\ ~stopping /\ observed.gen = worker.gen
          /\ Fresh \notin {Unreadable, worker.target}
          /\ observed' = Observation(observed.gen + 1)
          /\ Iterate(worker.owner, observed')
          /\ UNCHANGED <<applied, platform, reload>>
       \/ /\ ~stopping /\ observed.gen = worker.gen /\ Fresh = worker.target
          /\ Publish(worker)
    /\ UNCHANGED <<mapping, calls, stopping>>

(* The applier raises: a Store write failed, or two records conflict. *)
ApplierRaises ==
    /\ worker # None
    /\ Fail
    /\ WorkerEnds(worker.owner)
    /\ UNCHANGED <<mapping, observed, applied, calls, platform, reload, stopping>>

-----------------------------------------------------------------------------
(* _begin_reload_if_current and the eager first step of _async_apply_reload, *)
(* up to its call of Core's reload.                                          *)
ReloadCurrent ==
    /\ reload.pending /\ ~stopping
    /\ flags = Clear
    /\ observed.gen = reload.gen /\ applied.gen = reload.gen
    /\ applied.snap = reload.fp

BeginReload ==
    /\ reload.handle
    /\ reload' = [reload EXCEPT !.handle = FALSE,
                                !.task = IF ReloadCurrent THEN reload.fp ELSE None]
    /\ UNCHANGED <<mapping, observed, applied, flags, barrier, calls, worker,
                   platform, stopping, setup, issue>>

(* Core's reload returns false or raises.  A decision that was replaced in *)
(* the meantime is left alone.                                             *)
ReloadFails ==
    /\ reload.task # None
    /\ IF ~stopping /\ reload.fp = reload.task
         THEN /\ reload' = [reload EXCEPT !.failedFp = reload.task, !.pending = FALSE, !.task = None]
              /\ Fail
         ELSE /\ reload' = [reload EXCEPT !.task = None]
              /\ UNCHANGED <<flags, barrier>>
    /\ MirrorRepairs
    /\ UNCHANGED <<mapping, observed, applied, calls, worker, platform, stopping, setup>>

(* The task is cancelled, by async_join_workers once publication is closed *)
(* or from outside before.                                                 *)
ReloadCancelled ==
    /\ reload.task # None
    /\ IF stopping
         THEN /\ reload' = [reload EXCEPT !.task = None]
              /\ UNCHANGED <<flags, barrier>>
         ELSE /\ reload' = [reload EXCEPT !.failedFp = reload.task, !.pending = FALSE, !.task = None]
              /\ Fail
    /\ MirrorRepairs
    /\ UNCHANGED <<mapping, observed, applied, calls, worker, platform, stopping, setup>>

(* Core answers true once it has unloaded this runtime and set up another. *)
ReloadSucceeds ==
    /\ reload.task # None /\ stopping
    /\ reload' = [reload EXCEPT !.pending = FALSE, !.gen = 0, !.fp = None, !.task = None]
    /\ platform' = applied.snap
    /\ barrier' = IF stopping THEN barrier ELSE Clear
    /\ UNCHANGED <<mapping, observed, applied, flags, calls, worker, stopping, setup>>
    /\ MirrorRepairs

(* close_publication_now, by Stage-1 shutdown or by an unload, the reload's *)
(* own included.                                                            *)
ClosePublication ==
    /\ setup \in {"loading", "starting", "ready"} /\ ~stopping
    /\ stopping' = TRUE
    /\ flags' = [flags EXCEPT !.dirty = TRUE]
    /\ barrier' = [barrier EXCEPT !.dirty = TRUE, !.reconciling = FALSE]
    /\ reload' = Cancelled(reload)
    /\ UNCHANGED <<mapping, observed, applied, calls, worker, platform, setup, issue>>

-----------------------------------------------------------------------------
Next ==
    \/ Initialize \/ Start
    \/ \E m \in Configurations \cup {Unreadable} : Change(m)
    \/ Notify \/ Reconcile
    \/ ApplierReturns \/ ApplierRaises
    \/ BeginReload \/ ReloadFails \/ ReloadCancelled \/ ReloadSucceeds
    \/ ClosePublication

Spec == Init /\ [][Next]_vars

(* The loop runs every coroutine that is ready; an applier ends, because   *)
(* OFF and the Store have time limits; setup does not wait for ever.       *)
FairSpec ==
    /\ Spec
    /\ WF_vars(Initialize) /\ WF_vars(Start)
    /\ WF_vars(Reconcile)
    /\ WF_vars(ApplierReturns \/ ApplierRaises)

-----------------------------------------------------------------------------
Snapshots == Configurations \cup {None}

(* The coordinator's fields keep their types; in particular the worker     *)
(* never targets a mapping the snapshot builder could not read.            *)
TypeOK ==
    /\ mapping \in Configurations \cup {Unreadable}
    /\ observed \in [gen : Nat, snap : Snapshots]
    /\ applied \in [gen : Nat, snap : Snapshots]
    /\ flags \in [dirty : BOOLEAN, reconciling : BOOLEAN, failed : BOOLEAN]
    /\ barrier \in [dirty : BOOLEAN, reconciling : BOOLEAN, failed : BOOLEAN]
    /\ calls \in Nat
    /\ worker \in {None} \cup
         [owner : {"setup", "listener"}, gen : Nat, target : Configurations]
    /\ platform \in Snapshots
    /\ reload \in [pending : BOOLEAN, gen : Nat, fp : Snapshots,
                   handle : BOOLEAN, task : Snapshots, failedFp : Snapshots]
    /\ stopping \in BOOLEAN /\ setup \in Stages /\ issue \in BOOLEAN

(* Grants are enabled when setup is done. *)
Admission == setup = "ready" /\ barrier = Clear

(* Admission is open only for the configuration observed last, applied as  *)
(* a whole, with no worker under way and publication still allowed.        *)
AdmissionIsSettled ==
    Admission => observed = applied /\ observed.snap # None /\ worker = None /\ ~stopping

(* The coordinator's part of the final ON gate (_evaluate_on_authority). *)
OnGate ==
    /\ Admission /\ ~stopping /\ flags = Clear /\ ~reload.pending
    /\ mapping = applied.snap /\ mapping = observed.snap
    /\ observed.gen = applied.gen

(* No ON is authorised while a reload is queued or running, not even when  *)
(* the configuration that asked for it was taken back.                     *)
NoOnDuringReload == OnGate => ~reload.handle /\ reload.task = None

(* Latest snapshot wins: what is published is the live mapping, in order.  *)
PublishesLiveMapping ==
    [][ applied' # applied =>
          applied'.snap = mapping /\ applied'.gen >= applied.gen /\ ~stopping ]_vars

(* "One deterministic failure remains fail closed": a reload that failed   *)
(* is not tried again for the same configuration.                          *)
FailedReloadNotRepeated ==
    [][ reload.task = None /\ reload'.task # None => reload'.task # reload.failedFp ]_vars

Quiet == calls = 0 /\ worker = None /\ reload.task = None

(* With nothing under way, the Repair is shown exactly if reconciliation   *)
(* has failed.                                                             *)
RepairMirrorsFailure == setup = "ready" /\ Quiet => issue = flags.failed

(* Every observation is worked off, whatever joins, supersedes or fails.   *)
DirtyResolves ==
    []<>(setup # "new" => ~flags.dirty \/ flags.failed \/ stopping)
=============================================================================
