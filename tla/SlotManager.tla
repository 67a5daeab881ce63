---------------------------- MODULE SlotManager ----------------------------
(***************************************************************************)
(* The SlotManager object (slot_manager.py) under every order of calls its *)
(* callers can make.  The actions are the methods as the event loop runs   *)
(* them: a method whose body is "async with self._lock" needs the lock,    *)
(* and adding or removing a blocker keeps it across the await of the Store *)
(* write, which may fail.  The methods with "now" in their name do not     *)
(* take the lock and run while such a write is in flight.                  *)
(***************************************************************************)
EXTENDS SlotOps

CONSTANT Keys   \* blocker keys, (safety_record_id, reason) pairs in the code

VARIABLES
    slots,      \* the fields of the SlotManager object
    writing,    \* the lock holder that awaits the Store, or NoWrite
    recorded    \* the blockers of the Store's last verified snapshot

vars == <<slots, writing, recorded>>

NoWrite == [op |-> "none"]
Writes == [op : {"add", "remove"}, key : Keys]

SlotStates ==
    [owner         : Zones \cup {NoZone},
     queue         : Seq(Zones),
     future        : [Zones -> Futures],  \* of the newest request of a zone
     blockers      : SUBSET Keys,
     unpersisted   : SUBSET Keys,
     grantsEnabled : BOOLEAN,
     barrier       : SUBSET Flags]

-----------------------------------------------------------------------------
LockFree == writing = NoWrite

Init ==
    /\ slots = InitialSlots
    /\ writing = NoWrite
    /\ recorded = {}

(* A key that is live and saved returns at once. *)
AddBlocker(k) ==
    /\ LockFree
    /\ k \notin slots.blockers \/ k \in slots.unpersisted
    /\ slots' = BlockerLive(slots, k)
    /\ writing' = [op |-> "add", key |-> k]
    /\ UNCHANGED recorded

(* Slip: the live set opens before the write instead of after it. *)
RemoveBlockerEarly(k) ==
    /\ LockFree
    /\ k \in slots.blockers
    /\ slots' = BlockerGone(slots, k)
    /\ writing' = [op |-> "remove", key |-> k]
    /\ UNCHANGED recorded

RemoveBlocker(k) ==
    /\ LockFree
    /\ k \in slots.blockers
    /\ writing' = [op |-> "remove", key |-> k]
    /\ UNCHANGED <<slots, recorded>>

(* The Store write is verified: the method finishes and drops the lock. *)
WriteVerified ==
    /\ writing \in Writes
    /\ IF writing.op = "add"
       THEN /\ slots' = BlockerSaved(slots, writing.key)
            /\ recorded' = recorded \cup {writing.key}
       ELSE /\ slots' = BlockerGone(slots, writing.key)
            /\ recorded' = recorded \ {writing.key}
    /\ writing' = NoWrite

(* The write fails, or its caller is cancelled: the exception leaves the   *)
(* method and nothing that follows the await runs.                         *)
WriteFailed ==
    /\ writing \in Writes
    /\ writing' = NoWrite
    /\ UNCHANGED <<slots, recorded>>

EnableGrants  == LockFree /\ slots' = SetGrants(slots, TRUE)
DisableGrants == LockFree /\ slots' = SetGrants(slots, FALSE)

SetReconciliationBarrier ==
    /\ LockFree
    /\ \E flags \in SUBSET Flags : slots' = SetBarrier(slots, flags)

(* The synchronous twin, which does not wait for the lock. *)
SetReconciliationStateNow ==
    \E flags \in SUBSET Flags : slots' = SetBarrier(slots, flags)

CloseAdmissionNow == slots' = CloseAdmission(slots)

AsyncRequest(z)       == LockFree /\ slots' = Request(slots, z)
AsyncCancelRequest(z) == LockFree /\ slots' = CancelRequest(slots, z)
AsyncRelease(z)       == LockFree /\ slots' = Release(slots, z)
AsyncRequeueTail(z)   == LockFree /\ slots' = RequeueTail(slots, z)

(* The zone's slot task is cancelled while it awaits its future (a         *)
(* controller that detaches): the future is cancelled where it stands.     *)
AbandonRequest(z) ==
    /\ slots.future[z] = "pending"
    /\ slots' = [slots EXCEPT !.future = [slots.future EXCEPT ![z] = "cancelled"]]

Next ==
    \/ \E k \in Keys : AddBlocker(k) \/ RemoveBlocker(k)
    \/ WriteVerified
    \/ WriteFailed
    \/ /\ \/ EnableGrants
          \/ DisableGrants
          \/ SetReconciliationBarrier
          \/ SetReconciliationStateNow
          \/ CloseAdmissionNow
          \/ \E z \in Zones : \/ AsyncRequest(z)
                              \/ AsyncCancelRequest(z)
                              \/ AsyncRelease(z)
                              \/ AsyncRequeueTail(z)
                              \/ AbandonRequest(z)
       /\ UNCHANGED <<writing, recorded>>

Spec == Init /\ [][Next]_vars

-----------------------------------------------------------------------------
(* Properties. *)

(* Every field of the slot manager keeps its type. *)
TypeOK ==
    /\ slots \in SlotStates
    /\ writing \in Writes \cup {NoWrite}
    /\ recorded \subseteq Keys

LiveOnce(s) ==
    /\ \A i, j \in DOMAIN s.queue : s.queue[i] = s.queue[j] => i = j
    /\ \A i \in DOMAIN s.queue : /\ s.queue[i] # s.owner
                                 /\ s.future[s.queue[i]] \in {"pending", "cancelled"}

(* A zone is never both owner and waiting, never waits twice, and a        *)
(* waiting zone's handle is not already resolved: async_request's "at most *)
(* one live request", across release, requeue, cancel and shutdown.        *)
OneLiveRequest == LiveOnce(slots)

Settled(s) == MayGrant(s) => Offerable(s) = {}

(* No lost wake-up: a free slot, an open admission and an empty blocker    *)
(* set never coexist with a request that could be offered.  Every method   *)
(* that can make the last of these conditions true must run                *)
(* _try_grant_locked, the two lock-free ones included.                     *)
NoMissedGrant == Settled(slots)

(* Blockers fail closed around the Store: whatever a write does, a blocker *)
(* the Store knows is live, a live blocker the Store does not know is      *)
(* marked for another write, and a key whose write is in flight is live.   *)
FailClosed ==
    /\ recorded \subseteq slots.blockers
    /\ slots.blockers \ recorded \subseteq slots.unpersisted
    /\ writing \in Writes => writing.key \in slots.blockers

(* A new owner appears only while nothing fences the water: no live        *)
(* blocker, no blocker whose Store write is in flight or that the Store    *)
(* still records, no closed barrier.  In particular the lock-free barrier  *)
(* update cannot slip a grant past a removal that is not yet durable.      *)
GrantsOnlyUnfenced ==
    [][ (slots'.owner # slots.owner /\ slots'.owner # NoZone) =>
            /\ slots'.blockers = {}
            /\ recorded' = {}
            /\ writing' = NoWrite
            /\ AdmissionOpen(slots') ]_vars

Ahead(s, y, z) == \E i, j \in DOMAIN s.queue : i < j /\ s.queue[i] = y /\ s.queue[j] = z

(* First come, first served: while a live request of y waits, no zone that *)
(* is not already ahead of it gets the slot or a place ahead of it, be it  *)
(* by a new request or by requeueing.                                      *)
NoOvertaking ==
    [][ \A y, z \in Zones :
          (/\ y # z
           /\ InQueue(slots, y) /\ slots.future[y] = "pending"
           /\ ~Ahead(slots, z, y)) =>
              /\ slots'.owner = z => slots.owner = z
              /\ ~Ahead(slots', z, y) ]_vars

(* Whose request can still be offered. *)
WaitingZones(s) == {z \in Zones : InQueue(s, z) /\ s.future[z] = "pending"}

Share == INSTANCE WaterShare WITH
    holder  <- slots.owner,
    waiting <- WaitingZones(slots),
    hazards <- slots.blockers \cup recorded,
    open    <- AdmissionOpen(slots)

(* The slot manager implements WaterShare, with every blocker that is live *)
(* or recorded a hazard: through queueing, cancelled futures, the lock,    *)
(* and Store writes that fail, each step of the SlotManager object is one  *)
(* step of the shared water, or none.                                      *)
SharesWater == Share!Spec
=============================================================================
