------------------------------ MODULE SlotOps ------------------------------
(***************************************************************************)
(* The state of the integration-wide watering slot (slot_manager.py) as    *)
(* one record, and every SlotManager method as an operator from slot       *)
(* states to slot states.  SlotManager turns the operators into actions    *)
(* with the lock and the Store write in between; ZoneControllers composes  *)
(* several of them in the step of one controller.                          *)
(***************************************************************************)
EXTENDS Integers, Sequences

CONSTANTS
    Zones,      \* identifiers of the zones that ask for the slot
    NoZone      \* "None": nobody owns the slot

ASSUME NoZoneAssumption == NoZone \notin Zones

Flags == {"dirty", "reconciling", "failed"}

(* A request's future.  "none": the zone never asked.  A queued request is *)
(* "pending" unless the task that awaited it was cancelled, which cancels  *)
(* the future and leaves the request in the queue.                         *)
Futures == {"none", "pending", "granted", "cancelled"}

InitialSlots ==
    [owner         |-> NoZone,
     queue         |-> << >>,
     future        |-> [z \in Zones |-> "none"],
     blockers      |-> {},
     unpersisted   |-> {},
     grantsEnabled |-> FALSE,
     barrier       |-> {}]

-----------------------------------------------------------------------------
(* The methods, as operators on the slot state. *)

AdmissionOpen(s) == s.grantsEnabled /\ s.barrier = {}

(* Slip: the offer forgets the blocker set. *)
MayGrantIntoBlockers(s) == AdmissionOpen(s) /\ s.owner = NoZone

(* The conditions under which an offer may be made. *)
MayGrant(s) == AdmissionOpen(s) /\ s.owner = NoZone /\ s.blockers = {}

(* Queue positions whose request can still be offered. *)
Offerable(s) == {i \in DOMAIN s.queue : s.future[s.queue[i]] # "cancelled"}

FirstOfferable(s) == CHOOSE i \in Offerable(s) : \A j \in Offerable(s) : i <= j

OfferTo(s, i) ==
    [s EXCEPT !.owner  = s.queue[i],
              !.queue  = SubSeq(s.queue, i + 1, Len(s.queue)),
              !.future = [s.future EXCEPT ![s.queue[i]] = "granted"]]

TryGrant(s) ==
    IF ~MayGrant(s) THEN s
    ELSE IF Offerable(s) = {} THEN [s EXCEPT !.queue = << >>]
    ELSE OfferTo(s, FirstOfferable(s))

InQueue(s, z) == \E i \in DOMAIN s.queue : s.queue[i] = z

(* Slip: a new request goes to the head of the queue. *)
EnqueueAtHead(s, z) ==
    [s EXCEPT !.queue  = <<z>> \o s.queue,
              !.future = [s.future EXCEPT ![z] = "pending"]]

Enqueue(s, z) ==
    [s EXCEPT !.queue  = Append(s.queue, z),
              !.future = [s.future EXCEPT ![z] = "pending"]]

(* Slip: the live request is not looked up. *)
RequestTwice(s, z) ==
    IF s.owner = z THEN [s EXCEPT !.future = [s.future EXCEPT ![z] = "granted"]]
    ELSE TryGrant(Enqueue(s, z))

(* A second request returns the queued handle; the owner gets a new handle *)
(* that is already granted.                                                *)
Request(s, z) ==
    IF s.owner = z THEN [s EXCEPT !.future = [s.future EXCEPT ![z] = "granted"]]
    ELSE IF InQueue(s, z) THEN s
    ELSE TryGrant(Enqueue(s, z))

(* Where z waits; a zone waits at most once (OneLiveRequest of SlotManager). *)
Position(s, z) == CHOOSE i \in DOMAIN s.queue : s.queue[i] = z

Without(q, i) == [n \in 1 .. Len(q) - 1 |-> IF n < i THEN q[n] ELSE q[n + 1]]

(* Only the queue is filtered: the future of the dropped request stays as  *)
(* it is, and so does whoever awaits it.                                   *)
CancelRequest(s, z) ==
    IF ~InQueue(s, z) THEN s
    ELSE [s EXCEPT !.queue = Without(s.queue, Position(s, z))]

Release(s, z) ==
    IF s.owner # z THEN s ELSE TryGrant([s EXCEPT !.owner = NoZone])

(* Slip: whoever owns the slot is requeued, even nobody. *)
RequeueOwner(s, z) == TryGrant(Enqueue([s EXCEPT !.owner = NoZone], s.owner))

RequeueTail(s, z) ==
    IF s.owner # z THEN s
    ELSE TryGrant(Enqueue([s EXCEPT !.owner = NoZone], z))

SetGrants(s, enabled) ==
    LET t == [s EXCEPT !.grantsEnabled = enabled]
    IN  IF enabled THEN TryGrant(t) ELSE t

SetBarrier(s, flags) == TryGrant([s EXCEPT !.barrier = flags])

CloseAdmission(s) ==
    [s EXCEPT !.grantsEnabled = FALSE,
              !.queue  = << >>,
              !.future = [z \in Zones |->
                            IF InQueue(s, z) THEN "cancelled" ELSE s.future[z]]]

(* The live set closes before the Store write is awaited ... *)
BlockerLive(s, k) ==
    [s EXCEPT !.blockers = s.blockers \cup {k},
              !.unpersisted = s.unpersisted \cup {k}]

BlockerSaved(s, k) == [s EXCEPT !.unpersisted = s.unpersisted \ {k}]

(* Slip: the last blocker goes and nobody is woken. *)
BlockerGoneSilently(s, k) ==
    [s EXCEPT !.blockers = s.blockers \ {k}, !.unpersisted = s.unpersisted \ {k}]

(* ... and reopens only after it. *)
BlockerGone(s, k) ==
    TryGrant([s EXCEPT !.blockers = s.blockers \ {k},
                       !.unpersisted = s.unpersisted \ {k}])
=============================================================================
