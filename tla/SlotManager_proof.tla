------------------------- MODULE SlotManager_proof -------------------------
(***************************************************************************)
(* Proofs about SlotManager, for any set of zones and of blocker keys.     *)
(*                                                                         *)
(* Every method is first shown, as an operator of SlotOps, to keep the     *)
(* slot state Sound and to hand the slot on only while nothing fences it   *)
(* (Fair).  The theorems about the specification then only have to find    *)
(* the method each action calls.                                           *)
(***************************************************************************)
EXTENDS SlotManager, SequenceTheorems, WellFoundedInduction, TLAPS

(* The inductive core: types, one live request per zone, no lost wake-up.  *)
Sound(s) == s \in SlotStates /\ LiveOnce(s) /\ Settled(s)

(* t may follow s: a zone that newly owns the slot got it unfenced. *)
Unfenced(s, t) ==
    t.owner \notin {s.owner, NoZone} => t.blockers = {} /\ AdmissionOpen(t)

SameFence(s, t) ==
    /\ t.blockers = s.blockers /\ t.unpersisted = s.unpersisted
    /\ t.grantsEnabled = s.grantsEnabled /\ t.barrier = s.barrier

-----------------------------------------------------------------------------
(* The queue of a typed slot state is a function on 1 .. Len. *)
LEMMA QueueDomain ==
  ASSUME NEW s \in SlotStates
  PROVE  /\ s.queue \in Seq(Zones) /\ Len(s.queue) \in Nat
         /\ DOMAIN s.queue = 1 .. Len(s.queue)
         /\ \A i \in DOMAIN s.queue : s.queue[i] \in Zones
BY LenProperties, ElementOfSeq DEF SlotStates

(* A non-empty set of naturals has a least element. *)
LEMMA LeastElement ==
  ASSUME NEW T, T \subseteq Nat, T # {}
  PROVE  \E i \in T : \A j \in T : i <= j
<1> DEFINE R == OpToRel(<, Nat)
<1>1. PICK i \in T : \A j \in T : <<j, i>> \notin R
  BY WFMin, NatLessThanWellFounded
<1>2. \A j \in T : ~(j < i)
  BY <1>1 DEF OpToRel
<1> QED BY <1>2

(* The position _try_grant_locked offers is offerable, and the first such. *)
LEMMA FirstIsOfferable ==
  ASSUME NEW s \in SlotStates, Offerable(s) # {}
  PROVE  /\ FirstOfferable(s) \in Offerable(s)
         /\ \A j \in Offerable(s) : FirstOfferable(s) <= j
<1>1. Offerable(s) \subseteq Nat
  BY QueueDomain DEF Offerable
<1> QED BY <1>1, LeastElement DEF FirstOfferable

(* What _try_grant_locked returns, field by field. *)
LEMMA OfferToFields ==
  ASSUME NEW s \in SlotStates, NEW i \in DOMAIN s.queue
  PROVE  LET t == OfferTo(s, i) IN
         /\ t \in SlotStates /\ SameFence(s, t)
         /\ t.owner = s.queue[i] /\ t.owner \in Zones
         /\ t.future = [s.future EXCEPT ![s.queue[i]] = "granted"]
         /\ DOMAIN t.queue = 1 .. Len(s.queue) - i
         /\ \A n \in DOMAIN t.queue : n + i \in DOMAIN s.queue /\ t.queue[n] = s.queue[n + i]
<1> DEFINE t == OfferTo(s, i)
           q == SubSeq(s.queue, i + 1, Len(s.queue))
<1>1. /\ s.queue[i] \in Zones /\ i \in 1 .. Len(s.queue) /\ Len(s.queue) \in Nat
      /\ DOMAIN s.queue = 1 .. Len(s.queue)
      /\ \A j \in 1 .. Len(s.queue) : s.queue[j] \in Zones
  BY QueueDomain
<1>2. /\ q \in Seq(Zones)
      /\ Len(q) = IF i + 1 <= Len(s.queue) THEN Len(s.queue) - (i + 1) + 1 ELSE 0
      /\ \A n \in 1 .. Len(s.queue) - (i + 1) + 1 : q[n] = s.queue[(i + 1) + n - 1]
  BY <1>1, SubSeqProperties
<1> HIDE DEF q
<1>3. DOMAIN q = 1 .. Len(s.queue) - i
  BY <1>1, <1>2, LenProperties
<1>4. \A n \in DOMAIN q : n + i \in DOMAIN s.queue /\ q[n] = s.queue[n + i]
  <2>1. TAKE n \in DOMAIN q
  <2>2. n \in 1 .. Len(s.queue) - (i + 1) + 1 /\ (i + 1) + n - 1 = n + i
    BY <1>1, <1>3, <2>1
  <2>3. n + i \in 1 .. Len(s.queue)
    BY <1>1, <2>2
  <2> QED BY <1>1, <1>2, <2>2, <2>3
<1> USE DEF q
<1>5. /\ t.owner = s.queue[i] /\ t.queue = q
      /\ t.future = [s.future EXCEPT ![s.queue[i]] = "granted"]
      /\ SameFence(s, t)
  BY DEF OfferTo, SlotStates, SameFence
<1>6. t \in SlotStates
  BY <1>1, <1>2 DEF OfferTo, SlotStates, Futures
<1> QED BY <1>1, <1>3, <1>4, <1>5, <1>6

(* Offering the slot leaves nobody waiting behind a grantable slot, keeps  *)
(* every zone's request unique, and happens only when nothing fences it.   *)
LEMMA TryGrantSound ==
  ASSUME NEW s \in SlotStates, LiveOnce(s)
  PROVE  Sound(TryGrant(s)) /\ SameFence(s, TryGrant(s)) /\ Unfenced(s, TryGrant(s))
<1> DEFINE t == TryGrant(s)
<1>1. CASE ~MayGrant(s)
  BY <1>1 DEF TryGrant, Sound, Settled, SameFence, Unfenced
<1>2. CASE MayGrant(s) /\ Offerable(s) = {}
  <2>1. t = [s EXCEPT !.queue = << >>]
    BY <1>2 DEF TryGrant
  <2> HIDE DEF t
  <2>2. /\ t \in SlotStates /\ SameFence(s, t) /\ t.owner = s.owner
        /\ t.queue = << >>
    BY <2>1, EmptySeq DEF SlotStates, SameFence
  <2>3. DOMAIN t.queue = {}
    BY <2>2
  <2> QED BY <2>2, <2>3 DEF Sound, Settled, LiveOnce, Offerable, Unfenced, t
<1>3. CASE MayGrant(s) /\ Offerable(s) # {}
  <2> DEFINE i == FirstOfferable(s)
  <2>1. t = OfferTo(s, i)
    BY <1>3 DEF TryGrant
  <2>2. i \in DOMAIN s.queue
    BY <1>3, FirstIsOfferable DEF Offerable
  <2> HIDE DEF i, t
  <2>3. /\ t \in SlotStates /\ SameFence(s, t)
        /\ t.owner = s.queue[i] /\ t.owner \in Zones
        /\ t.future = [s.future EXCEPT ![s.queue[i]] = "granted"]
        /\ DOMAIN t.queue = 1 .. Len(s.queue) - i
        /\ \A n \in DOMAIN t.queue : n + i \in DOMAIN s.queue /\ t.queue[n] = s.queue[n + i]
    BY <2>1, <2>2, OfferToFields
  <2>4. /\ i \in Nat \ {0} /\ DOMAIN t.queue \subseteq Nat \ {0}
        /\ s.future \in [Zones -> Futures]
        /\ \A n \in DOMAIN s.queue : s.queue[n] \in Zones
    BY <2>2, <2>3, QueueDomain DEF SlotStates
  <2>5. LiveOnce(t)
    <3>1. ASSUME NEW m \in DOMAIN t.queue, NEW n \in DOMAIN t.queue, t.queue[m] = t.queue[n]
          PROVE  m = n
      <4>1. m + i = n + i
        BY <2>3, <3>1 DEF LiveOnce
      <4> QED BY <2>4, <4>1
    <3>2. \A n \in DOMAIN t.queue : t.queue[n] # s.queue[i]
      BY <2>2, <2>3, <2>4 DEF LiveOnce
    <3>3. \A n \in DOMAIN t.queue : t.future[t.queue[n]] \in {"pending", "cancelled"}
      BY <2>3, <2>4, <3>2 DEF LiveOnce
    <3> QED BY <2>3, <3>1, <3>2, <3>3 DEF LiveOnce
  <2>6. Settled(t)
    BY <2>3, NoZoneAssumption DEF Settled, MayGrant
  <2>7. Unfenced(s, t)
    BY <1>3, <2>3 DEF Unfenced, SameFence, MayGrant, AdmissionOpen
  <2> QED BY <2>3, <2>5, <2>6, <2>7 DEF Sound, t
<1> QED BY <1>1, <1>2, <1>3

-----------------------------------------------------------------------------
(* The methods.  Each keeps the slot state Sound and hands it on Unfenced. *)

(* Queueing a zone that neither waits nor owns keeps requests unique. *)
LEMMA EnqueueLive ==
  ASSUME NEW s \in SlotStates, LiveOnce(s), NEW z \in Zones, z # s.owner, ~InQueue(s, z)
  PROVE  LET t == Enqueue(s, z) IN
         t \in SlotStates /\ LiveOnce(t) /\ SameFence(s, t) /\ t.owner = s.owner
<1> DEFINE t == Enqueue(s, z)
           q == Append(s.queue, z)
<1>1. /\ s.queue \in Seq(Zones) /\ Len(s.queue) \in Nat
      /\ DOMAIN s.queue = 1 .. Len(s.queue)
      /\ \A i \in DOMAIN s.queue : s.queue[i] \in Zones /\ s.queue[i] # z
  BY QueueDomain DEF InQueue
<1>2. /\ q \in Seq(Zones) /\ Len(q) = Len(s.queue) + 1
      /\ \A i \in 1 .. Len(s.queue) : q[i] = s.queue[i]
      /\ q[Len(s.queue) + 1] = z
  BY <1>1, AppendProperties
<1>3. t.queue = q /\ t.owner = s.owner /\ SameFence(s, t)
      /\ t.future = [s.future EXCEPT ![z] = "pending"]
  BY DEF Enqueue, SlotStates, SameFence
<1>4. t \in SlotStates
  BY <1>2 DEF Enqueue, SlotStates, Futures
<1> HIDE DEF q, t
<1>5. DOMAIN q = 1 .. Len(s.queue) + 1
  BY <1>2, LenProperties
<1>6. \A i \in DOMAIN q : \/ i \in DOMAIN s.queue /\ q[i] = s.queue[i]
                          \/ i = Len(s.queue) + 1 /\ q[i] = z
  BY <1>1, <1>2, <1>5
<1>7. ASSUME NEW i \in DOMAIN q, NEW j \in DOMAIN q, q[i] = q[j]
      PROVE  i = j
  BY <1>1, <1>6, <1>7 DEF LiveOnce
<1>8. \A i \in DOMAIN q : q[i] # s.owner
  BY <1>6 DEF LiveOnce
<1>9. \A i \in DOMAIN q : t.future[q[i]] \in {"pending", "cancelled"}
  BY <1>1, <1>3, <1>6 DEF LiveOnce, SlotStates
<1>10. LiveOnce(t)
  BY <1>3, <1>7, <1>8, <1>9 DEF LiveOnce
<1> QED BY <1>3, <1>4, <1>10 DEF t

(* Dropping one place of the queue keeps the rest in order. *)
LEMMA WithoutFields ==
  ASSUME NEW q \in Seq(Zones), NEW i \in DOMAIN q
  PROVE  LET r == Without(q, i) IN
         /\ r \in Seq(Zones)
         /\ DOMAIN r = 1 .. Len(q) - 1
         /\ \A n \in DOMAIN r : /\ (IF n < i THEN n ELSE n + 1) \in DOMAIN q
                               /\ r[n] = q[IF n < i THEN n ELSE n + 1]
<1> DEFINE r == Without(q, i)
<1>1. /\ Len(q) \in Nat /\ DOMAIN q = 1 .. Len(q) /\ i \in 1 .. Len(q)
      /\ \A n \in 1 .. Len(q) : q[n] \in Zones
  BY LenProperties, ElementOfSeq
<1>2. DOMAIN r = 1 .. Len(q) - 1
  BY DEF Without
<1>3. \A n \in 1 .. Len(q) - 1 : r[n] = q[IF n < i THEN n ELSE n + 1]
  BY <1>1 DEF Without
<1>4. \A n \in 1 .. Len(q) - 1 : (IF n < i THEN n ELSE n + 1) \in 1 .. Len(q)
  BY <1>1
<1>5. r \in [1 .. Len(q) - 1 -> Zones]
  BY <1>1, <1>4 DEF Without
<1>6. r \in Seq(Zones)
  <2>1. Len(q) - 1 \in Nat
    BY <1>1
  <2> QED BY <1>5, <2>1, SeqDef
<1> QED BY <1>1, <1>2, <1>3, <1>4, <1>6

(* async_cancel_request *)
LEMMA CancelRequestSound ==
  ASSUME NEW s, Sound(s), NEW z \in Zones
  PROVE  LET t == CancelRequest(s, z) IN
         Sound(t) /\ SameFence(s, t) /\ Unfenced(s, t)
<1> DEFINE t == CancelRequest(s, z)
           i == Position(s, z)
<1>1. CASE ~InQueue(s, z)
  BY <1>1 DEF CancelRequest, SameFence, Unfenced
<1>2. CASE InQueue(s, z)
  <2>1. i \in DOMAIN s.queue
    BY <1>2 DEF Position, InQueue
  <2>2. s \in SlotStates /\ s.queue \in Seq(Zones)
    BY QueueDomain DEF Sound
  <2>3. t = [s EXCEPT !.queue = Without(s.queue, i)]
    BY <1>2 DEF CancelRequest
  <2> HIDE DEF i, t
  <2> DEFINE r == Without(s.queue, i)
             Old(n) == IF n < i THEN n ELSE n + 1
  <2>4. /\ r \in Seq(Zones) /\ DOMAIN r = 1 .. Len(s.queue) - 1
        /\ \A n \in DOMAIN r : Old(n) \in DOMAIN s.queue /\ r[n] = s.queue[Old(n)]
    BY <2>1, <2>2, WithoutFields
  <2>5. /\ t.queue = r /\ t.owner = s.owner /\ t.future = s.future
        /\ SameFence(s, t) /\ t \in SlotStates
    BY <2>2, <2>3, <2>4 DEF SlotStates, SameFence
  <2>6. i \in Nat /\ DOMAIN r \subseteq Nat
    BY <2>1, <2>2, <2>4, LenProperties
  <2> HIDE DEF r
  <2>7. ASSUME NEW m \in DOMAIN r, NEW n \in DOMAIN r, r[m] = r[n]
        PROVE  m = n
    <3>1. Old(m) = Old(n)
      BY <2>4, <2>7 DEF Sound, LiveOnce
    <3> QED BY <2>6, <3>1
  <2> HIDE DEF Old
  <2>8. LiveOnce(t)
    BY <2>4, <2>5, <2>7 DEF Sound, LiveOnce
  <2>9. Settled(t)
    BY <2>4, <2>5 DEF Sound, Settled, MayGrant, AdmissionOpen, SameFence, Offerable
  <2> QED BY <2>5, <2>8, <2>9 DEF Sound, Unfenced, t
<1> QED BY <1>1, <1>2

(* async_request *)
LEMMA RequestSound ==
  ASSUME NEW s, Sound(s), NEW z \in Zones
  PROVE  LET t == Request(s, z) IN
         Sound(t) /\ SameFence(s, t) /\ Unfenced(s, t)
<1> DEFINE t == Request(s, z)
<1>0. s \in SlotStates /\ LiveOnce(s)
  BY DEF Sound
<1>1. CASE s.owner = z
  <2>1. t = [s EXCEPT !.future = [s.future EXCEPT ![z] = "granted"]]
    BY <1>1 DEF Request
  <2> HIDE DEF t
  <2>2. /\ t \in SlotStates /\ SameFence(s, t) /\ t.owner = s.owner /\ t.queue = s.queue
        /\ t.future = [s.future EXCEPT ![z] = "granted"]
    BY <1>0, <2>1 DEF SlotStates, SameFence, Futures
  <2>3. \A i \in DOMAIN s.queue : s.queue[i] # z /\ t.future[s.queue[i]] = s.future[s.queue[i]]
    BY <1>0, <1>1, <2>2, QueueDomain DEF LiveOnce, SlotStates
  <2>4. LiveOnce(t)
    BY <1>0, <2>2, <2>3 DEF LiveOnce
  <2>5. Settled(t)
    BY <1>1, <2>2, NoZoneAssumption DEF Settled, MayGrant
  <2> QED BY <2>2, <2>4, <2>5 DEF Sound, Unfenced, t
<1>2. CASE s.owner # z /\ InQueue(s, z)
  BY <1>2 DEF Request, SameFence, Unfenced
<1>3. CASE s.owner # z /\ ~InQueue(s, z)
  <2> DEFINE u == Enqueue(s, z)
  <2>1. t = TryGrant(u)
    BY <1>3 DEF Request
  <2>2. u \in SlotStates /\ LiveOnce(u) /\ SameFence(s, u) /\ u.owner = s.owner
    BY <1>0, <1>3, EnqueueLive
  <2> HIDE DEF u, t
  <2>3. Sound(t) /\ SameFence(u, t) /\ Unfenced(u, t)
    BY <2>1, <2>2, TryGrantSound
  <2> QED BY <2>2, <2>3 DEF SameFence, Unfenced, t
<1> QED BY <1>1, <1>2, <1>3

(* The owner lets go, before anybody is offered the slot. *)
LEMMA FreedLive ==
  ASSUME NEW s \in SlotStates, LiveOnce(s)
  PROVE  LET t == [s EXCEPT !.owner = NoZone] IN
         /\ t \in SlotStates /\ LiveOnce(t) /\ SameFence(s, t)
         /\ t.owner = NoZone /\ t.queue = s.queue
<1> DEFINE t == [s EXCEPT !.owner = NoZone]
<1>1. /\ t \in SlotStates /\ SameFence(s, t) /\ t.owner = NoZone
      /\ t.queue = s.queue /\ t.future = s.future
  BY DEF SlotStates, SameFence
<1>2. \A i \in DOMAIN s.queue : s.queue[i] # NoZone
  BY QueueDomain, NoZoneAssumption
<1> HIDE DEF t
<1>3. LiveOnce(t)
  BY <1>1, <1>2 DEF LiveOnce
<1> QED BY <1>1, <1>3 DEF t

(* async_release *)
LEMMA ReleaseSound ==
  ASSUME NEW s, Sound(s), NEW z \in Zones
  PROVE  LET t == Release(s, z) IN
         Sound(t) /\ SameFence(s, t) /\ Unfenced(s, t)
<1> DEFINE t == Release(s, z)
           u == [s EXCEPT !.owner = NoZone]
<1>1. CASE s.owner # z
  BY <1>1 DEF Release, SameFence, Unfenced
<1>2. CASE s.owner = z
  <2>1. t = TryGrant(u)
    BY <1>2 DEF Release
  <2>2. u \in SlotStates /\ LiveOnce(u) /\ SameFence(s, u) /\ u.owner = NoZone
    BY FreedLive DEF Sound
  <2> HIDE DEF u, t
  <2>3. Sound(t) /\ SameFence(u, t) /\ Unfenced(u, t)
    BY <2>1, <2>2, TryGrantSound
  <2> QED BY <2>2, <2>3 DEF SameFence, Unfenced, t
<1> QED BY <1>1, <1>2

(* async_requeue_tail *)
LEMMA RequeueTailSound ==
  ASSUME NEW s, Sound(s), NEW z \in Zones
  PROVE  LET t == RequeueTail(s, z) IN
         Sound(t) /\ SameFence(s, t) /\ Unfenced(s, t)
<1> DEFINE t == RequeueTail(s, z)
           u == [s EXCEPT !.owner = NoZone]
           v == Enqueue(u, z)
<1>1. CASE s.owner # z
  BY <1>1 DEF RequeueTail, SameFence, Unfenced
<1>2. CASE s.owner = z
  <2>1. t = TryGrant(v)
    BY <1>2 DEF RequeueTail
  <2>2. /\ u \in SlotStates /\ LiveOnce(u) /\ SameFence(s, u)
        /\ u.owner = NoZone /\ u.queue = s.queue
    BY FreedLive DEF Sound
  <2>3. z # u.owner /\ ~InQueue(u, z)
    BY <1>2, <2>2, NoZoneAssumption DEF Sound, LiveOnce, InQueue
  <2> HIDE DEF u
  <2>4. v \in SlotStates /\ LiveOnce(v) /\ SameFence(u, v) /\ v.owner = NoZone
    BY <2>2, <2>3, EnqueueLive
  <2> HIDE DEF v, t
  <2>5. Sound(t) /\ SameFence(v, t) /\ Unfenced(v, t)
    BY <2>1, <2>4, TryGrantSound
  <2> QED BY <2>2, <2>4, <2>5 DEF SameFence, Unfenced, t
<1> QED BY <1>1, <1>2

(* Methods that leave owner, queue and futures alone keep requests unique, *)
(* and an offer afterwards makes the state Sound again.                    *)
LEMMA FenceChanged ==
  ASSUME NEW s, Sound(s), NEW u \in SlotStates,
         u.owner = s.owner, u.queue = s.queue, u.future = s.future
  PROVE  /\ LiveOnce(u)
         /\ Sound(TryGrant(u)) /\ SameFence(u, TryGrant(u)) /\ Unfenced(s, TryGrant(u))
<1>1. LiveOnce(u)
  BY DEF Sound, LiveOnce
<1>2. Sound(TryGrant(u)) /\ SameFence(u, TryGrant(u)) /\ Unfenced(u, TryGrant(u))
  BY <1>1, TryGrantSound
<1> QED BY <1>1, <1>2 DEF Unfenced

(* async_set_reconciliation_barrier and set_reconciliation_state_now *)
LEMMA SetBarrierSound ==
  ASSUME NEW s, Sound(s), NEW flags \in SUBSET Flags
  PROVE  LET t == SetBarrier(s, flags) IN
         /\ Sound(t) /\ Unfenced(s, t)
         /\ t.blockers = s.blockers /\ t.unpersisted = s.unpersisted
<1> DEFINE u == [s EXCEPT !.barrier = flags]
<1>1. /\ u \in SlotStates /\ u.owner = s.owner /\ u.queue = s.queue /\ u.future = s.future
      /\ u.blockers = s.blockers /\ u.unpersisted = s.unpersisted
  BY DEF Sound, SlotStates
<1> HIDE DEF u
<1>2. Sound(TryGrant(u)) /\ SameFence(u, TryGrant(u)) /\ Unfenced(s, TryGrant(u))
  BY <1>1, FenceChanged
<1> QED BY <1>1, <1>2 DEF SetBarrier, SameFence, u

(* async_enable_grants and async_disable_grants *)
LEMMA SetGrantsSound ==
  ASSUME NEW s, Sound(s), NEW enabled \in BOOLEAN
  PROVE  LET t == SetGrants(s, enabled) IN
         /\ Sound(t) /\ Unfenced(s, t)
         /\ t.blockers = s.blockers /\ t.unpersisted = s.unpersisted
<1> DEFINE t == SetGrants(s, enabled)
           u == [s EXCEPT !.grantsEnabled = enabled]
<1>1. /\ u \in SlotStates /\ u.owner = s.owner /\ u.queue = s.queue /\ u.future = s.future
      /\ u.blockers = s.blockers /\ u.unpersisted = s.unpersisted
      /\ u.grantsEnabled = enabled
  BY DEF Sound, SlotStates
<1>2. t = IF enabled THEN TryGrant(u) ELSE u
  BY DEF SetGrants
<1> HIDE DEF u, t
<1>3. /\ LiveOnce(u)
      /\ Sound(TryGrant(u)) /\ SameFence(u, TryGrant(u)) /\ Unfenced(s, TryGrant(u))
  BY <1>1, FenceChanged
<1>4. CASE enabled
  BY <1>1, <1>2, <1>3, <1>4 DEF SameFence, t
<1>5. CASE ~enabled
  <2>1. t = u /\ Settled(u)
    BY <1>1, <1>2, <1>5 DEF Settled, MayGrant, AdmissionOpen
  <2> QED BY <1>1, <1>3, <2>1 DEF Sound, Unfenced, t
<1> QED BY <1>4, <1>5

(* close_admission_now *)
LEMMA CloseAdmissionSound ==
  ASSUME NEW s, Sound(s)
  PROVE  LET t == CloseAdmission(s) IN
         /\ Sound(t) /\ Unfenced(s, t)
         /\ t.blockers = s.blockers /\ t.unpersisted = s.unpersisted
<1> DEFINE t == CloseAdmission(s)
           f == [z \in Zones |-> IF InQueue(s, z) THEN "cancelled" ELSE s.future[z]]
<1>1. f \in [Zones -> Futures]
  BY DEF Sound, SlotStates, Futures
<1> HIDE DEF f
<1>2. t = [s EXCEPT !.grantsEnabled = FALSE, !.queue = << >>, !.future = f]
  BY DEF CloseAdmission, f
<1> HIDE DEF t
<1>3. /\ t \in SlotStates /\ t.owner = s.owner /\ t.queue = << >> /\ ~t.grantsEnabled
      /\ t.blockers = s.blockers /\ t.unpersisted = s.unpersisted
  BY <1>1, <1>2, EmptySeq DEF Sound, SlotStates
<1>4. DOMAIN t.queue = {}
  BY <1>3
<1> QED BY <1>3, <1>4 DEF Sound, LiveOnce, Settled, MayGrant, AdmissionOpen, Unfenced, t

(* The live half of async_add_blocker. *)
LEMMA BlockerLiveSound ==
  ASSUME NEW s, Sound(s), NEW k \in Keys
  PROVE  LET t == BlockerLive(s, k) IN
         /\ Sound(t) /\ Unfenced(s, t)
         /\ t.blockers = s.blockers \cup {k} /\ t.unpersisted = s.unpersisted \cup {k}
<1> DEFINE t == BlockerLive(s, k)
<1>1. /\ t \in SlotStates /\ t.owner = s.owner /\ t.queue = s.queue /\ t.future = s.future
      /\ t.blockers = s.blockers \cup {k} /\ t.unpersisted = s.unpersisted \cup {k}
  BY DEF BlockerLive, Sound, SlotStates
<1> HIDE DEF t
<1>2. LiveOnce(t)
  BY <1>1, FenceChanged
<1>3. Settled(t)
  BY <1>1 DEF Settled, MayGrant
<1> QED BY <1>1, <1>2, <1>3 DEF Sound, Unfenced, t

(* The saved half of async_add_blocker. *)
LEMMA BlockerSavedSound ==
  ASSUME NEW s, Sound(s), NEW k \in Keys
  PROVE  LET t == BlockerSaved(s, k) IN
         /\ Sound(t) /\ Unfenced(s, t)
         /\ t.blockers = s.blockers /\ t.unpersisted = s.unpersisted \ {k}
<1> DEFINE t == BlockerSaved(s, k)
<1>1. /\ t \in SlotStates /\ t.owner = s.owner /\ t.queue = s.queue /\ t.future = s.future
      /\ t.blockers = s.blockers /\ t.unpersisted = s.unpersisted \ {k}
      /\ t.grantsEnabled = s.grantsEnabled /\ t.barrier = s.barrier
  BY DEF BlockerSaved, Sound, SlotStates
<1> HIDE DEF t
<1>2. LiveOnce(t)
  BY <1>1, FenceChanged
<1>3. Settled(t)
  BY <1>1 DEF Sound, Settled, MayGrant, AdmissionOpen, Offerable
<1> QED BY <1>1, <1>2, <1>3 DEF Sound, Unfenced, t

(* The end of async_remove_blocker. *)
LEMMA BlockerGoneSound ==
  ASSUME NEW s, Sound(s), NEW k \in Keys
  PROVE  LET t == BlockerGone(s, k) IN
         /\ Sound(t) /\ Unfenced(s, t)
         /\ t.blockers = s.blockers \ {k} /\ t.unpersisted = s.unpersisted \ {k}
<1> DEFINE u == [s EXCEPT !.blockers = s.blockers \ {k}, !.unpersisted = s.unpersisted \ {k}]
<1>1. /\ u \in SlotStates /\ u.owner = s.owner /\ u.queue = s.queue /\ u.future = s.future
      /\ u.blockers = s.blockers \ {k} /\ u.unpersisted = s.unpersisted \ {k}
  BY DEF Sound, SlotStates
<1> HIDE DEF u
<1>2. Sound(TryGrant(u)) /\ SameFence(u, TryGrant(u)) /\ Unfenced(s, TryGrant(u))
  BY <1>1, FenceChanged
<1> QED BY <1>1, <1>2 DEF BlockerGone, SameFence, u

(* A waiting task is cancelled. *)
LEMMA AbandonSound ==
  ASSUME NEW s, Sound(s), NEW z \in Zones
  PROVE  LET t == [s EXCEPT !.future = [s.future EXCEPT ![z] = "cancelled"]] IN
         Sound(t) /\ SameFence(s, t) /\ Unfenced(s, t)
<1> DEFINE t == [s EXCEPT !.future = [s.future EXCEPT ![z] = "cancelled"]]
<1>1. /\ t \in SlotStates /\ SameFence(s, t) /\ t.owner = s.owner /\ t.queue = s.queue
      /\ t.future = [s.future EXCEPT ![z] = "cancelled"]
  BY DEF Sound, SlotStates, SameFence, Futures
<1> HIDE DEF t
<1>2. \A i \in DOMAIN s.queue : t.future[s.queue[i]] \in {s.future[s.queue[i]], "cancelled"}
  BY <1>1, QueueDomain DEF Sound, SlotStates
<1>3. LiveOnce(t)
  BY <1>1, <1>2 DEF Sound, LiveOnce
<1>4. Settled(t)
  BY <1>1, <1>2 DEF Sound, Settled, MayGrant, AdmissionOpen, SameFence, Offerable
<1> QED BY <1>1, <1>3, <1>4 DEF Sound, Unfenced, t

-----------------------------------------------------------------------------
(* The specification.  The four invariants are inductive together: the     *)
(* wake-up argument needs unique requests, and these need types.           *)

IInv == TypeOK /\ OneLiveRequest /\ NoMissedGrant /\ FailClosed

(* A call that neither takes nor ends a Store write. *)
MethodCall ==
    \/ EnableGrants
    \/ DisableGrants
    \/ SetReconciliationBarrier
    \/ SetReconciliationStateNow
    \/ CloseAdmissionNow
    \/ \E z \in Zones : \/ AsyncRequest(z)
                        \/ AsyncCancelRequest(z)
                        \/ AsyncRelease(z)
                        \/ AsyncRequeueTail(z)
                        \/ AbandonRequest(z)

(* Such a call keeps the slot state sound and leaves the blockers alone. *)
LEMMA MethodCallSound ==
  ASSUME Sound(slots), MethodCall
  PROVE  /\ Sound(slots') /\ Unfenced(slots, slots')
         /\ slots'.blockers = slots.blockers /\ slots'.unpersisted = slots.unpersisted
<1>1. CASE EnableGrants
  BY <1>1, SetGrantsSound DEF EnableGrants
<1>2. CASE DisableGrants
  BY <1>2, SetGrantsSound DEF DisableGrants
<1>3. CASE SetReconciliationBarrier
  BY <1>3, SetBarrierSound DEF SetReconciliationBarrier
<1>4. CASE SetReconciliationStateNow
  BY <1>4, SetBarrierSound DEF SetReconciliationStateNow
<1>5. CASE CloseAdmissionNow
  BY <1>5, CloseAdmissionSound DEF CloseAdmissionNow
<1>6. ASSUME NEW z \in Zones, AsyncRequest(z)
      PROVE  Sound(slots') /\ Unfenced(slots, slots') /\ SameFence(slots, slots')
  BY <1>6, RequestSound DEF AsyncRequest
<1>7. ASSUME NEW z \in Zones, AsyncCancelRequest(z)
      PROVE  Sound(slots') /\ Unfenced(slots, slots') /\ SameFence(slots, slots')
  BY <1>7, CancelRequestSound DEF AsyncCancelRequest
<1>8. ASSUME NEW z \in Zones, AsyncRelease(z)
      PROVE  Sound(slots') /\ Unfenced(slots, slots') /\ SameFence(slots, slots')
  BY <1>8, ReleaseSound DEF AsyncRelease
<1>9. ASSUME NEW z \in Zones, AsyncRequeueTail(z)
      PROVE  Sound(slots') /\ Unfenced(slots, slots') /\ SameFence(slots, slots')
  BY <1>9, RequeueTailSound DEF AsyncRequeueTail
<1>10. ASSUME NEW z \in Zones, AbandonRequest(z)
       PROVE  Sound(slots') /\ Unfenced(slots, slots') /\ SameFence(slots, slots')
  BY <1>10, AbandonSound DEF AbandonRequest
<1> QED
  BY <1>1, <1>2, <1>3, <1>4, <1>5, <1>6, <1>7, <1>8, <1>9, <1>10 DEF MethodCall, SameFence

(* A Store write that is in flight has an operation and a key. *)
LEMMA WriteFields ==
  ASSUME writing \in Writes
  PROVE  writing.key \in Keys /\ writing.op \in {"add", "remove"} /\ writing # NoWrite
BY DEF Writes, NoWrite

(* The initial state. *)
LEMMA InitIInv ==
  ASSUME Init
  PROVE  IInv
<1>1. slots \in SlotStates
  BY EmptySeq DEF Init, InitialSlots, SlotStates, Futures
<1>2. /\ slots.queue = << >> /\ ~slots.grantsEnabled /\ slots.blockers = {}
      /\ writing = NoWrite /\ recorded = {}
  BY DEF Init, InitialSlots
<1>3. DOMAIN slots.queue = {}
  BY <1>2
<1>4. NoWrite \notin Writes
  BY DEF NoWrite, Writes
<1> QED BY <1>1, <1>2, <1>3, <1>4
        DEF IInv, TypeOK, OneLiveRequest, LiveOnce, NoMissedGrant, Settled, MayGrant,
            AdmissionOpen, FailClosed

(* Every step keeps the invariant and hands the slot on unfenced. *)
LEMMA StepIInv ==
  ASSUME IInv, [Next]_vars
  PROVE  IInv' /\ Unfenced(slots, slots')
<1>1. Sound(slots)
  BY DEF IInv, TypeOK, OneLiveRequest, NoMissedGrant, Sound
<1>2. /\ writing \in Writes \cup {NoWrite} /\ recorded \subseteq Keys
      /\ recorded \subseteq slots.blockers
      /\ slots.blockers \ recorded \subseteq slots.unpersisted
      /\ writing \in Writes => writing.key \in slots.blockers
  BY DEF IInv, TypeOK, FailClosed
<1> SUFFICES /\ Sound(slots') /\ Unfenced(slots, slots')
             /\ writing' \in Writes \cup {NoWrite} /\ recorded' \subseteq Keys
             /\ FailClosed'
  BY DEF IInv, TypeOK, OneLiveRequest, NoMissedGrant, Sound
<1>3. NoWrite \notin Writes
  BY DEF NoWrite, Writes
<1>4. ASSUME NEW k \in Keys, AddBlocker(k)
      PROVE  /\ Sound(slots') /\ Unfenced(slots, slots')
             /\ writing' \in Writes /\ recorded' \subseteq Keys /\ FailClosed'
  <2>1. /\ Sound(slots') /\ Unfenced(slots, slots')
        /\ slots'.blockers = slots.blockers \cup {k}
        /\ slots'.unpersisted = slots.unpersisted \cup {k}
    BY <1>1, <1>4, BlockerLiveSound DEF AddBlocker
  <2>2. writing' \in Writes /\ writing'.key = k /\ recorded' = recorded
    BY <1>4 DEF AddBlocker, Writes
  <2> QED BY <1>2, <2>1, <2>2 DEF FailClosed
<1>5. ASSUME NEW k \in Keys, RemoveBlocker(k)
      PROVE  /\ Sound(slots') /\ Unfenced(slots, slots')
             /\ writing' \in Writes /\ recorded' \subseteq Keys /\ FailClosed'
  <2>1. /\ slots' = slots /\ recorded' = recorded /\ k \in slots.blockers
        /\ writing' \in Writes /\ writing'.key = k
    BY <1>5 DEF RemoveBlocker, Writes
  <2> QED BY <1>1, <1>2, <2>1 DEF FailClosed, Unfenced
<1>6. CASE WriteVerified
  <2>1. writing.key \in Keys /\ writing' = NoWrite
    BY <1>6, WriteFields DEF WriteVerified
  <2>2. CASE writing.op = "add"
    <3>1. slots' = BlockerSaved(slots, writing.key) /\ recorded' = recorded \cup {writing.key}
      BY <1>6, <2>2 DEF WriteVerified
    <3>2. /\ Sound(slots') /\ Unfenced(slots, slots')
          /\ slots'.blockers = slots.blockers
          /\ slots'.unpersisted = slots.unpersisted \ {writing.key}
      BY <1>1, <2>1, <3>1, BlockerSavedSound
    <3>3. writing.key \in slots.blockers
      BY <1>2, <1>6 DEF WriteVerified
    <3> QED BY <1>2, <1>3, <2>1, <3>1, <3>2, <3>3 DEF FailClosed
  <2>3. CASE writing.op # "add"
    <3>1. slots' = BlockerGone(slots, writing.key) /\ recorded' = recorded \ {writing.key}
      BY <1>6, <2>3 DEF WriteVerified
    <3>2. /\ Sound(slots') /\ Unfenced(slots, slots')
          /\ slots'.blockers = slots.blockers \ {writing.key}
          /\ slots'.unpersisted = slots.unpersisted \ {writing.key}
      BY <1>1, <2>1, <3>1, BlockerGoneSound
    <3> QED BY <1>2, <1>3, <2>1, <3>1, <3>2 DEF FailClosed
  <2> QED BY <2>2, <2>3
<1>7. CASE WriteFailed
  BY <1>1, <1>2, <1>3, <1>7 DEF WriteFailed, FailClosed, Unfenced
<1>8. CASE MethodCall /\ UNCHANGED <<writing, recorded>>
  <2>1. /\ Sound(slots') /\ Unfenced(slots, slots')
        /\ slots'.blockers = slots.blockers /\ slots'.unpersisted = slots.unpersisted
    BY <1>1, <1>8, MethodCallSound
  <2> QED BY <1>2, <1>8, <2>1 DEF FailClosed
<1>9. CASE UNCHANGED vars
  BY <1>1, <1>2, <1>9 DEF vars, FailClosed, Unfenced
<1> QED BY <1>4, <1>5, <1>6, <1>7, <1>8, <1>9 DEF Next, MethodCall

(* The four invariants hold of every reachable state. *)
THEOREM Invariance == Spec => []IInv
<1>1. Init => IInv
  BY InitIInv
<1>2. IInv /\ [Next]_vars => IInv'
  BY StepIInv
<1> QED BY <1>1, <1>2, PTL DEF Spec

(* Every field keeps its type, for any zones and keys. *)
THEOREM TypeCorrect == Spec => []TypeOK
<1>1. IInv => TypeOK
  BY DEF IInv
<1> QED BY <1>1, Invariance, PTL

(* A zone never has two live requests, nor waits for what it owns. *)
THEOREM RequestsUnique == Spec => []OneLiveRequest
<1>1. IInv => OneLiveRequest
  BY DEF IInv
<1> QED BY <1>1, Invariance, PTL

(* No order of calls, Store failures and cancellations loses a wake-up. *)
THEOREM NoLostWakeUp == Spec => []NoMissedGrant
<1>1. IInv => NoMissedGrant
  BY DEF IInv
<1> QED BY <1>1, Invariance, PTL

(* Live blockers cover what the Store records, whatever a write does. *)
THEOREM BlockersFailClosed == Spec => []FailClosed
<1>1. IInv => FailClosed
  BY DEF IInv
<1> QED BY <1>1, Invariance, PTL

(* The slot changes hands only while neither a live, nor a recorded, nor a *)
(* blocker being written fences it, and the barrier is open.               *)
THEOREM GrantsAreUnfenced == Spec => GrantsOnlyUnfenced
<1>1. IInv /\ [Next]_vars =>
        [ (slots'.owner # slots.owner /\ slots'.owner # NoZone) =>
            /\ slots'.blockers = {}
            /\ recorded' = {}
            /\ writing' = NoWrite
            /\ AdmissionOpen(slots') ]_vars
  <2> SUFFICES ASSUME IInv, [Next]_vars, slots'.owner # slots.owner, slots'.owner # NoZone
               PROVE  /\ slots'.blockers = {}
                      /\ recorded' = {}
                      /\ writing' = NoWrite
                      /\ AdmissionOpen(slots')
    OBVIOUS
  <2>1. IInv' /\ Unfenced(slots, slots')
    BY StepIInv
  <2>2. slots'.blockers = {} /\ AdmissionOpen(slots')
    BY <2>1 DEF Unfenced
  <2>3. recorded' = {} /\ writing' = NoWrite
    BY <2>1, <2>2 DEF IInv, TypeOK, FailClosed
  <2> QED BY <2>2, <2>3
<1> QED BY <1>1, Invariance, PTL DEF Spec, GrantsOnlyUnfenced

-----------------------------------------------------------------------------
(* First come, first served.  t follows s in order: whoever is ahead of a  *)
(* zone that waited in s was ahead of it in s, and a new owner was ahead   *)
(* of every zone that was still waiting.                                   *)
InOrder(s, t) ==
    \A y \in Zones :
        InQueue(s, y) =>
            /\ \A z \in Zones : Ahead(t, z, y) => Ahead(s, z, y)
            /\ s.future[y] = "pending" =>
                   t.owner \in {s.owner, NoZone, y} \/ Ahead(s, t.owner, y)

(* What the methods do before they offer the slot: the waiting zones keep  *)
(* their places and futures, and only the owner may let go.                *)
Keeps(s, u) ==
    /\ u.owner \in {s.owner, NoZone}
    /\ \A y \in Zones :
          InQueue(s, y) => /\ InQueue(u, y) /\ u.future[y] = s.future[y]
                          /\ \A z \in Zones : Ahead(u, z, y) => Ahead(s, z, y)

(* _try_grant_locked takes the first request that is not cancelled, so it  *)
(* passes over no zone that is still waiting.                              *)
LEMMA TryGrantInOrder ==
  ASSUME NEW s \in SlotStates, LiveOnce(s)
  PROVE  InOrder(s, TryGrant(s))
<1> DEFINE t == TryGrant(s)
<1>1. CASE ~MayGrant(s)
  BY <1>1 DEF TryGrant, InOrder
<1>2. CASE MayGrant(s) /\ Offerable(s) = {}
  <2>1. t = [s EXCEPT !.queue = << >>]
    BY <1>2 DEF TryGrant
  <2>2. t.owner = s.owner /\ t.queue = << >>
    BY <2>1 DEF SlotStates
  <2>3. DOMAIN t.queue = {}
    BY <2>2
  <2> QED BY <2>2, <2>3 DEF InOrder, Ahead
<1>3. CASE MayGrant(s) /\ Offerable(s) # {}
  <2> DEFINE i == FirstOfferable(s)
  <2>1. t = OfferTo(s, i)
    BY <1>3 DEF TryGrant
  <2>2. i \in DOMAIN s.queue /\ \A j \in Offerable(s) : i <= j
    BY <1>3, FirstIsOfferable DEF Offerable
  <2> HIDE DEF i, t
  <2>3. /\ t \in SlotStates /\ SameFence(s, t)
        /\ t.owner = s.queue[i] /\ t.owner \in Zones
        /\ t.future = [s.future EXCEPT ![s.queue[i]] = "granted"]
        /\ DOMAIN t.queue = 1 .. Len(s.queue) - i
        /\ \A n \in DOMAIN t.queue : n + i \in DOMAIN s.queue /\ t.queue[n] = s.queue[n + i]
    BY <2>1, <2>2, OfferToFields
  <2>4. DOMAIN s.queue = 1 .. Len(s.queue) /\ Len(s.queue) \in Nat
    BY QueueDomain
  <2> SUFFICES ASSUME NEW y \in Zones, InQueue(s, y)
               PROVE  /\ \A z \in Zones : Ahead(t, z, y) => Ahead(s, z, y)
                      /\ s.future[y] = "pending" => t.owner = y \/ Ahead(s, t.owner, y)
    BY DEF InOrder, t
  <2>5. ASSUME NEW z \in Zones, Ahead(t, z, y)
        PROVE  Ahead(s, z, y)
    <3>1. PICK m, n \in DOMAIN t.queue : m < n /\ t.queue[m] = z /\ t.queue[n] = y
      BY <2>5 DEF Ahead
    <3>2. /\ m + i \in DOMAIN s.queue /\ s.queue[m + i] = z
          /\ n + i \in DOMAIN s.queue /\ s.queue[n + i] = y
      BY <2>3, <3>1
    <3>3. m + i < n + i
      BY <2>2, <2>3, <2>4, <3>1
    <3> QED BY <3>2, <3>3 DEF Ahead
  <2>6. ASSUME s.future[y] = "pending", t.owner # y
        PROVE  Ahead(s, t.owner, y)
    <3>1. PICK j \in DOMAIN s.queue : s.queue[j] = y
      BY DEF InQueue
    <3>2. i <= j
      BY <2>2, <2>6, <3>1 DEF Offerable
    <3>3. i # j
      BY <2>3, <2>6, <3>1
    <3>4. i < j
      BY <2>2, <2>4, <3>1, <3>2, <3>3
    <3> QED BY <2>2, <2>3, <3>1, <3>4 DEF Ahead
  <2> QED BY <2>5, <2>6
<1> QED BY <1>1, <1>2, <1>3

(* Keeping the places and then offering the slot is in order. *)
LEMMA KeptThenOffered ==
  ASSUME NEW s, NEW u \in SlotStates, LiveOnce(u), Keeps(s, u)
  PROVE  InOrder(s, TryGrant(u)) /\ InOrder(s, u)
<1>1. InOrder(u, TryGrant(u))
  BY TryGrantInOrder
<1>2. TryGrant(u).owner \in Zones \cup {NoZone}
  BY TryGrantSound DEF Sound, SlotStates
<1> HIDE DEF TryGrant
<1> QED BY <1>1, <1>2, NoZoneAssumption DEF InOrder, Keeps

(* A new request goes behind every zone that waits. *)
LEMMA EnqueueKeeps ==
  ASSUME NEW s \in SlotStates, NEW z \in Zones, ~InQueue(s, z)
  PROVE  Keeps(s, Enqueue(s, z))
<1> DEFINE u == Enqueue(s, z)
           q == Append(s.queue, z)
<1>1. /\ s.queue \in Seq(Zones) /\ Len(s.queue) \in Nat
      /\ DOMAIN s.queue = 1 .. Len(s.queue)
      /\ \A i \in DOMAIN s.queue : s.queue[i] # z
  BY QueueDomain DEF InQueue
<1>2. /\ q \in Seq(Zones) /\ Len(q) = Len(s.queue) + 1
      /\ \A i \in 1 .. Len(s.queue) : q[i] = s.queue[i]
      /\ q[Len(s.queue) + 1] = z
  BY <1>1, AppendProperties
<1>3. u.queue = q /\ u.owner = s.owner /\ u.future = [s.future EXCEPT ![z] = "pending"]
  BY DEF Enqueue, SlotStates
<1> HIDE DEF q, u
<1>4. DOMAIN q = 1 .. Len(s.queue) + 1
  BY <1>2, LenProperties
<1>5. \A i \in DOMAIN q : \/ i \in DOMAIN s.queue /\ q[i] = s.queue[i]
                          \/ i = Len(s.queue) + 1 /\ q[i] = z
  BY <1>1, <1>2, <1>4
<1> SUFFICES ASSUME NEW y \in Zones, InQueue(s, y)
             PROVE  /\ InQueue(u, y) /\ u.future[y] = s.future[y]
                    /\ \A x \in Zones : Ahead(u, x, y) => Ahead(s, x, y)
  BY <1>3 DEF Keeps, u
<1>6. y # z
  BY <1>1 DEF InQueue
<1>7. u.future[y] = s.future[y]
  BY <1>3, <1>6 DEF SlotStates
<1>8. InQueue(u, y)
  BY <1>1, <1>2, <1>3, <1>4 DEF InQueue
<1>9. ASSUME NEW x \in Zones, Ahead(u, x, y)
      PROVE  Ahead(s, x, y)
  <2>1. PICK m, n \in DOMAIN q : m < n /\ q[m] = x /\ q[n] = y
    BY <1>3, <1>9 DEF Ahead
  <2>2. n \in DOMAIN s.queue /\ q[n] = s.queue[n]
    BY <1>5, <1>6, <2>1
  <2>3. m \in DOMAIN s.queue /\ q[m] = s.queue[m]
    BY <1>1, <1>4, <1>5, <2>1, <2>2
  <2> QED BY <2>1, <2>2, <2>3 DEF Ahead
<1> QED BY <1>7, <1>8, <1>9

(* Methods that touch neither queue nor futures keep the places. *)
LEMMA SamePlaces ==
  ASSUME NEW s, NEW u, u.queue = s.queue, u.future = s.future, u.owner \in {s.owner, NoZone}
  PROVE  Keeps(s, u)
BY DEF Keeps, InQueue, Ahead

(* A step that leaves the queue and the owner alone is in order. *)
LEMMA SameQueueInOrder ==
  ASSUME NEW s, NEW t, t.queue = s.queue, t.owner = s.owner
  PROVE  InOrder(s, t)
BY DEF InOrder, Ahead

(* async_request *)
LEMMA RequestInOrder ==
  ASSUME NEW s, Sound(s), NEW z \in Zones
  PROVE  InOrder(s, Request(s, z))
<1>0. s \in SlotStates /\ LiveOnce(s)
  BY DEF Sound
<1>1. CASE s.owner = z
  <2>1. Request(s, z).queue = s.queue /\ Request(s, z).owner = s.owner
    BY <1>0, <1>1 DEF Request, SlotStates
  <2> QED BY <2>1, SameQueueInOrder
<1>2. CASE s.owner # z /\ InQueue(s, z)
  BY <1>2, SameQueueInOrder DEF Request
<1>3. CASE s.owner # z /\ ~InQueue(s, z)
  <2>1. Keeps(s, Enqueue(s, z))
    BY <1>0, <1>3, EnqueueKeeps
  <2>2. Enqueue(s, z) \in SlotStates /\ LiveOnce(Enqueue(s, z))
    BY <1>0, <1>3, EnqueueLive
  <2>3. InOrder(s, TryGrant(Enqueue(s, z)))
    BY <2>1, <2>2, KeptThenOffered
  <2> QED BY <1>3, <2>3 DEF Request
<1> QED BY <1>1, <1>2, <1>3

(* async_cancel_request: the others close ranks. *)
LEMMA CancelRequestInOrder ==
  ASSUME NEW s, Sound(s), NEW z \in Zones
  PROVE  InOrder(s, CancelRequest(s, z))
<1> DEFINE t == CancelRequest(s, z)
           i == Position(s, z)
           r == Without(s.queue, i)
           Old(n) == IF n < i THEN n ELSE n + 1
<1>0. s \in SlotStates
  BY DEF Sound
<1>1. CASE ~InQueue(s, z)
  BY <1>1, SameQueueInOrder DEF CancelRequest
<1>2. CASE InQueue(s, z)
  <2>1. i \in DOMAIN s.queue /\ s.queue \in Seq(Zones)
    BY <1>0, <1>2, QueueDomain DEF Position, InQueue
  <2>2. t.queue = r /\ t.owner = s.owner
    BY <1>0, <1>2 DEF CancelRequest, SlotStates
  <2> HIDE DEF i, t
  <2>3. /\ r \in Seq(Zones) /\ DOMAIN r = 1 .. Len(s.queue) - 1
        /\ \A n \in DOMAIN r : Old(n) \in DOMAIN s.queue /\ r[n] = s.queue[Old(n)]
    BY <2>1, WithoutFields
  <2>4. i \in Nat /\ DOMAIN r \subseteq Nat
    BY <2>1, <2>3, LenProperties
  <2> HIDE DEF r
  <2>5. \A m, n \in DOMAIN r : m < n => Old(m) < Old(n)
    BY <2>4
  <2> HIDE DEF Old
  <2>6. \A y, x \in Zones : Ahead(t, x, y) => Ahead(s, x, y)
    BY <2>2, <2>3, <2>5 DEF Ahead
  <2> QED BY <2>2, <2>6 DEF InOrder, t
<1> QED BY <1>1, <1>2

(* async_release *)
LEMMA ReleaseInOrder ==
  ASSUME NEW s, Sound(s), NEW z \in Zones
  PROVE  InOrder(s, Release(s, z))
<1> DEFINE u == [s EXCEPT !.owner = NoZone]
<1>1. u \in SlotStates /\ LiveOnce(u) /\ u.owner = NoZone /\ u.queue = s.queue
  BY FreedLive DEF Sound
<1>2. u.future = s.future
  BY DEF Sound, SlotStates
<1> HIDE DEF u
<1>3. InOrder(s, TryGrant(u))
  BY <1>1, <1>2, SamePlaces, KeptThenOffered
<1> QED BY <1>3, SameQueueInOrder DEF Release, u

(* async_requeue_tail: the owner goes behind every zone that waits. *)
LEMMA RequeueTailInOrder ==
  ASSUME NEW s, Sound(s), NEW z \in Zones
  PROVE  InOrder(s, RequeueTail(s, z))
<1> DEFINE u == [s EXCEPT !.owner = NoZone]
           v == Enqueue(u, z)
<1>1. CASE s.owner # z
  BY <1>1, SameQueueInOrder DEF RequeueTail
<1>2. CASE s.owner = z
  <2>1. u \in SlotStates /\ LiveOnce(u) /\ u.owner = NoZone /\ u.queue = s.queue
    BY FreedLive DEF Sound
  <2>2. u.future = s.future
    BY DEF Sound, SlotStates
  <2>3. z # u.owner /\ ~InQueue(u, z)
    BY <1>2, <2>1, NoZoneAssumption DEF Sound, LiveOnce, InQueue
  <2> HIDE DEF u
  <2>4. v \in SlotStates /\ LiveOnce(v) /\ Keeps(u, v)
    BY <2>1, <2>3, EnqueueLive, EnqueueKeeps
  <2>5. Keeps(s, u)
    BY <2>1, <2>2, SamePlaces
  <2> HIDE DEF v
  <2>6. Keeps(s, v)
    BY <2>1, <2>4, <2>5 DEF Keeps
  <2>7. InOrder(s, TryGrant(v))
    BY <2>4, <2>6, KeptThenOffered
  <2> QED BY <1>2, <2>7 DEF RequeueTail, u, v
<1> QED BY <1>1, <1>2

(* The methods that only change what fences the slot, and then may offer   *)
(* it: the barrier, the grants switch, the end of a blocker.               *)
LEMMA FenceInOrder ==
  ASSUME NEW s, Sound(s)
  PROVE  /\ \A flags \in SUBSET Flags : InOrder(s, SetBarrier(s, flags))
         /\ \A enabled \in BOOLEAN : InOrder(s, SetGrants(s, enabled))
         /\ \A k \in Keys : InOrder(s, BlockerGone(s, k))
<1>1. ASSUME NEW u \in SlotStates,
             u.owner = s.owner, u.queue = s.queue, u.future = s.future
      PROVE  InOrder(s, TryGrant(u)) /\ InOrder(s, u)
  BY <1>1, FenceChanged, SamePlaces, KeptThenOffered
<1>2. ASSUME NEW flags \in SUBSET Flags
      PROVE  InOrder(s, SetBarrier(s, flags))
  <2> DEFINE u == [s EXCEPT !.barrier = flags]
  <2>1. u \in SlotStates /\ u.owner = s.owner /\ u.queue = s.queue /\ u.future = s.future
    BY DEF Sound, SlotStates
  <2> QED BY <1>1, <2>1 DEF SetBarrier
<1>3. ASSUME NEW enabled \in BOOLEAN
      PROVE  InOrder(s, SetGrants(s, enabled))
  <2> DEFINE u == [s EXCEPT !.grantsEnabled = enabled]
  <2>1. u \in SlotStates /\ u.owner = s.owner /\ u.queue = s.queue /\ u.future = s.future
    BY DEF Sound, SlotStates
  <2> QED BY <1>1, <2>1 DEF SetGrants
<1>4. ASSUME NEW k \in Keys
      PROVE  InOrder(s, BlockerGone(s, k))
  <2> DEFINE u == [s EXCEPT !.blockers = s.blockers \ {k},
                            !.unpersisted = s.unpersisted \ {k}]
  <2>1. u \in SlotStates /\ u.owner = s.owner /\ u.queue = s.queue /\ u.future = s.future
    BY DEF Sound, SlotStates
  <2> QED BY <1>1, <2>1 DEF BlockerGone
<1> QED BY <1>2, <1>3, <1>4

(* Every step of the slot manager is in order. *)
LEMMA StepInOrder ==
  ASSUME Sound(slots), TypeOK, [Next]_vars
  PROVE  InOrder(slots, slots')
<1>0. slots \in SlotStates
  BY DEF TypeOK
<1>1. ASSUME NEW k \in Keys, AddBlocker(k) \/ RemoveBlocker(k)
      PROVE  InOrder(slots, slots')
  <2>1. slots'.queue = slots.queue /\ slots'.owner = slots.owner
    BY <1>0, <1>1 DEF AddBlocker, RemoveBlocker, BlockerLive, SlotStates
  <2> QED BY <2>1, SameQueueInOrder
<1>2. CASE WriteVerified
  <2>1. CASE writing.op = "add"
    <3>1. slots'.queue = slots.queue /\ slots'.owner = slots.owner
      BY <1>0, <1>2, <2>1 DEF WriteVerified, BlockerSaved, SlotStates
    <3> QED BY <3>1, SameQueueInOrder
  <2>2. CASE writing.op # "add"
    <3>1. slots' = BlockerGone(slots, writing.key) /\ writing.key \in Keys
      BY <1>2, <2>2, WriteFields DEF WriteVerified
    <3> QED BY <3>1, FenceInOrder
  <2> QED BY <2>1, <2>2
<1>3. CASE WriteFailed \/ UNCHANGED vars
  BY <1>3, SameQueueInOrder DEF WriteFailed, vars
<1>4. CASE EnableGrants \/ DisableGrants
  BY <1>4, FenceInOrder DEF EnableGrants, DisableGrants
<1>5. CASE SetReconciliationBarrier \/ SetReconciliationStateNow
  BY <1>5, FenceInOrder DEF SetReconciliationBarrier, SetReconciliationStateNow
<1>6. CASE CloseAdmissionNow
  <2>1. slots'.queue = << >> /\ slots'.owner = slots.owner
    BY <1>0, <1>6 DEF CloseAdmissionNow, CloseAdmission, SlotStates
  <2>2. DOMAIN slots'.queue = {}
    BY <2>1
  <2> QED BY <2>1, <2>2 DEF InOrder, Ahead
<1>7. ASSUME NEW z \in Zones,
             \/ AsyncRequest(z) \/ AsyncCancelRequest(z)
             \/ AsyncRelease(z) \/ AsyncRequeueTail(z)
      PROVE  InOrder(slots, slots')
  BY <1>7, RequestInOrder, CancelRequestInOrder, ReleaseInOrder, RequeueTailInOrder
     DEF AsyncRequest, AsyncCancelRequest, AsyncRelease, AsyncRequeueTail
<1>8. ASSUME NEW z \in Zones, AbandonRequest(z)
      PROVE  InOrder(slots, slots')
  <2>1. slots'.queue = slots.queue /\ slots'.owner = slots.owner
    BY <1>0, <1>8 DEF AbandonRequest, SlotStates
  <2> QED BY <2>1, SameQueueInOrder
<1> QED BY <1>1, <1>2, <1>3, <1>4, <1>5, <1>6, <1>7, <1>8 DEF Next

(* No zone gets the slot, or a place, ahead of one that has waited longer: *)
(* not by a new request, not by requeueing, not by a barrier that opens    *)
(* without the lock.                                                       *)
THEOREM FirstComeFirstServed == Spec => NoOvertaking
<1>1. IInv /\ [Next]_vars =>
        [ \A y, z \in Zones :
            (/\ y # z
             /\ InQueue(slots, y) /\ slots.future[y] = "pending"
             /\ ~Ahead(slots, z, y)) =>
                /\ slots'.owner = z => slots.owner = z
                /\ ~Ahead(slots', z, y) ]_vars
  <2> SUFFICES ASSUME IInv, [Next]_vars, NEW y \in Zones, NEW z \in Zones, y # z,
                      InQueue(slots, y), slots.future[y] = "pending",
                      ~Ahead(slots, z, y)
               PROVE  /\ slots'.owner = z => slots.owner = z
                      /\ ~Ahead(slots', z, y)
    OBVIOUS
  <2>1. InOrder(slots, slots')
    BY StepInOrder DEF IInv, TypeOK, OneLiveRequest, NoMissedGrant, Sound
  <2> QED BY <2>1, NoZoneAssumption DEF InOrder
<1> QED BY <1>1, Invariance, PTL DEF Spec, NoOvertaking
-----------------------------------------------------------------------------
(* SlotManager implements WaterShare, for any set of zones and of blocker  *)
(* keys.  _try_grant_locked is shown to settle the shared water; each      *)
(* method then maps to one step of WaterShare, or to none.                 *)

(* What the step from s to t means for the shared water, when before the   *)
(* last offer h held it and w waited.                                      *)
Settles(t, h, w) ==
    IF h = NoZone /\ t.blockers = {} /\ AdmissionOpen(t) /\ w # {}
    THEN \E z \in w : t.owner = z /\ WaitingZones(t) = w \ {z}
    ELSE t.owner = h /\ WaitingZones(t) = w

(* _try_grant_locked settles the water. *)
LEMMA TryGrantSettles ==
  ASSUME NEW s \in SlotStates, LiveOnce(s)
  PROVE  Settles(TryGrant(s), s.owner, WaitingZones(s))
<1> DEFINE t == TryGrant(s)
           w == WaitingZones(s)
<1>0. /\ DOMAIN s.queue = 1 .. Len(s.queue) /\ Len(s.queue) \in Nat
      /\ \A i \in DOMAIN s.queue : s.queue[i] \in Zones
      /\ s.future \in [Zones -> Futures]
  BY QueueDomain DEF SlotStates
<1>1. \A i \in DOMAIN s.queue : i \in Offerable(s) <=> s.queue[i] \in w
  BY <1>0 DEF Offerable, WaitingZones, InQueue, LiveOnce
<1>2. Offerable(s) = {} <=> w = {}
  <2>1. ASSUME w # {} PROVE Offerable(s) # {}
    <3>1. PICK z \in Zones : InQueue(s, z) /\ s.future[z] = "pending"
      BY <2>1 DEF WaitingZones
    <3>2. PICK i \in DOMAIN s.queue : s.queue[i] = z
      BY <3>1 DEF InQueue
    <3> QED BY <3>1, <3>2 DEF Offerable
  <2>2. ASSUME Offerable(s) # {} PROVE w # {}
    BY <1>1, <2>2 DEF Offerable
  <2> QED BY <2>1, <2>2
<1>3. CASE ~MayGrant(s)
  BY <1>3 DEF TryGrant, Settles, MayGrant
<1>4. CASE MayGrant(s) /\ Offerable(s) = {}
  <2>1. t = [s EXCEPT !.queue = << >>]
    BY <1>4 DEF TryGrant
  <2>2. t.owner = s.owner /\ t.queue = << >>
    BY <2>1 DEF SlotStates
  <2>3. DOMAIN t.queue = {}
    BY <2>2
  <2>4. WaitingZones(t) = {}
    BY <2>3 DEF WaitingZones, InQueue
  <2> QED BY <1>2, <1>4, <2>2, <2>4 DEF Settles
<1>5. CASE MayGrant(s) /\ Offerable(s) # {}
  <2> DEFINE i == FirstOfferable(s)
  <2>1. t = OfferTo(s, i)
    BY <1>5 DEF TryGrant
  <2>2. i \in DOMAIN s.queue
    BY <1>5, FirstIsOfferable DEF Offerable
  <2>9. i \in Offerable(s) /\ \A j \in Offerable(s) : i <= j
    BY <1>5, FirstIsOfferable
  <2> HIDE DEF i, t
  <2>3. /\ t \in SlotStates /\ SameFence(s, t)
        /\ t.owner = s.queue[i] /\ t.owner \in Zones
        /\ t.future = [s.future EXCEPT ![s.queue[i]] = "granted"]
        /\ DOMAIN t.queue = 1 .. Len(s.queue) - i
        /\ \A n \in DOMAIN t.queue : n + i \in DOMAIN s.queue /\ t.queue[n] = s.queue[n + i]
    BY <2>1, <2>2, OfferToFields
  <2>4. s.queue[i] \in w
    BY <1>1, <2>2, <2>9
  <2>5. ASSUME NEW z \in WaitingZones(t) PROVE z \in w \ {s.queue[i]}
    <3>1. PICK n \in DOMAIN t.queue : t.queue[n] = z
      BY DEF WaitingZones, InQueue
    <3>2. z \in Zones /\ t.future[z] = "pending"
      BY DEF WaitingZones
    <3>3. n + i \in DOMAIN s.queue /\ s.queue[n + i] = z
      BY <2>3, <3>1
    <3>4. z # s.queue[i] /\ s.future[z] = "pending"
      BY <1>0, <2>3, <3>2
    <3> QED BY <3>2, <3>3, <3>4 DEF WaitingZones, InQueue
  <2>6. ASSUME NEW z \in w, z # s.queue[i] PROVE z \in WaitingZones(t)
    <3>1. PICK m \in DOMAIN s.queue : s.queue[m] = z
      BY DEF WaitingZones, InQueue
    <3>2. z \in Zones /\ s.future[z] = "pending"
      BY DEF WaitingZones
    <3>3. m \in Offerable(s)
      BY <1>1, <3>1
    <3>4. i < m /\ m - i \in DOMAIN t.queue /\ (m - i) + i = m
      <4>1. i <= m /\ m # i
        BY <2>9, <2>6, <3>1, <3>3
      <4>2. i \in 1 .. Len(s.queue) /\ m \in 1 .. Len(s.queue)
        BY <1>0, <2>2, <3>1
      <4> QED BY <1>0, <2>3, <4>1, <4>2
    <3>5. t.queue[m - i] = z
      BY <2>3, <3>1, <3>4
    <3>6. t.future[z] = "pending"
      BY <1>0, <2>3, <2>6, <3>2
    <3> QED BY <3>2, <3>4, <3>5, <3>6 DEF WaitingZones, InQueue
  <2>7. WaitingZones(t) = w \ {s.queue[i]}
    BY <2>5, <2>6
  <2>8. s.owner = NoZone /\ t.blockers = {} /\ AdmissionOpen(t)
    BY <1>5, <2>3 DEF MayGrant, SameFence, AdmissionOpen
  <2> QED BY <2>3, <2>4, <2>7, <2>8 DEF Settles, t
<1> QED BY <1>3, <1>4, <1>5

-----------------------------------------------------------------------------
(* The methods. *)

(* The queue and the futures determine who waits. *)
LEMMA SameQueueWaits ==
  ASSUME NEW s, NEW t, t.queue = s.queue, t.future = s.future
  PROVE  WaitingZones(t) = WaitingZones(s)
BY DEF WaitingZones, InQueue

(* A changed fence, followed by an offer, settles the water. *)
LEMMA FenceSettles ==
  ASSUME NEW s, Sound(s), NEW u \in SlotStates,
         u.owner = s.owner, u.queue = s.queue, u.future = s.future
  PROVE  Settles(TryGrant(u), s.owner, WaitingZones(s)) /\ SameFence(u, TryGrant(u))
<1>1. LiveOnce(u) /\ SameFence(u, TryGrant(u))
  BY FenceChanged
<1>2. Settles(TryGrant(u), u.owner, WaitingZones(u))
  BY <1>1, TryGrantSettles
<1>3. WaitingZones(u) = WaitingZones(s)
  BY SameQueueWaits
<1> QED BY <1>1, <1>2, <1>3

(* A zone that queues waits with the others. *)
LEMMA EnqueueWaits ==
  ASSUME NEW s \in SlotStates, LiveOnce(s), NEW z \in Zones, z # s.owner, ~InQueue(s, z)
  PROVE  /\ WaitingZones(Enqueue(s, z)) = WaitingZones(s) \cup {z}
         /\ Settles(TryGrant(Enqueue(s, z)), s.owner, WaitingZones(s) \cup {z})
         /\ SameFence(s, TryGrant(Enqueue(s, z)))
<1> DEFINE t == Enqueue(s, z)
<1>1. /\ s.queue \in Seq(Zones) /\ Len(s.queue) \in Nat
      /\ DOMAIN s.queue = 1 .. Len(s.queue)
      /\ s.future \in [Zones -> Futures]
  BY QueueDomain DEF SlotStates
<1>2. t.queue = Append(s.queue, z) /\ t.future = [s.future EXCEPT ![z] = "pending"]
  BY DEF Enqueue, SlotStates
<1>3. t \in SlotStates /\ LiveOnce(t) /\ SameFence(s, t) /\ t.owner = s.owner
  BY EnqueueLive
<1>4. /\ DOMAIN t.queue = 1 .. Len(s.queue) + 1
      /\ \A n \in 1 .. Len(s.queue) : t.queue[n] = s.queue[n]
      /\ t.queue[Len(s.queue) + 1] = z
  BY <1>1, <1>2, AppendProperties, LenProperties
<1> HIDE DEF t
<1>5. \A y \in Zones : InQueue(t, y) <=> InQueue(s, y) \/ y = z
  <2>1. TAKE y \in Zones
  <2>2. ASSUME InQueue(t, y), y # z PROVE InQueue(s, y)
    <3>1. PICK n \in DOMAIN t.queue : t.queue[n] = y
      BY <2>2 DEF InQueue
    <3>2. n \in DOMAIN s.queue /\ s.queue[n] = y
      BY <1>1, <1>4, <2>2, <3>1
    <3> QED BY <3>2 DEF InQueue
  <2>3. ASSUME InQueue(s, y) PROVE InQueue(t, y)
    <3>1. PICK n \in DOMAIN s.queue : s.queue[n] = y
      BY <2>3 DEF InQueue
    <3>2. n \in DOMAIN t.queue /\ t.queue[n] = y
      BY <1>1, <1>4, <3>1
    <3> QED BY <3>2 DEF InQueue
  <2>4. InQueue(t, z)
    <3>1. Len(s.queue) + 1 \in DOMAIN t.queue
      BY <1>1, <1>4
    <3> QED BY <1>4, <3>1 DEF InQueue
  <2> QED BY <2>2, <2>3, <2>4
<1>6. WaitingZones(t) = WaitingZones(s) \cup {z}
  <2>1. ASSUME NEW y \in Zones, y # z
        PROVE  y \in WaitingZones(t) <=> y \in WaitingZones(s)
    BY <1>1, <1>2, <1>5, <2>1 DEF WaitingZones
  <2>2. z \in WaitingZones(t)
    BY <1>1, <1>2, <1>5 DEF WaitingZones
  <2>3. WaitingZones(t) \subseteq Zones /\ WaitingZones(s) \subseteq Zones
    BY DEF WaitingZones
  <2> QED BY <2>1, <2>2, <2>3
<1>7. Settles(TryGrant(t), t.owner, WaitingZones(t))
  BY <1>3, TryGrantSettles
<1>8. SameFence(t, TryGrant(t))
  BY <1>3, TryGrantSound
<1> QED BY <1>3, <1>6, <1>7, <1>8 DEF SameFence, t

(* async_cancel_request takes exactly z out of the waiting zones. *)
LEMMA CancelWaits ==
  ASSUME NEW s, Sound(s), NEW z \in Zones
  PROVE  /\ WaitingZones(CancelRequest(s, z)) = WaitingZones(s) \ {z}
         /\ CancelRequest(s, z).owner = s.owner
<1> DEFINE t == CancelRequest(s, z)
           i == Position(s, z)
<1>1. CASE ~InQueue(s, z)
  BY <1>1 DEF CancelRequest, WaitingZones
<1>2. CASE InQueue(s, z)
  <2>1. s \in SlotStates /\ LiveOnce(s) /\ s.queue \in Seq(Zones)
    BY DEF Sound, SlotStates
  <2>2. i \in DOMAIN s.queue /\ s.queue[i] = z
    BY <1>2 DEF Position, InQueue
  <2>3. /\ t.queue = Without(s.queue, i) /\ t.future = s.future /\ t.owner = s.owner
    BY <1>2, <2>1 DEF CancelRequest, SlotStates
  <2>4. i \in 1 .. Len(s.queue) /\ DOMAIN s.queue = 1 .. Len(s.queue) /\ Len(s.queue) \in Nat
    BY <2>1, <2>2, QueueDomain
  <2> HIDE DEF i, t
  <2>5. /\ DOMAIN t.queue = 1 .. Len(s.queue) - 1
        /\ \A n \in DOMAIN t.queue : /\ (IF n < i THEN n ELSE n + 1) \in DOMAIN s.queue
                                     /\ t.queue[n] = s.queue[IF n < i THEN n ELSE n + 1]
    BY <2>1, <2>2, <2>3, WithoutFields
  <2>6. ASSUME NEW y, InQueue(t, y)
        PROVE  InQueue(s, y) /\ y # z
    <3>1. PICK n \in DOMAIN t.queue : t.queue[n] = y
      BY <2>6 DEF InQueue
    <3>2. PICK m \in DOMAIN s.queue : s.queue[m] = y /\ m # i
      BY <2>4, <2>5, <3>1
    <3> QED BY <2>1, <2>2, <3>2 DEF InQueue, LiveOnce
  <2>7. ASSUME NEW y, InQueue(s, y), y # z
        PROVE  InQueue(t, y)
    <3>1. PICK m \in DOMAIN s.queue : s.queue[m] = y
      BY <2>7 DEF InQueue
    <3>2. m # i
      BY <2>2, <2>7, <3>1
    <3>3. CASE m < i
      <4>1. m \in DOMAIN t.queue
        BY <2>4, <2>5, <3>1, <3>3
      <4> QED BY <2>5, <3>1, <3>3, <4>1 DEF InQueue
    <3>4. CASE m > i
      <4>1. m - 1 \in DOMAIN t.queue /\ ~(m - 1 < i) /\ (m - 1) + 1 = m
        BY <2>4, <2>5, <3>1, <3>4
      <4> QED BY <2>5, <3>1, <4>1 DEF InQueue
    <3> QED BY <2>4, <3>1, <3>2, <3>3, <3>4
  <2> QED BY <2>3, <2>6, <2>7 DEF WaitingZones, t
<1> QED BY <1>1, <1>2

-----------------------------------------------------------------------------
(* The specification.  Under FailClosed the hazards are the live blockers. *)

Hazards == slots.blockers \cup recorded

(* Every step of the slot manager is a step of the shared water, or none. *)
LEMMA StepShares ==
  ASSUME IInv, Next
  PROVE  Share!Next \/ UNCHANGED Share!vars
<1> DEFINE w == WaitingZones(slots)
<1>1. Sound(slots) /\ slots \in SlotStates /\ LiveOnce(slots)
  BY DEF IInv, TypeOK, OneLiveRequest, NoMissedGrant, Sound
<1>2. recorded \subseteq slots.blockers /\ Hazards = slots.blockers
  BY DEF IInv, FailClosed, Hazards
<1>3. /\ recorded' \subseteq slots'.blockers /\ Hazards' = slots'.blockers
      /\ Sound(slots') /\ slots' \in SlotStates
  <2>1. IInv'
    BY StepIInv
  <2> QED BY <2>1 DEF IInv, FailClosed, Hazards, TypeOK, OneLiveRequest, NoMissedGrant, Sound
<1> DEFINE Settle(h, v) == Share!Settle(h, v)
<1>4. ASSUME NEW h, NEW v, Settles(slots', h, v)
      PROVE  Settle(h, v)
  BY <1>3, <1>4 DEF Settles, Share!Settle, Hazards
<1> HIDE DEF Settle
<1>5. ASSUME NEW k \in Keys, AddBlocker(k)
      PROVE  Share!Arise(k)
  <2>1. slots' = BlockerLive(slots, k) /\ recorded' = recorded
    BY <1>5 DEF AddBlocker
  <2>2. /\ slots'.owner = slots.owner /\ slots'.queue = slots.queue
        /\ slots'.future = slots.future /\ slots'.blockers = slots.blockers \cup {k}
        /\ slots'.grantsEnabled = slots.grantsEnabled /\ slots'.barrier = slots.barrier
    BY <1>1, <2>1 DEF BlockerLive, SlotStates
  <2>3. WaitingZones(slots') = w
    BY <2>2, SameQueueWaits
  <2> QED BY <1>2, <1>3, <2>1, <2>2, <2>3 DEF Share!Arise, AdmissionOpen, Hazards
<1>6. ASSUME NEW k \in Keys, RemoveBlocker(k)
      PROVE  UNCHANGED Share!vars
  BY <1>6 DEF RemoveBlocker, Share!vars
<1>7. CASE WriteFailed
  BY <1>7 DEF WriteFailed, Share!vars
<1>8. CASE WriteVerified
  <2>1. writing.key \in Keys /\ writing.op \in {"add", "remove"} /\ writing \in Writes
    BY <1>8, WriteFields DEF WriteVerified
  <2>2. CASE writing.op = "add"
    <3>1. slots' = BlockerSaved(slots, writing.key)
      BY <1>8, <2>2 DEF WriteVerified
    <3>2. /\ slots'.owner = slots.owner /\ slots'.queue = slots.queue
          /\ slots'.future = slots.future /\ slots'.blockers = slots.blockers
          /\ slots'.grantsEnabled = slots.grantsEnabled /\ slots'.barrier = slots.barrier
      BY <1>1, <3>1 DEF BlockerSaved, SlotStates
    <3>3. WaitingZones(slots') = w
      BY <3>2, SameQueueWaits
    <3> QED BY <1>2, <1>3, <3>2, <3>3 DEF Share!vars, AdmissionOpen, Hazards
  <2>3. CASE writing.op # "add"
    <3> DEFINE k == writing.key
               u == [slots EXCEPT !.blockers = slots.blockers \ {k},
                                  !.unpersisted = slots.unpersisted \ {k}]
    <3>1. slots' = TryGrant(u)
      BY <1>8, <2>3 DEF WriteVerified, BlockerGone
    <3>2. /\ u \in SlotStates /\ u.owner = slots.owner /\ u.queue = slots.queue
          /\ u.future = slots.future /\ u.blockers = slots.blockers \ {k}
          /\ u.grantsEnabled = slots.grantsEnabled /\ u.barrier = slots.barrier
      BY <1>1 DEF SlotStates
    <3> HIDE DEF u
    <3>3. Settles(slots', slots.owner, w) /\ SameFence(u, slots')
      BY <1>1, <3>1, <3>2, FenceSettles
    <3>4. AdmissionOpen(slots') = AdmissionOpen(slots) /\ Hazards' = Hazards \ {k}
      BY <1>2, <1>3, <3>2, <3>3 DEF SameFence, AdmissionOpen
    <3>5. Share!Subside(k)
      BY <1>4, <3>3, <3>4 DEF Share!Subside, Settle, Hazards
    <3> QED BY <2>1, <3>5 DEF Share!Next
  <2> QED BY <2>2, <2>3
<1>9. ASSUME NEW t \in SlotStates, slots' = TryGrant(t), UNCHANGED recorded,
             t.owner = slots.owner, t.queue = slots.queue, t.future = slots.future,
             t.blockers = slots.blockers
      PROVE  Share!SetAdmission
  <2>1. Settles(slots', slots.owner, w) /\ SameFence(t, slots')
    BY <1>1, <1>9, FenceSettles
  <2>2. AdmissionOpen(slots') \in BOOLEAN /\ Hazards' = Hazards
    BY <1>2, <1>3, <1>9, <2>1 DEF SameFence, AdmissionOpen, SlotStates
  <2> QED BY <1>4, <2>1, <2>2 DEF Share!SetAdmission, Settle, Hazards
<1>10. ASSUME NEW flags \in SUBSET Flags, slots' = SetBarrier(slots, flags), UNCHANGED recorded
       PROVE  Share!SetAdmission
  <2> DEFINE t == [slots EXCEPT !.barrier = flags]
  <2>1. /\ t \in SlotStates /\ t.owner = slots.owner /\ t.queue = slots.queue
        /\ t.future = slots.future /\ t.blockers = slots.blockers
    BY <1>1 DEF SlotStates
  <2>2. slots' = TryGrant(t)
    BY <1>10 DEF SetBarrier
  <2> HIDE DEF t
  <2> QED BY <1>9, <1>10, <2>1, <2>2
<1>11. CASE EnableGrants /\ UNCHANGED recorded
  <2> DEFINE t == [slots EXCEPT !.grantsEnabled = TRUE]
  <2>1. /\ t \in SlotStates /\ t.owner = slots.owner /\ t.queue = slots.queue
        /\ t.future = slots.future /\ t.blockers = slots.blockers
    BY <1>1 DEF SlotStates
  <2>2. slots' = TryGrant(t)
    BY <1>11 DEF EnableGrants, SetGrants
  <2> HIDE DEF t
  <2>3. Share!SetAdmission
    BY <1>9, <1>11, <2>1, <2>2
  <2> QED BY <2>3 DEF Share!Next
<1>12. CASE DisableGrants /\ UNCHANGED recorded
  <2>1. slots' = [slots EXCEPT !.grantsEnabled = FALSE]
    BY <1>12 DEF DisableGrants, SetGrants
  <2>2. /\ slots'.owner = slots.owner /\ slots'.queue = slots.queue
        /\ slots'.future = slots.future /\ slots'.blockers = slots.blockers
        /\ ~AdmissionOpen(slots') /\ AdmissionOpen(slots') = FALSE
    BY <1>1, <2>1 DEF SlotStates, AdmissionOpen
  <2>3. WaitingZones(slots') = w
    BY <2>2, SameQueueWaits
  <2> QED BY <1>2, <1>3, <2>2, <2>3 DEF Share!SetAdmission, Share!Settle, Hazards, Share!Next
<1>13. CASE CloseAdmissionNow /\ UNCHANGED recorded
  <2>1. slots' = CloseAdmission(slots)
    BY <1>13 DEF CloseAdmissionNow
  <2>2. /\ slots'.owner = slots.owner /\ slots'.queue = << >>
        /\ slots'.blockers = slots.blockers /\ AdmissionOpen(slots') = FALSE
    BY <1>1, <2>1 DEF SlotStates, CloseAdmission, AdmissionOpen
  <2>3. DOMAIN slots'.queue = {}
    BY <2>2
  <2>4. WaitingZones(slots') = {}
    BY <2>3 DEF WaitingZones, InQueue
  <2> QED BY <1>2, <1>3, <2>2, <2>4 DEF Share!CloseForGood, Hazards, Share!Next
<1>14. ASSUME NEW z \in Zones, AsyncRequest(z), UNCHANGED recorded
       PROVE  Share!Ask(z) \/ UNCHANGED Share!vars
  <2>1. CASE slots.owner = z
    <3>1. slots' = [slots EXCEPT !.future = [slots.future EXCEPT ![z] = "granted"]]
      BY <1>14, <2>1 DEF AsyncRequest, Request
    <3>2. /\ slots'.owner = slots.owner /\ slots'.queue = slots.queue
          /\ slots'.future = [slots.future EXCEPT ![z] = "granted"]
          /\ slots'.blockers = slots.blockers /\ AdmissionOpen(slots') = AdmissionOpen(slots)
          /\ slots.future \in [Zones -> Futures]
      BY <1>1, <3>1 DEF SlotStates, AdmissionOpen
    <3>3. ~InQueue(slots, z) /\ ~InQueue(slots', z)
      BY <1>1, <2>1, <3>2 DEF LiveOnce, InQueue
    <3>4. \A y \in Zones : InQueue(slots', y) <=> InQueue(slots, y)
      BY <3>2 DEF InQueue
    <3>5. WaitingZones(slots') = w
      BY <3>2, <3>3, <3>4 DEF WaitingZones
    <3> QED BY <1>2, <1>3, <3>2, <3>5 DEF Share!vars, Hazards
  <2>2. CASE slots.owner # z /\ InQueue(slots, z)
    BY <1>14, <2>2 DEF AsyncRequest, Request, Share!vars
  <2>3. CASE slots.owner # z /\ ~InQueue(slots, z)
    <3>1. slots' = TryGrant(Enqueue(slots, z))
      BY <1>14, <2>3 DEF AsyncRequest, Request
    <3>2. Settles(slots', slots.owner, w \cup {z}) /\ SameFence(slots, slots')
      BY <1>1, <2>3, <3>1, EnqueueWaits
    <3>3. AdmissionOpen(slots') = AdmissionOpen(slots) /\ Hazards' = Hazards
      BY <1>2, <1>3, <3>2 DEF SameFence, AdmissionOpen
    <3> QED BY <1>4, <2>3, <3>2, <3>3 DEF Share!Ask, Settle, Hazards
  <2> QED BY <2>1, <2>2, <2>3
<1>15. ASSUME NEW z \in Zones, AsyncCancelRequest(z), UNCHANGED recorded
       PROVE  Share!Withdraw(z)
  <2>1. slots' = CancelRequest(slots, z)
    BY <1>15 DEF AsyncCancelRequest
  <2>2. WaitingZones(slots') = w \ {z} /\ slots'.owner = slots.owner
    BY <1>1, <2>1, CancelWaits
  <2>3. SameFence(slots, slots')
    BY <1>1, <2>1, CancelRequestSound
  <2> QED BY <1>2, <1>3, <2>2, <2>3 DEF Share!Withdraw, SameFence, AdmissionOpen, Hazards
<1>16. ASSUME NEW z \in Zones, AsyncRelease(z), UNCHANGED recorded
       PROVE  Share!GiveBack \/ UNCHANGED Share!vars
  <2>1. CASE slots.owner # z
    BY <1>16, <2>1 DEF AsyncRelease, Release, Share!vars
  <2>2. CASE slots.owner = z
    <3> DEFINE t == [slots EXCEPT !.owner = NoZone]
    <3>1. slots' = TryGrant(t)
      BY <1>16, <2>2 DEF AsyncRelease, Release
    <3>2. /\ t \in SlotStates /\ LiveOnce(t) /\ SameFence(slots, t)
          /\ t.owner = NoZone /\ t.queue = slots.queue
      BY <1>1, FreedLive
    <3>3. t.future = slots.future
      BY <1>1 DEF SlotStates
    <3> HIDE DEF t
    <3>4. WaitingZones(t) = w
      BY <3>2, <3>3, SameQueueWaits
    <3>5. Settles(slots', NoZone, w) /\ SameFence(t, slots')
      BY <3>1, <3>2, <3>4, TryGrantSettles, TryGrantSound
    <3>6. AdmissionOpen(slots') = AdmissionOpen(slots) /\ Hazards' = Hazards
      BY <1>2, <1>3, <3>2, <3>5 DEF SameFence, AdmissionOpen
    <3>7. slots.owner # NoZone
      BY <2>2, NoZoneAssumption
    <3> QED BY <1>4, <3>5, <3>6, <3>7 DEF Share!GiveBack, Settle, Hazards
  <2> QED BY <2>1, <2>2
<1>17. ASSUME NEW z \in Zones, AsyncRequeueTail(z), UNCHANGED recorded
       PROVE  Share!TakeTurns \/ UNCHANGED Share!vars
  <2>1. CASE slots.owner # z
    BY <1>17, <2>1 DEF AsyncRequeueTail, RequeueTail, Share!vars
  <2>2. CASE slots.owner = z
    <3> DEFINE t == [slots EXCEPT !.owner = NoZone]
    <3>1. slots' = TryGrant(Enqueue(t, z))
      BY <1>17, <2>2 DEF AsyncRequeueTail, RequeueTail
    <3>2. /\ t \in SlotStates /\ LiveOnce(t) /\ SameFence(slots, t)
          /\ t.owner = NoZone /\ t.queue = slots.queue
      BY <1>1, FreedLive
    <3>3. t.future = slots.future
      BY <1>1 DEF SlotStates
    <3> HIDE DEF t
    <3>4. WaitingZones(t) = w
      BY <3>2, <3>3, SameQueueWaits
    <3>5. ~InQueue(t, z) /\ z # t.owner
      BY <1>1, <2>2, <3>2, NoZoneAssumption DEF LiveOnce, InQueue
    <3>6. Settles(slots', NoZone, w \cup {z}) /\ SameFence(t, slots')
      BY <3>1, <3>2, <3>4, <3>5, EnqueueWaits
    <3>7. AdmissionOpen(slots') = AdmissionOpen(slots) /\ Hazards' = Hazards
      BY <1>2, <1>3, <3>2, <3>6 DEF SameFence, AdmissionOpen
    <3>8. slots.owner # NoZone
      BY <2>2, NoZoneAssumption
    <3> QED BY <1>4, <2>2, <3>6, <3>7, <3>8 DEF Share!TakeTurns, Settle, Hazards
  <2> QED BY <2>1, <2>2
<1>18. ASSUME NEW z \in Zones, AbandonRequest(z), UNCHANGED recorded
       PROVE  Share!Withdraw(z)
  <2>1. slots' = [slots EXCEPT !.future = [slots.future EXCEPT ![z] = "cancelled"]]
    BY <1>18 DEF AbandonRequest
  <2>2. /\ slots'.owner = slots.owner /\ slots'.queue = slots.queue
        /\ slots'.future = [slots.future EXCEPT ![z] = "cancelled"]
        /\ slots'.blockers = slots.blockers /\ AdmissionOpen(slots') = AdmissionOpen(slots)
        /\ slots.future \in [Zones -> Futures]
    BY <1>1, <2>1 DEF SlotStates, AdmissionOpen
  <2>3. \A y \in Zones : InQueue(slots', y) <=> InQueue(slots, y)
    BY <2>2 DEF InQueue
  <2>4. WaitingZones(slots') = w \ {z}
    BY <2>2, <2>3 DEF WaitingZones
  <2> QED BY <1>2, <1>3, <2>2, <2>4 DEF Share!Withdraw, Hazards
<1>19. CASE MethodCall /\ UNCHANGED <<writing, recorded>>
  BY <1>10, <1>11, <1>12, <1>13, <1>14, <1>15, <1>16, <1>17, <1>18, <1>19
     DEF MethodCall, SetReconciliationBarrier, SetReconciliationStateNow, Share!Next
<1> QED BY <1>5, <1>6, <1>7, <1>8, <1>19 DEF Next, MethodCall, Share!Next

(* Every behaviour of the slot manager is one of the shared water: what    *)
(* WaterShare promises, the queue, the lock and failing Store writes keep, *)
(* for any zones and any blocker keys.                                     *)
THEOREM SlotManagerSharesWater == Spec => SharesWater
<1>1. Init => Share!Init
  <2> SUFFICES ASSUME Init PROVE Share!Init
    OBVIOUS
  <2>1. /\ slots.queue = << >> /\ slots.owner = NoZone /\ slots.blockers = {}
        /\ slots.grantsEnabled = FALSE /\ recorded = {}
    BY DEF Init, InitialSlots
  <2>2. DOMAIN slots.queue = {}
    BY <2>1
  <2>3. WaitingZones(slots) = {}
    BY <2>2 DEF WaitingZones, InQueue
  <2> QED BY <2>1, <2>3 DEF Share!Init, AdmissionOpen
<1>2. IInv /\ [Next]_vars => [Share!Next]_(Share!vars)
  <2>1. ASSUME UNCHANGED vars PROVE UNCHANGED Share!vars
    BY <2>1 DEF vars, Share!vars
  <2> QED BY <2>1, StepShares
<1> QED BY <1>1, <1>2, Invariance, PTL DEF Spec, SharesWater, Share!Spec
=============================================================================
