------------------------ MODULE ZoneControllers_proof ------------------------
(***************************************************************************)
(* Proofs about ZoneControllers, for any number of zones, any bounds and   *)
(* any configuration: the types of every controller, that water the        *)
(* integration turned on is always fenced, that accounting is closed only  *)
(* once the water is off, that two zones never water together, that the    *)
(* first terminal request owns a session's reason, and that a zone is      *)
(* never left WATERING without somebody who will end it.                   *)
(***************************************************************************)
EXTENDS ZoneControllers, StateMachine_proof, FoldLemmas

OffKey(z) == <<z, Unconfirmed>>
StoreMayFail == "storeFails" \in Disturbances

Slots ==
    [owner : Zones \cup {NoZone}, queue : Seq(Zones), future : [Zones -> Futures],
     blockers : SUBSET Keys, unpersisted : SUBSET Keys,
     grantsEnabled : BOOLEAN, barrier : SUBSET Flags]

(* Whoever owns the slot in t owned it in s, or was granted it. *)
Gives(s, t) ==
    \A y \in Zones : t.owner = y =>
        (s.owner = y /\ t.future[y] = s.future[y]) \/ t.future[y] = "granted"

(* What a step of z does not take from the other zones. *)
Moved(s, t, z) ==
    /\ Gives(s, t)
    /\ \A y \in Zones \ {z} :
         /\ s.owner = y => t.owner = y
         /\ OffKey(y) \in s.blockers => OffKey(y) \in t.blockers

-----------------------------------------------------------------------------
(* The slot. *)

(* The queue holds zones. *)
LEMMA QueueTyped ==
  ASSUME NEW s \in Slots
  PROVE  /\ s.queue \in Seq(Zones) /\ Len(s.queue) \in Nat
         /\ DOMAIN s.queue = 1 .. Len(s.queue)
         /\ \A i \in DOMAIN s.queue : s.queue[i] \in Zones
BY LenProperties, ElementOfSeq DEF Slots

(* _try_grant_locked: an owner stays, a new one is granted. *)
LEMMA TryGrantGives ==
  ASSUME NEW s \in Slots
  PROVE  LET t == TryGrant(s) IN
         /\ t \in Slots /\ Gives(s, t)
         /\ t.blockers = s.blockers /\ t.unpersisted = s.unpersisted
         /\ s.owner # NoZone => t.owner = s.owner
<1> DEFINE t == TryGrant(s)
<1>1. CASE ~MayGrant(s)
  BY <1>1 DEF TryGrant, Gives
<1>2. CASE MayGrant(s) /\ Offerable(s) = {}
  <2>1. t = [s EXCEPT !.queue = << >>]
    BY <1>2 DEF TryGrant
  <2> HIDE DEF t
  <2>2. /\ t \in Slots /\ t.owner = s.owner /\ t.future = s.future
        /\ t.blockers = s.blockers /\ t.unpersisted = s.unpersisted
    BY <2>1, EmptySeq DEF Slots
  <2> QED BY <2>2 DEF Gives, t
<1>3. CASE MayGrant(s) /\ Offerable(s) # {}
  <2> DEFINE i == FirstOfferable(s)
             q == SubSeq(s.queue, i + 1, Len(s.queue))
             y == s.queue[i]
  <2>1. i \in DOMAIN s.queue
    <3>1. Offerable(s) \subseteq Nat
      BY QueueTyped DEF Offerable
    <3>2. \E n \in Offerable(s) : \A j \in Offerable(s) : n <= j
      BY <1>3, <3>1, LeastNatural
    <3>3. i \in Offerable(s)
      BY <3>2 DEF FirstOfferable
    <3> QED BY <3>3 DEF Offerable
  <2>2. t = [s EXCEPT !.owner = y, !.queue = q, !.future = [s.future EXCEPT ![y] = "granted"]]
    BY <1>3 DEF TryGrant, OfferTo
  <2>3. y \in Zones /\ q \in Seq(Zones)
    <3>1. i \in Nat /\ Len(s.queue) \in Nat /\ y \in Zones
      BY <2>1, QueueTyped
    <3> HIDE DEF i
    <3>2. \A n \in i + 1 .. Len(s.queue) : s.queue[n] \in Zones
      BY <3>1, QueueTyped
    <3> QED BY <3>1, <3>2, QueueTyped, SubSeqProperties
  <2> HIDE DEF t, q, y
  <2>4. /\ t \in Slots /\ t.owner = y /\ t.future[y] = "granted"
        /\ t.blockers = s.blockers /\ t.unpersisted = s.unpersisted
    BY <2>2, <2>3 DEF Slots, Futures
  <2>5. s.owner = NoZone
    BY <1>3 DEF MayGrant
  <2> QED BY <2>4, <2>5 DEF Gives, t
<1> QED BY <1>1, <1>2, <1>3

(* Two steps of the slot. *)
LEMMA GivesThrough ==
  ASSUME NEW s \in Slots, NEW t \in Slots, NEW u \in Slots, Gives(s, t), Gives(t, u)
  PROVE  Gives(s, u)
BY DEF Gives, Slots

(* Two steps of the same zone. *)
LEMMA MovedThrough ==
  ASSUME NEW z \in Zones, NEW s \in Slots, NEW t \in Slots, NEW u \in Slots,
         Moved(s, t, z), Moved(t, u, z)
  PROVE  Moved(s, u, z)
BY GivesThrough DEF Moved

(* A step that leaves the slot alone. *)
LEMMA NotMoved ==
  ASSUME NEW z \in Zones, NEW s \in Slots
  PROVE  Moved(s, s, z)
BY DEF Moved, Gives

(* request_slot *)
LEMMA RequestMoves ==
  ASSUME NEW z \in Zones, NEW s \in Slots
  PROVE  LET t == Request(s, z) IN
         /\ t \in Slots /\ Moved(s, t, z) /\ t.blockers = s.blockers
         /\ s.owner = z => t.owner = z
         /\ t.owner = z => t.future[z] = "granted" \/ (t = s /\ s.owner = z)
<1> DEFINE t == Request(s, z)
<1>1. CASE s.owner = z
  <2>1. t = [s EXCEPT !.future = [s.future EXCEPT ![z] = "granted"]]
    BY <1>1 DEF Request
  <2> HIDE DEF t
  <2>2. /\ t \in Slots /\ t.owner = z /\ t.future[z] = "granted" /\ t.blockers = s.blockers
    BY <1>1, <2>1 DEF Slots, Futures
  <2> QED BY <1>1, <2>2 DEF Moved, Gives, t
<1>2. CASE s.owner # z /\ InQueue(s, z)
  <2>1. t = s
    BY <1>2 DEF Request
  <2> QED BY <1>2, <2>1, NotMoved
<1>3. CASE s.owner # z /\ ~InQueue(s, z)
  <2> DEFINE m == Enqueue(s, z)
             q == Append(s.queue, z)
  <2>1. m = [s EXCEPT !.queue = q, !.future = [s.future EXCEPT ![z] = "pending"]]
    BY DEF Enqueue
  <2>2. q \in Seq(Zones)
    BY QueueTyped, AppendProperties
  <2>3. t = TryGrant(m)
    BY <1>3 DEF Request
  <2> HIDE DEF m, q, t
  <2>4. /\ m \in Slots /\ m.owner = s.owner /\ m.blockers = s.blockers
        /\ \A y \in Zones \ {z} : m.future[y] = s.future[y]
        /\ Gives(s, m)
    BY <1>3, <2>1, <2>2 DEF Slots, Futures, Gives
  <2>5. /\ t \in Slots /\ Gives(m, t) /\ t.blockers = m.blockers
        /\ m.owner # NoZone => t.owner = m.owner
    BY <2>3, <2>4, TryGrantGives
  <2>6. t.owner = z => t.future[z] = "granted"
    BY <1>3, <2>4, <2>5 DEF Gives
  <2>7. Moved(s, t, z)
    BY <2>4, <2>5, GivesThrough, NoZoneAssumption DEF Moved
  <2> QED BY <1>3, <2>4, <2>5, <2>6, <2>7 DEF t
<1> QED BY <1>1, <1>2, <1>3

(* release *)
LEMMA ReleaseMoves ==
  ASSUME NEW z \in Zones, NEW s \in Slots
  PROVE  LET t == Release(s, z) IN
         /\ t \in Slots /\ Moved(s, t, z) /\ t.blockers = s.blockers
<1> DEFINE t == Release(s, z)
           m == [s EXCEPT !.owner = NoZone]
<1>1. CASE s.owner # z
  <2>1. t = s
    BY <1>1 DEF Release
  <2> QED BY <2>1, NotMoved
<1>2. CASE s.owner = z
  <2>1. t = TryGrant(m)
    BY <1>2 DEF Release
  <2>2. /\ m \in Slots /\ m.owner = NoZone /\ m.blockers = s.blockers /\ Gives(s, m)
    BY NoZoneAssumption DEF Slots, Gives
  <2> HIDE DEF m, t
  <2>3. t \in Slots /\ Gives(m, t) /\ t.blockers = m.blockers
    BY <2>1, <2>2, TryGrantGives
  <2>4. Moved(s, t, z)
    BY <1>2, <2>2, <2>3, GivesThrough DEF Moved
  <2> QED BY <2>2, <2>3, <2>4 DEF t
<1> QED BY <1>1, <1>2

(* cancel_request leaves everything but the queue. *)
LEMMA CancelRequestMoves ==
  ASSUME NEW z \in Zones, NEW s \in Slots
  PROVE  LET t == CancelRequest(s, z) IN
         /\ t \in Slots /\ Moved(s, t, z) /\ t.blockers = s.blockers
         /\ t.owner = s.owner /\ t.future = s.future
<1> DEFINE t == CancelRequest(s, z)
           q == Without(s.queue, Position(s, z))
<1>1. CASE ~InQueue(s, z)
  <2>1. t = s
    BY <1>1 DEF CancelRequest
  <2> QED BY <2>1, NotMoved
<1>2. CASE InQueue(s, z)
  <2>1. t = [s EXCEPT !.queue = q]
    BY <1>2 DEF CancelRequest
  <2>2. Position(s, z) \in DOMAIN s.queue
    BY <1>2 DEF InQueue, Position
  <2>3. q \in Seq(Zones)
    <3> DEFINE i == Position(s, z)
               N == Len(s.queue) - 1
    <3>1. N \in Nat /\ i \in 1 .. N + 1 /\ DOMAIN s.queue = 1 .. N + 1
      BY <2>2, QueueTyped
    <3>2. q = [n \in 1 .. N |-> IF n < i THEN s.queue[n] ELSE s.queue[n + 1]]
      BY DEF Without
    <3> HIDE DEF q, N, i
    <3>3. \A n \in 1 .. N : n \in 1 .. N + 1 /\ n + 1 \in 1 .. N + 1
      BY <3>1
    <3>4. q \in [1 .. N -> Zones]
      BY <3>1, <3>2, <3>3, QueueTyped
    <3> QED BY <3>1, <3>4, SeqDef
  <2> HIDE DEF q, t
  <2>4. t \in Slots /\ t.owner = s.owner /\ t.future = s.future /\ t.blockers = s.blockers
    BY <2>1, <2>3 DEF Slots
  <2> QED BY <2>4 DEF Moved, Gives, t
<1> QED BY <1>1, <1>2

(* The blockers of a zone. *)
KeysOf(z) == {k \in Keys : k[1] = z}

(* The reasons of a zone are keys of its own. *)
LEMMA KeysTyped ==
  ASSUME NEW z \in Zones, NEW r \in KeyReasons
  PROVE  <<z, r>> \in KeysOf(z) /\ OffKey(z) \in KeysOf(z)
BY DEF Keys, KeysOf, KeyReasons, OffKey, Unconfirmed

(* The blocker set around the Store write. *)
LEMMA BlockerMoves ==
  ASSUME NEW z \in Zones, NEW s \in Slots, NEW k \in KeysOf(z)
  PROVE  /\ LET t == BlockerLive(s, k) IN
            /\ t \in Slots /\ Moved(s, t, z) /\ t.blockers = s.blockers \cup {k}
            /\ t.owner = s.owner /\ t.future = s.future
         /\ LET t == BlockerSaved(s, k) IN
            /\ t \in Slots /\ Moved(s, t, z) /\ t.blockers = s.blockers
            /\ t.owner = s.owner /\ t.future = s.future
         /\ LET t == BlockerGone(s, k) IN
            /\ t \in Slots /\ Moved(s, t, z) /\ t.blockers = s.blockers \ {k}
            /\ s.owner = z => t.owner = z
<1>1. k \in Keys /\ k[1] = z
  BY DEF KeysOf
<1>2. LET t == BlockerLive(s, k) IN
      /\ t \in Slots /\ Moved(s, t, z) /\ t.blockers = s.blockers \cup {k}
      /\ t.owner = s.owner /\ t.future = s.future
  <2> DEFINE t == BlockerLive(s, k)
  <2>1. /\ t \in Slots /\ t.blockers = s.blockers \cup {k}
        /\ t.owner = s.owner /\ t.future = s.future
    BY <1>1 DEF BlockerLive, Slots
  <2> HIDE DEF t
  <2>2. Moved(s, t, z)
    BY <2>1 DEF Moved, Gives
  <2> QED BY <2>1, <2>2 DEF t
<1>3. LET t == BlockerSaved(s, k) IN
      /\ t \in Slots /\ Moved(s, t, z) /\ t.blockers = s.blockers
      /\ t.owner = s.owner /\ t.future = s.future
  <2> DEFINE t == BlockerSaved(s, k)
  <2>1. t \in Slots /\ t.blockers = s.blockers /\ t.owner = s.owner /\ t.future = s.future
    BY DEF BlockerSaved, Slots
  <2> HIDE DEF t
  <2>2. Moved(s, t, z)
    BY <2>1 DEF Moved, Gives
  <2> QED BY <2>1, <2>2 DEF t
<1>4. LET t == BlockerGone(s, k) IN
      /\ t \in Slots /\ Moved(s, t, z) /\ t.blockers = s.blockers \ {k}
      /\ s.owner = z => t.owner = z
  <2> DEFINE t == BlockerGone(s, k)
             m == [s EXCEPT !.blockers = s.blockers \ {k},
                            !.unpersisted = s.unpersisted \ {k}]
  <2>1. t = TryGrant(m)
    BY DEF BlockerGone
  <2>2. /\ m \in Slots /\ m.blockers = s.blockers \ {k}
        /\ m.owner = s.owner /\ m.future = s.future
    BY DEF Slots
  <2> HIDE DEF t, m
  <2>3. /\ t \in Slots /\ Gives(m, t) /\ t.blockers = m.blockers
        /\ m.owner # NoZone => t.owner = m.owner
    BY <2>1, <2>2, TryGrantGives
  <2>4. Gives(s, t)
    BY <2>2, <2>3 DEF Gives
  <2>5. \A y \in Zones \ {z} : OffKey(y) \in s.blockers => OffKey(y) \in t.blockers
    BY <1>1, <2>2, <2>3 DEF OffKey
  <2>6. Moved(s, t, z)
    BY <2>2, <2>3, <2>4, <2>5, NoZoneAssumption DEF Moved
  <2> QED BY <2>2, <2>3, <2>6, NoZoneAssumption DEF t
<1> QED BY <1>2, <1>3, <1>4

-----------------------------------------------------------------------------
(* Controllers. *)

(* What the zone's inbox may hold.  That OFF was seen from outside, or an  *)
(* ON was acknowledged, is decided from a device change or after the       *)
(* command, never posted as such.                                          *)
Posted ==
    {e \in Events :
       /\ e.kind \notin {"ExternalActuatorOff", "OnConfirmed"}
       /\ StoreMayFail => e.kind \notin {"DisableRequested", "ClearFaultRequested"}}
Offers == {e \in Events : e.kind \in {"SlotGranted", "ManualStartRequested"}}
Messages ==
    Posted
      \cup [kind : {"FinalGate", "CommandCommit"}]
      \cup [kind : {"SlotOffer"}, event : Offers]
      \cup [kind : {"ActuatorChange"}, prev : Actuators, cur : Actuators,
            terminal : BOOLEAN, at : Int]

Runs == [phase : {"idle", "call", "wait", "woken", "reporting"}, attempt : Int, deadline : Int]
Markers == [at : Int, seen : Int, mine : BOOLEAN]

Controllers ==
    [state : States, enabled : BOOLEAN, session : Sessions, fault : FaultOrNone,
     externalOn : BOOLEAN, daily : Int, lastEnd : Int, summary : ReasonOrNone,
     obs : Reports, armedWatchdog : Tokens, watchdog : Tokens,
     timers : SUBSET (TimerKinds \X Int), onRequested : BOOLEAN, offRequested : BOOLEAN,
     offOperation : {"none", "running", "proven", "failed"}, offProvenAt : Int,
     offRun : Runs, sessionTask : {"resting", "gate", "call", "commit", "off"},
     inflightOn : Markers, slotTask : {"none", "waiting", "offering"},
     pendingManual : Int, persistFailed : BOOLEAN, eligible : BOOLEAN,
     inbox : Seq(Messages)]
Frames == [c : Controllers, s : Slots]

Waters == {"closed", "ours", "theirs"}

(* Our water runs, or may still come to run. *)
Flows(w, l) == w = "ours" \/ l

(* Running water has a session, a fence, and is either WATERING or given   *)
(* up: its OFF failed and is a blocker, or its zone's Store write failed.  *)
Fenced(z, c, s, w, l) ==
    Flows(w, l) =>
      /\ c.session # NoSession
      /\ s.owner = z \/ OffKey(z) \in s.blockers
      /\ c.state # "SOAKING"
      /\ c.state = "WATERING" \/ OffKey(z) \in s.blockers \/ (c.state = "FAULT" /\ StoreMayFail)
      /\ c.slotTask # "waiting" \/ OffKey(z) \in s.blockers

(* Nobody owns the slot while its slot task still waits. *)
Offered(z, c, s) == c.slotTask = "waiting" /\ s.owner = z => s.future[z] = "granted"

TaskKinds == {"FinalGate", "CommandCommit", "OffConfirmed", "OffNotConfirmed"}
OfTask(m) == m.kind \in TaskKinds
OffChange(m) == m.kind = "ActuatorChange" /\ m.cur.provenOff

(* The session task waits for the message it sent. *)
AwaitsIt(c, m) ==
    \/ m.kind = "FinalGate" /\ c.sessionTask = "gate"
    \/ m.kind = "CommandCommit" /\ c.sessionTask = "commit"
    \/ m.kind \in {"OffConfirmed", "OffNotConfirmed"} /\ c.offRun.phase = "reporting"
MessagesAwaited(c) ==
    /\ \A n \in DOMAIN c.inbox : OfTask(c.inbox[n]) => AwaitsIt(c, c.inbox[n])
    /\ \A m, n \in DOMAIN c.inbox : OfTask(c.inbox[m]) /\ OfTask(c.inbox[n]) => m = n

Commanding(c) == c.sessionTask \in {"call", "commit"}

(* Where the session task is, the rest of the controller agrees with it. *)
TaskKnown(c, l) ==
    /\ Owning(c.state, c.session)
    /\ (c.sessionTask = "off") = (c.offRun.phase # "idle")
    /\ c.offRun.phase \in {"wait", "woken", "reporting"} => ~l
    /\ Commanding(c) =>
         /\ c.inflightOn.at # NoTime /\ c.session # NoSession /\ c.offOperation = "none"
         /\ c.state = "WATERING" \/ (c.state = "FAULT" /\ StoreMayFail)
    /\ c.state = "WATERING" => c.offOperation \in {"none", "running"}

(* While water runs, the inbox holds no proof that it does not: what was   *)
(* seen before the command comes before the command's own message, and the *)
(* command or the OFF operation is still known when it is read.            *)
Evident(c, w, l) ==
    Flows(w, l) =>
      \A n \in DOMAIN c.inbox :
        /\ c.inbox[n].kind # "OffConfirmed"
        /\ OffChange(c.inbox[n]) =>
             /\ Commanding(c) \/ (c.sessionTask = "off" /\ c.offOperation = "running")
             /\ \A k \in DOMAIN c.inbox : OfTask(c.inbox[k]) => n < k

Safe(z, c, s, w, l) ==
    /\ Fenced(z, c, s, w, l) /\ Offered(z, c, s) /\ MessagesAwaited(c)
    /\ TaskKnown(c, l) /\ Evident(c, w, l)

World ==
    /\ now \in Nat
    /\ water \in [Zones -> Waters] /\ view \in [Zones -> Views]
    /\ latent \in [Zones -> BOOLEAN]

-----------------------------------------------------------------------------
(* What safety depends on. *)

(* A message that is neither a task's nor evidence of OFF. *)
Plain(m) == ~OfTask(m) /\ ~OffChange(m)

(* The inbox q is p with plain messages behind. *)
Grown(p, q) ==
    /\ DOMAIN p \subseteq DOMAIN q
    /\ \A n \in DOMAIN p : q[n] = p[n]
    /\ \A n \in DOMAIN q \ DOMAIN p : Plain(q[n])

(* The same task, at the same place. *)
SameTask(c, d) ==
    /\ d.sessionTask = c.sessionTask /\ d.offRun = c.offRun
    /\ d.inflightOn.at = c.inflightOn.at

(* The same for all that safety depends on. *)
Alike(c, d) ==
    /\ SameTask(c, d) /\ Grown(c.inbox, d.inbox)
    /\ d.state = c.state /\ (d.session = NoSession) = (c.session = NoSession)
    /\ d.slotTask = c.slotTask /\ d.offOperation = c.offOperation

(* An inbox that grows twice has grown. *)
LEMMA GrownAgain ==
  ASSUME NEW p, NEW q, NEW r, Grown(p, q), Grown(q, r)
  PROVE  Grown(p, r)
BY DEF Grown

(* An inbox that stays counts as grown. *)
LEMMA SameGrown ==
  ASSUME NEW p
  PROVE  Grown(p, p)
BY DEF Grown

(* The messages of an inbox, and of an inbox with one message more. *)
LEMMA InboxTyped ==
  ASSUME NEW p \in Seq(Messages)
  PROVE  /\ Len(p) \in Nat /\ DOMAIN p = 1 .. Len(p)
         /\ \A n \in DOMAIN p : p[n] \in Messages
         /\ p # << >> => Head(p) = p[1] /\ Head(p) \in Messages /\ 1 \in DOMAIN p
BY LenProperties, ElementOfSeq, EmptySeq

(* An inbox with one message more. *)
LEMMA AppendInbox ==
  ASSUME NEW p \in Seq(Messages), NEW m \in Messages
  PROVE  /\ Append(p, m) \in Seq(Messages)
         /\ DOMAIN Append(p, m) = DOMAIN p \cup {Len(p) + 1} /\ Len(p) + 1 \notin DOMAIN p
         /\ \A n \in DOMAIN p : Append(p, m)[n] = p[n] /\ n < Len(p) + 1
         /\ Append(p, m)[Len(p) + 1] = m
         /\ Plain(m) => Grown(p, Append(p, m))
<1>1. Len(p) \in Nat /\ DOMAIN p = 1 .. Len(p)
  BY LenProperties
<1>2. /\ Append(p, m) \in Seq(Messages) /\ Len(Append(p, m)) = Len(p) + 1
      /\ \A n \in 1 .. Len(p) : Append(p, m)[n] = p[n]
      /\ Append(p, m)[Len(p) + 1] = m
  BY AppendProperties
<1>3. DOMAIN Append(p, m) = 1 .. Len(p) + 1
  BY <1>2, LenProperties
<1>4. /\ DOMAIN Append(p, m) = DOMAIN p \cup {Len(p) + 1} /\ Len(p) + 1 \notin DOMAIN p
      /\ \A n \in DOMAIN p : n < Len(p) + 1
  BY <1>1, <1>3
<1> QED BY <1>1, <1>2, <1>4 DEF Grown

(* The zones that do not move. *)
LEMMA SafeElsewhere ==
  ASSUME NEW z \in Zones, NEW y \in Zones, y # z, NEW s \in Slots, NEW t \in Slots,
         Moved(s, t, z), NEW c, NEW w, NEW l, Safe(y, c, s, w, l)
  PROVE  Safe(y, c, t, w, l)
BY DEF Safe, Fenced, Offered, Moved, Gives

(* The slot of z moved on without taking anything from z either. *)
LEMMA SafeWithSlots ==
  ASSUME NEW z \in Zones, NEW s \in Slots, NEW t \in Slots, Gives(s, t),
         s.owner = z => t.owner = z, OffKey(z) \in s.blockers => OffKey(z) \in t.blockers,
         NEW c, NEW w, NEW l, Safe(z, c, s, w, l)
  PROVE  Safe(z, c, t, w, l)
BY DEF Safe, Fenced, Offered, Gives

(* Plain messages are awaited by nobody. *)
LEMMA AlikeAwaited ==
  ASSUME NEW c, NEW d, SameTask(c, d), Grown(c.inbox, d.inbox), MessagesAwaited(c)
  PROVE  MessagesAwaited(d)
<1>1. \A n \in DOMAIN d.inbox :
        OfTask(d.inbox[n]) => n \in DOMAIN c.inbox /\ d.inbox[n] = c.inbox[n]
  BY DEF Grown, Plain
<1> QED BY <1>1 DEF MessagesAwaited, SameTask, AwaitsIt

(* Plain messages are no evidence. *)
LEMMA AlikeEvident ==
  ASSUME NEW c, NEW d, SameTask(c, d), Grown(c.inbox, d.inbox), NEW w, NEW l,
         Flows(w, l) /\ c.offOperation = "running" => d.offOperation = "running",
         Evident(c, w, l)
  PROVE  Evident(d, w, l)
<1>1. \A n \in DOMAIN d.inbox :
        OfTask(d.inbox[n]) \/ OffChange(d.inbox[n]) =>
          n \in DOMAIN c.inbox /\ d.inbox[n] = c.inbox[n]
  BY DEF Grown, Plain
<1>2. \A m : m.kind = "OffConfirmed" => OfTask(m)
  BY DEF OfTask, TaskKinds
<1> QED BY <1>1, <1>2 DEF Evident, SameTask, Commanding

(* A change that safety does not see. *)
LEMMA AlikeSafe ==
  ASSUME NEW z, NEW c, NEW d, NEW s, NEW w, NEW l, Alike(c, d), Safe(z, c, s, w, l)
  PROVE  Safe(z, d, s, w, l)
<1>1. MessagesAwaited(d)
  BY AlikeAwaited DEF Alike, Safe
<1>2. Evident(d, w, l)
  BY AlikeEvident DEF Alike, Safe
<1> QED BY <1>1, <1>2 DEF Alike, SameTask, Safe, Fenced, Offered, TaskKnown, Commanding, Owning

-----------------------------------------------------------------------------
(* Applying actions. *)

(* An action is what its name, and what goes with it, says. *)
LEMMA ActionShapes ==
  ASSUME NEW a \in Actions
  PROVE  /\ a.act = "TurnOn" => a = TurnOn
         /\ a.act = "RequestSlot" => a = RequestSlot
         /\ a.act = "ReleaseSlot" => a = ReleaseSlot
         /\ a.act = "ArmTimer" => a.timer \in TimerKinds /\ a.at \in Int
         /\ a.act = "ArmWatchdog" => a.token \in Tokens
         /\ a.act = "AddBlocker" => a.reason \in KeyReasons /\ a = AddBlocker(a.reason)
         /\ a.act = "RemoveBlocker" => a.reason \in KeyReasons /\ a = RemoveBlocker(a.reason)
         /\ a.act = "SetExternalOn" => a.on \in BOOLEAN
         /\ a.act \in {"PersistState", "TurnOn", "ExecuteOff", "RequestSlot", "ReleaseSlot",
                       "ScheduleEvaluation", "ArmTimer", "ArmWatchdog", "AddBlocker",
                       "RemoveBlocker", "SetExternalOn"}
BY DEF Actions, TurnOn, RequestSlot, ReleaseSlot, AddBlocker, RemoveBlocker

Armed(c, k) == \E t \in c.timers : t[1] = k

(* A request for OFF and the armed timers stay. *)
Kept(c, d) ==
    /\ c.offRequested => d.offRequested
    /\ \A k : Armed(c, k) => Armed(d, k)

(* What an action asks for stands. *)
Urges(a, c) ==
    /\ a.act = "ExecuteOff" => c.offRequested
    /\ a.act = "ArmTimer" => Armed(c, a.timer)

(* What happens to z's frame while the actions of a decision are applied.  *)
Carried(z, f, g) ==
    /\ g \in Frames /\ Moved(f.s, g.s, z)
    /\ SameTask(f.c, g.c) /\ Grown(f.c.inbox, g.c.inbox) /\ Kept(f.c, g.c)
    /\ g.c.state = f.c.state /\ g.c.session = f.c.session
    /\ g.c.summary = f.c.summary
    /\ Offered(z, f.c, f.s) => Offered(z, g.c, g.s)

(* What only some actions do. *)
Effect(z, f, a, g) ==
    /\ a # ReleaseSlot => (f.s.owner = z => g.s.owner = z)
    /\ a # RemoveBlocker(Unconfirmed) => (OffKey(z) \in f.s.blockers => OffKey(z) \in g.s.blockers)
    /\ a = AddBlocker(Unconfirmed) => OffKey(z) \in g.s.blockers
    /\ g.c.offOperation = IF a = TurnOn THEN "none" ELSE f.c.offOperation
    /\ a # RequestSlot => g.c.slotTask = f.c.slotTask
    /\ Urges(a, g.c)

(* An action that leaves task, inbox and slot alone. *)
Apart(f, g) ==
    /\ g.s = f.s /\ g.c.inbox = f.c.inbox /\ SameTask(f.c, g.c) /\ Kept(f.c, g.c)
    /\ g.c.state = f.c.state /\ g.c.session = f.c.session
    /\ g.c.summary = f.c.summary
    /\ g.c.slotTask = f.c.slotTask /\ g.c.offOperation = f.c.offOperation

(* An action that changes neither the slot nor the task. *)
LEMMA ApartApplies ==
  ASSUME NEW z \in Zones, NEW f \in Frames, NEW g \in Frames, NEW a, Apart(f, g),
         a # TurnOn, a # AddBlocker(Unconfirmed), Urges(a, g.c)
  PROVE  Carried(z, f, g) /\ Effect(z, f, a, g)
<1>1. f.s \in Slots
  BY DEF Frames
<1>2. Moved(f.s, g.s, z)
  BY <1>1, NotMoved DEF Apart
<1>3. Grown(f.c.inbox, g.c.inbox)
  BY SameGrown DEF Apart
<1> QED BY <1>2, <1>3 DEF Apart, Carried, Effect, Offered

(* An action that changes the slot alone. *)
SlotOnly(f, g) == g \in Frames /\ g.c = f.c

(* What such an action carries over. *)
LEMMA SlotApplies ==
  ASSUME NEW z \in Zones, NEW f \in Frames, NEW g, SlotOnly(f, g), Moved(f.s, g.s, z)
  PROVE  Carried(z, f, g) /\ g.c.offOperation = f.c.offOperation /\ g.c.slotTask = f.c.slotTask
<1>1. Grown(f.c.inbox, g.c.inbox)
  BY SameGrown DEF SlotOnly
<1> QED BY <1>1 DEF SlotOnly, Carried, Kept, Offered, SameTask, Moved, Gives

(* Timers, watchdog, requests and the external-flow mark. *)
LEMMA FieldActions ==
  ASSUME NEW z \in Zones, NEW f \in Frames, NEW a \in Actions,
         a.act \in {"PersistState", "ExecuteOff", "ArmTimer", "ArmWatchdog", "SetExternalOn"}
  PROVE  LET g == ApplyAction(z, f, a) IN Carried(z, f, g) /\ Effect(z, f, a, g)
<1> DEFINE g == ApplyAction(z, f, a)
<1>1. a # TurnOn /\ a # AddBlocker(Unconfirmed)
  BY DEF TurnOn, AddBlocker
<1>2. CASE a.act = "PersistState"
  <2>1. g = f
    BY <1>2 DEF ApplyAction
  <2>2. Apart(f, g) /\ Urges(a, g.c)
    BY <1>2, <2>1 DEF Apart, SameTask, Kept, Urges
  <2> QED BY <1>1, <2>1, <2>2, ApartApplies
<1>3. CASE a.act = "ExecuteOff"
  <2>1. g = [f EXCEPT !.c.offRequested = TRUE]
    BY <1>3 DEF ApplyAction
  <2> HIDE DEF g
  <2>2. g \in Frames /\ Apart(f, g) /\ Urges(a, g.c)
    BY ZenonT(40), <1>3, <2>1 DEF Frames, Controllers, Apart, SameTask, Kept, Armed, Urges
  <2> QED BY <1>1, <2>2, ApartApplies DEF g
<1>4. CASE a.act = "ArmTimer"
  <2> DEFINE timers == Cancel(f.c.timers, {a.timer}) \cup {<<a.timer, a.at>>}
  <2>1. g = [f EXCEPT !.c.timers = timers]
    BY <1>4 DEF ApplyAction
  <2>2. timers \in SUBSET (TimerKinds \X Int)
    BY <1>4, ActionShapes DEF Frames, Controllers, Cancel
  <2>3. /\ \A k : Armed(f.c, k) => \E t \in timers : t[1] = k
        /\ \E t \in timers : t[1] = a.timer
    <3>1. <<a.timer, a.at>> \in timers /\ <<a.timer, a.at>>[1] = a.timer
      OBVIOUS
    <3>2. \A t \in f.c.timers : t[1] # a.timer => t \in timers
      BY DEF Cancel
    <3> HIDE DEF timers
    <3> QED BY <3>1, <3>2 DEF Armed
  <2> HIDE DEF g, timers
  <2>4. g \in Frames /\ Apart(f, g) /\ Urges(a, g.c)
    <3>1. /\ g \in Frames /\ g.s = f.s /\ g.c.inbox = f.c.inbox /\ SameTask(f.c, g.c)
          /\ g.c.state = f.c.state /\ g.c.session = f.c.session
          /\ g.c.summary = f.c.summary
          /\ g.c.slotTask = f.c.slotTask /\ g.c.offOperation = f.c.offOperation
          /\ g.c.offRequested = f.c.offRequested /\ g.c.timers = timers
      BY ZenonT(40), <2>1, <2>2 DEF Frames, Controllers, SameTask
    <3> QED BY <1>4, <2>3, <3>1 DEF Apart, Kept, Armed, Urges
  <2> QED BY <1>1, <2>4, ApartApplies DEF g
<1>5. CASE a.act = "ArmWatchdog"
  <2>1. g = [f EXCEPT !.c.armedWatchdog = a.token, !.c.watchdog = a.token]
    BY <1>5 DEF ApplyAction
  <2>2. a.token \in Tokens
    BY <1>5, ActionShapes
  <2> HIDE DEF g
  <2>3. g \in Frames /\ Apart(f, g) /\ Urges(a, g.c)
    BY ZenonT(40), <1>5, <2>1, <2>2
    DEF Frames, Controllers, Apart, SameTask, Kept, Armed, Urges
  <2> QED BY <1>1, <2>3, ApartApplies DEF g
<1>6. CASE a.act = "SetExternalOn"
  <2>1. g = [f EXCEPT !.c.externalOn = a.on]
    BY <1>6 DEF ApplyAction
  <2>2. a.on \in BOOLEAN
    BY <1>6, ActionShapes
  <2> HIDE DEF g
  <2>3. g \in Frames /\ Apart(f, g) /\ Urges(a, g.c)
    BY <1>6, <2>1, <2>2 DEF Frames, Controllers, Apart, SameTask, Kept, Armed, Urges
  <2> QED BY <1>1, <2>3, ApartApplies DEF g
<1> QED BY <1>2, <1>3, <1>4, <1>5, <1>6

(* A new pulse no longer refers to an older OFF operation. *)
LEMMA TurnOnAction ==
  ASSUME NEW z \in Zones, NEW f \in Frames, NEW a \in Actions, a.act = "TurnOn"
  PROVE  LET g == ApplyAction(z, f, a) IN Carried(z, f, g) /\ Effect(z, f, a, g)
<1> DEFINE g == ApplyAction(z, f, a)
<1>1. a = TurnOn
  BY ActionShapes
<1>2. g = [f EXCEPT !.c.onRequested = TRUE, !.c.offOperation = "none", !.c.offProvenAt = NoTime]
  BY DEF ApplyAction
<1> HIDE DEF g
<1>3. /\ g \in Frames /\ g.s = f.s /\ g.c.inbox = f.c.inbox /\ SameTask(f.c, g.c)
      /\ g.c.state = f.c.state /\ g.c.session = f.c.session
      /\ g.c.summary = f.c.summary
      /\ g.c.slotTask = f.c.slotTask /\ g.c.offOperation = "none"
      /\ g.c.offRequested = f.c.offRequested /\ g.c.timers = f.c.timers
  BY ZenonT(40), <1>2, Constants DEF Frames, Controllers, SameTask
<1>4. Moved(f.s, g.s, z) /\ Grown(f.c.inbox, g.c.inbox)
  BY <1>3, NotMoved, SameGrown DEF Frames
<1>5. a # AddBlocker(Unconfirmed)
  BY DEF AddBlocker
<1>6. Carried(z, f, g) /\ Effect(z, f, a, g)
  BY <1>1, <1>3, <1>4, <1>5 DEF Carried, Effect, Offered, Kept, Armed, Urges, TurnOn
<1> QED BY <1>6 DEF g

(* An evaluation is a message to the zone itself. *)
LEMMA EvaluationAction ==
  ASSUME NEW z \in Zones, NEW f \in Frames, NEW a \in Actions, a.act = "ScheduleEvaluation"
  PROVE  LET g == ApplyAction(z, f, a) IN Carried(z, f, g) /\ Effect(z, f, a, g)
<1> DEFINE g == ApplyAction(z, f, a)
           m == Event("AutoEvaluate")
           q == Append(f.c.inbox, m)
<1>1. a # TurnOn /\ a # AddBlocker(Unconfirmed)
  BY DEF TurnOn, AddBlocker
<1>2. CASE ~f.c.eligible
  <2>1. g = f
    BY <1>2 DEF ApplyAction
  <2>2. Apart(f, g) /\ Urges(a, g.c)
    BY <2>1 DEF Apart, SameTask, Kept, Urges
  <2> QED BY <1>1, <2>1, <2>2, ApartApplies
<1>3. CASE f.c.eligible
  <2>1. g = [f EXCEPT !.c = [f.c EXCEPT !.inbox = q]]
    BY <1>3 DEF ApplyAction, Post, Send
  <2>2. m \in Messages /\ Plain(m)
    BY DEF Event, Messages, Posted, Events, PlainKinds, Plain, OfTask, OffChange, TaskKinds
  <2>3. q \in Seq(Messages) /\ Grown(f.c.inbox, q)
    <3>1. f.c.inbox \in Seq(Messages)
      BY DEF Frames, Controllers
    <3> QED BY <2>2, <3>1, AppendInbox
  <2> HIDE DEF g, q
  <2>4. /\ g \in Frames /\ g.s = f.s /\ g.c.inbox = q /\ SameTask(f.c, g.c)
        /\ g.c.state = f.c.state /\ g.c.session = f.c.session
        /\ g.c.summary = f.c.summary
        /\ g.c.slotTask = f.c.slotTask /\ g.c.offOperation = f.c.offOperation
        /\ g.c.offRequested = f.c.offRequested /\ g.c.timers = f.c.timers
    BY <2>1, <2>3 DEF Frames, Controllers, SameTask
  <2>5. Moved(f.s, g.s, z)
    BY <2>4, NotMoved DEF Frames
  <2>6. Carried(z, f, g) /\ Effect(z, f, a, g)
    BY <1>1, <2>3, <2>4, <2>5 DEF Carried, Effect, Offered, Kept, Armed, Urges
  <2> QED BY <2>6 DEF g
<1> QED BY <1>2, <1>3

(* The slot and the blockers. *)
LEMMA SlotActions ==
  ASSUME NEW z \in Zones, NEW f \in Frames, NEW a \in Actions,
         a.act \in {"ReleaseSlot", "AddBlocker", "RemoveBlocker"}
  PROVE  LET g == ApplyAction(z, f, a) IN Carried(z, f, g) /\ Effect(z, f, a, g)
<1> DEFINE g == ApplyAction(z, f, a)
           k == <<z, a.reason>>
<1>1. f.s \in Slots /\ f.c \in Controllers /\ a # TurnOn /\ a # RequestSlot
  BY DEF Frames, TurnOn, RequestSlot
<1>2. CASE a.act = "ReleaseSlot"
  <2> DEFINE r == Release(f.s, z)
             t == CancelRequest(r, z)
  <2>1. g = [f EXCEPT !.s = t]
    BY <1>2 DEF ApplyAction
  <2>2. r \in Slots /\ Moved(f.s, r, z) /\ r.blockers = f.s.blockers
    BY <1>1, ReleaseMoves
  <2> HIDE DEF r
  <2>3. t \in Slots /\ Moved(r, t, z) /\ t.blockers = r.blockers
    BY <2>2, CancelRequestMoves
  <2>4. a = ReleaseSlot /\ a # AddBlocker(Unconfirmed)
    BY <1>2, ActionShapes DEF ReleaseSlot, AddBlocker
  <2> HIDE DEF t, g
  <2>5. Moved(f.s, t, z)
    BY <1>1, <2>2, <2>3, MovedThrough
  <2>6. SlotOnly(f, g) /\ g.s = t
    BY <2>1, <2>3 DEF SlotOnly, Frames
  <2>7. Carried(z, f, g) /\ g.c.offOperation = f.c.offOperation /\ g.c.slotTask = f.c.slotTask
    BY <2>5, <2>6, SlotApplies
  <2>8. Effect(z, f, a, g)
    BY <1>1, <1>2, <2>2, <2>3, <2>4, <2>6, <2>7 DEF Effect, Urges
  <2> QED BY <2>7, <2>8 DEF g
<1>3. CASE a.act = "AddBlocker"
  <2> DEFINE r == BlockerLive(f.s, k)
             t == BlockerSaved(r, k)
  <2>1. g = [f EXCEPT !.s = t]
    BY <1>3 DEF ApplyAction
  <2>2. a.reason \in KeyReasons /\ a = AddBlocker(a.reason) /\ a # ReleaseSlot
    BY <1>3, ActionShapes DEF ReleaseSlot
  <2>3. k \in KeysOf(z)
    BY <2>2, KeysTyped
  <2> HIDE DEF k
  <2>4. /\ r \in Slots /\ Moved(f.s, r, z) /\ r.blockers = f.s.blockers \cup {k}
        /\ r.owner = f.s.owner
    BY <1>1, <2>3, BlockerMoves
  <2> HIDE DEF r
  <2>5. t \in Slots /\ Moved(r, t, z) /\ t.blockers = r.blockers /\ t.owner = r.owner
    BY <2>3, <2>4, BlockerMoves
  <2> HIDE DEF t, g
  <2>6. Moved(f.s, t, z)
    BY <1>1, <2>4, <2>5, MovedThrough
  <2>7. SlotOnly(f, g) /\ g.s = t
    BY <2>1, <2>5 DEF SlotOnly, Frames
  <2>8. Carried(z, f, g) /\ g.c.offOperation = f.c.offOperation /\ g.c.slotTask = f.c.slotTask
    BY <2>6, <2>7, SlotApplies
  <2>9. a = AddBlocker(Unconfirmed) => k = OffKey(z)
    BY <2>2 DEF AddBlocker, OffKey, k
  <2>10. Effect(z, f, a, g)
    BY <1>1, <1>3, <2>4, <2>5, <2>7, <2>8, <2>9 DEF Effect, Urges
  <2> QED BY <2>8, <2>10 DEF g
<1>4. CASE a.act = "RemoveBlocker"
  <2> DEFINE t == BlockerGone(f.s, k)
  <2>1. g = [f EXCEPT !.s = t]
    BY <1>4 DEF ApplyAction
  <2>2. /\ a.reason \in KeyReasons /\ a = RemoveBlocker(a.reason) /\ a # ReleaseSlot
        /\ a # AddBlocker(Unconfirmed)
    BY <1>4, ActionShapes DEF ReleaseSlot, AddBlocker
  <2>3. k \in KeysOf(z)
    BY <2>2, KeysTyped
  <2>4. a # RemoveBlocker(Unconfirmed) => k # OffKey(z)
    BY <2>2 DEF OffKey
  <2> HIDE DEF k
  <2>5. /\ t \in Slots /\ Moved(f.s, t, z) /\ t.blockers = f.s.blockers \ {k}
        /\ f.s.owner = z => t.owner = z
    BY <1>1, <2>3, BlockerMoves
  <2> HIDE DEF t, g
  <2>6. SlotOnly(f, g) /\ g.s = t
    BY <2>1, <2>5 DEF SlotOnly, Frames
  <2>7. Carried(z, f, g) /\ g.c.offOperation = f.c.offOperation /\ g.c.slotTask = f.c.slotTask
    BY <2>5, <2>6, SlotApplies
  <2>8. Effect(z, f, a, g)
    BY <1>1, <1>4, <2>2, <2>4, <2>5, <2>6, <2>7 DEF Effect, Urges
  <2> QED BY <2>7, <2>8 DEF g
<1> QED BY <1>2, <1>3, <1>4

(* A slot task is started only while none lives. *)
LEMMA RequestAction ==
  ASSUME NEW z \in Zones, NEW f \in Frames, NEW a \in Actions, a.act = "RequestSlot"
  PROVE  LET g == ApplyAction(z, f, a) IN Carried(z, f, g) /\ Effect(z, f, a, g)
<1> DEFINE g == ApplyAction(z, f, a)
           t == Request(f.s, z)
<1>1. f.s \in Slots /\ a # TurnOn /\ a # AddBlocker(Unconfirmed) /\ a = RequestSlot
  BY ActionShapes DEF Frames, TurnOn, AddBlocker, RequestSlot
<1>2. CASE ~f.c.eligible \/ f.c.slotTask # "none"
  <2>1. g = f
    BY <1>2 DEF ApplyAction, EnsureSlotRequest
  <2>2. Apart(f, g) /\ Urges(a, g.c)
    BY <2>1 DEF Apart, SameTask, Kept, Urges
  <2> QED BY <1>1, <2>1, <2>2, ApartApplies
<1>3. CASE f.c.eligible /\ f.c.slotTask = "none"
  <2>1. g = [f EXCEPT !.c.slotTask = "waiting", !.s = t]
    BY <1>3 DEF ApplyAction, EnsureSlotRequest
  <2>2. /\ t \in Slots /\ Moved(f.s, t, z) /\ t.blockers = f.s.blockers
        /\ f.s.owner = z => t.owner = z
        /\ t.owner = z => t.future[z] = "granted" \/ (t = f.s /\ f.s.owner = z)
    BY <1>1, RequestMoves
  <2>3. t.owner = z => t.future[z] = "granted"
    <3>1. CASE f.s.owner = z
      <4>1. t = [f.s EXCEPT !.future = [f.s.future EXCEPT ![z] = "granted"]]
        BY <3>1 DEF Request
      <4> HIDE DEF t
      <4> QED BY <1>1, <4>1 DEF Slots
    <3>2. CASE f.s.owner # z
      BY <2>2, <3>2
    <3> QED BY <3>1, <3>2
  <2> HIDE DEF g, t
  <2>4. /\ g \in Frames /\ g.s = t /\ g.c.inbox = f.c.inbox /\ SameTask(f.c, g.c)
        /\ g.c.state = f.c.state /\ g.c.session = f.c.session
        /\ g.c.summary = f.c.summary
        /\ g.c.offOperation = f.c.offOperation
        /\ g.c.offRequested = f.c.offRequested /\ g.c.timers = f.c.timers
    BY ZenonT(40), <2>1, <2>2 DEF Frames, Controllers, SameTask
  <2>5. Carried(z, f, g)
    BY <2>2, <2>3, <2>4, SameGrown DEF Carried, Offered, Kept, Armed
  <2>6. Effect(z, f, a, g)
    BY <1>1, <2>2, <2>4 DEF Effect, Urges
  <2> QED BY <2>5, <2>6 DEF g
<1> QED BY <1>2, <1>3

(* _apply_action_locked *)
LEMMA ActionApplies ==
  ASSUME NEW z \in Zones, NEW f \in Frames, NEW a \in Actions
  PROVE  LET g == ApplyAction(z, f, a) IN Carried(z, f, g) /\ Effect(z, f, a, g)
<1> DEFINE g == ApplyAction(z, f, a)
<1> HIDE DEF g
<1>1. CASE a.act \in {"PersistState", "ExecuteOff", "ArmTimer", "ArmWatchdog", "SetExternalOn"}
  BY <1>1, FieldActions DEF g
<1>2. CASE a.act = "TurnOn"
  BY <1>2, TurnOnAction DEF g
<1>3. CASE a.act = "ScheduleEvaluation"
  BY <1>3, EvaluationAction DEF g
<1>4. CASE a.act \in {"ReleaseSlot", "AddBlocker", "RemoveBlocker"}
  BY <1>4, SlotActions DEF g
<1>5. CASE a.act = "RequestSlot"
  BY <1>5, RequestAction DEF g
<1> QED BY <1>1, <1>2, <1>3, <1>4, <1>5, ActionShapes DEF g

(* What the first n actions do. *)
Among(acts, n, a) == \E k \in 1 .. n : acts[k] = a
Effects(z, f, acts, n, g) ==
    /\ Among(acts, n, ReleaseSlot) \/ (f.s.owner = z => g.s.owner = z)
    /\ Among(acts, n, RemoveBlocker(Unconfirmed)) \/
         /\ OffKey(z) \in f.s.blockers => OffKey(z) \in g.s.blockers
         /\ Among(acts, n, AddBlocker(Unconfirmed)) => OffKey(z) \in g.s.blockers
    /\ g.c.offOperation = IF Among(acts, n, TurnOn) THEN "none" ELSE f.c.offOperation
    /\ Among(acts, n, RequestSlot) \/ g.c.slotTask = f.c.slotTask
    /\ \A k \in 1 .. n : Urges(acts[k], g.c)
After(z, f, acts, n) == {g \in Frames : Carried(z, f, g) /\ Effects(z, f, acts, n, g)}

(* What two actions carry over. *)
LEMMA CarriedAgain ==
  ASSUME NEW z \in Zones, NEW f \in Frames, NEW g, NEW h, Carried(z, f, g), Carried(z, g, h)
  PROVE  Carried(z, f, h)
<1>1. f.s \in Slots /\ g.s \in Slots /\ h.s \in Slots
  BY DEF Carried, Frames
<1>2. Moved(f.s, h.s, z)
  BY <1>1, MovedThrough DEF Carried
<1>3. Grown(f.c.inbox, h.c.inbox)
  BY GrownAgain DEF Carried
<1> QED BY <1>2, <1>3 DEF Carried, SameTask, Kept

(* Before the first action. *)
LEMMA AfterNone ==
  ASSUME NEW z \in Zones, NEW f \in Frames, NEW acts
  PROVE  f \in After(z, f, acts, 0)
<1>1. \A a : ~Among(acts, 0, a)
  BY DEF Among
<1>2. Carried(z, f, f)
  BY NotMoved, SameGrown DEF Carried, SameTask, Kept, Frames
<1> QED BY <1>1, <1>2 DEF After, Effects

(* The next action. *)
LEMMA AfterOneMore ==
  ASSUME NEW z \in Zones, NEW f \in Frames, NEW acts, NEW n \in Nat, acts[n + 1] \in Actions,
         NEW g \in After(z, f, acts, n)
  PROVE  ApplyAction(z, g, acts[n + 1]) \in After(z, f, acts, n + 1)
<1> DEFINE a == acts[n + 1]
           h == ApplyAction(z, g, a)
<1>1. g \in Frames /\ Carried(z, f, g) /\ Effects(z, f, acts, n, g)
  BY DEF After
<1>2. a \in Actions
  OBVIOUS
<1>3. \A b : Among(acts, n + 1, b) = (Among(acts, n, b) \/ a = b)
  <2>1. 1 .. n + 1 = (1 .. n) \cup {n + 1}
    OBVIOUS
  <2> QED BY <2>1 DEF Among
<1> HIDE DEF a
<1>4. Carried(z, g, h) /\ Effect(z, g, a, h)
  BY <1>1, <1>2, ActionApplies
<1> HIDE DEF h
<1>5. Carried(z, f, h)
  BY <1>1, <1>4, CarriedAgain
<1>6. Effects(z, f, acts, n + 1, h)
  <2>1. Among(acts, n + 1, ReleaseSlot) \/ (f.s.owner = z => h.s.owner = z)
    BY <1>1, <1>3, <1>4 DEF Effects, Effect
  <2>2. Among(acts, n + 1, RemoveBlocker(Unconfirmed)) \/
         /\ OffKey(z) \in f.s.blockers => OffKey(z) \in h.s.blockers
         /\ Among(acts, n + 1, AddBlocker(Unconfirmed)) => OffKey(z) \in h.s.blockers
    BY <1>1, <1>3, <1>4 DEF Effects, Effect
  <2>3. h.c.offOperation = IF Among(acts, n + 1, TurnOn) THEN "none" ELSE f.c.offOperation
    BY <1>1, <1>3, <1>4 DEF Effects, Effect
  <2>4. Among(acts, n + 1, RequestSlot) \/ h.c.slotTask = f.c.slotTask
    BY <1>1, <1>3, <1>4 DEF Effects, Effect
  <2>5. \A k \in 1 .. n + 1 : Urges(acts[k], h.c)
    <3>1. \A b : Urges(b, g.c) => Urges(b, h.c)
      BY <1>4 DEF Carried, Kept, Urges
    <3>2. 1 .. n + 1 = (1 .. n) \cup {n + 1}
      OBVIOUS
    <3> QED BY <1>1, <1>4, <3>1, <3>2 DEF Effects, Effect, a
  <2> QED BY <2>1, <2>2, <2>3, <2>4, <2>5 DEF Effects
<1>7. h \in Frames
  BY <1>4 DEF Carried
<1>8. h \in After(z, f, acts, n + 1)
  BY <1>5, <1>6, <1>7 DEF After
<1> QED BY <1>8 DEF h, a

(* The actions of a decision, one after the other. *)
LEMMA ApplyActionsApplies ==
  ASSUME NEW z \in Zones, NEW f \in Frames, NEW acts \in Seq(Actions)
  PROVE  ApplyActions(z, f, acts) \in After(z, f, acts, Len(acts))
<1> DEFINE N == Len(acts)
           Op(g, a) == ApplyAction(z, g, a)
           step == [x \in Frames \X (1 .. N) |-> Op(x[1], acts[x[2]])]
           Solves(it) == it = [s \in SUBSET (1 .. N) |->
                                 IF s = {} THEN f ELSE Op(it[s \ {Max(s)}], acts[Max(s)])]
           iter == CHOOSE it : Solves(it)
           Ws == [n \in 0 .. N |-> After(z, f, acts, n)]
<1>1. N \in Nat /\ DOMAIN acts = 1 .. N /\ \A n \in 1 .. N : acts[n] \in Actions
  BY LenProperties, ElementOfSeq
<1>2. ApplyActions(z, f, acts) = iter[1 .. N]
  BY <1>1 DEF ApplyActions, FoldLeft, MapThenFoldSet
<1>3. \A g \in Frames, n \in 1 .. N : Op(g, acts[n]) \in Frames
  BY <1>1, ActionApplies DEF Carried
<1>4. \A n \in 0 .. N - 1 : \A g \in After(z, f, acts, n) :
        Op(g, acts[n + 1]) \in After(z, f, acts, n + 1)
  <2> SUFFICES ASSUME NEW n \in 0 .. N - 1, NEW g \in After(z, f, acts, n)
               PROVE  Op(g, acts[n + 1]) \in After(z, f, acts, n + 1)
    OBVIOUS
  <2>1. n \in Nat /\ n + 1 \in 1 .. N
    BY <1>1
  <2>2. acts[n + 1] \in Actions
    BY <1>1, <2>1
  <2> QED BY <2>1, <2>2, AfterOneMore
<1> HIDE DEF Op, N
<1>5. step \in [Frames \X (1 .. N) -> Frames]
  BY <1>3
<1>6. \A g \in Frames, n \in 1 .. N : step[<<g, n>>] = Op(g, acts[n])
  OBVIOUS
<1>7. /\ Ws \in [0 .. N -> SUBSET Frames]
      /\ \A n \in 0 .. N : Ws[n] = After(z, f, acts, n)
  <2>1. \A n \in 0 .. N : After(z, f, acts, n) \in SUBSET Frames
    BY DEF After
  <2> QED BY <2>1
<1> HIDE DEF step, Ws
<1>8. Passes(Ws, N, step)
  <2> SUFFICES ASSUME NEW n \in 0 .. N - 1, NEW w \in Ws[n]
               PROVE  step[<<w, n + 1>>] \in Ws[n + 1]
    BY DEF Passes
  <2>1. n \in 0 .. N /\ n + 1 \in 0 .. N /\ n + 1 \in 1 .. N
    BY <1>1
  <2>2. w \in After(z, f, acts, n) /\ w \in Frames
    BY <1>7, <2>1 DEF After
  <2>3. Op(w, acts[n + 1]) \in After(z, f, acts, n + 1)
    BY <1>4, <2>2
  <2> QED BY <1>6, <1>7, <2>1, <2>2, <2>3
<1>9. f \in Ws[0]
  <2>1. 0 \in 0 .. N
    BY <1>1
  <2> QED BY <1>7, <2>1, AfterNone
<1>10. PICK it \in [SUBSET (1 .. N) -> Frames] : Folds(it, N, f, step)
  BY <1>1, <1>5, FoldExists
<1>11. \A s \in SUBSET (1 .. N) : s # {} => Max(s) \in 1 .. N /\ s \ {Max(s)} \in SUBSET (1 .. N)
  BY <1>1, MaxIsMember
<1>12. Solves(it)
  BY <1>6, <1>10, <1>11 DEF Folds
<1>13. Solves(iter)
  <2> HIDE DEF Solves
  <2> QED BY <1>12
<1> HIDE DEF iter
<1>14. Unfolds(iter, Frames, N, f, step)
  <2>1. iter[{}] = f
    BY <1>13
  <2>2. \A s \in SUBSET (1 .. N) : s # {} /\ iter[s \ {Max(s)}] \in Frames
                                     => iter[s] = step[<<iter[s \ {Max(s)}], Max(s)>>]
    BY <1>6, <1>11, <1>13
  <2> HIDE DEF Solves
  <2> QED BY <2>1, <2>2 DEF Unfolds
<1> HIDE DEF Solves
<1>15. iter[1 .. N] \in Ws[N]
  BY <1>1, <1>5, <1>7, <1>8, <1>9, <1>14, FoldPasses
<1>16. N \in 0 .. N
  BY <1>1
<1> QED BY <1>2, <1>7, <1>15, <1>16 DEF N

-----------------------------------------------------------------------------
(* The outcomes of a decision. *)

(* What a decision leaves alone, whether or not a write fails. *)
Keeps(z, f, acts, g) ==
    /\ g \in Frames /\ Moved(f.s, g.s, z)
    /\ SameTask(f.c, g.c) /\ Grown(f.c.inbox, g.c.inbox)
    /\ Offered(z, f.c, f.s) => Offered(z, g.c, g.s)
    /\ Among(acts, Len(acts), ReleaseSlot) \/ (f.s.owner = z => g.s.owner = z)
    /\ Among(acts, Len(acts), RemoveBlocker(Unconfirmed)) \/
         (OffKey(z) \in f.s.blockers => OffKey(z) \in g.s.blockers)
    /\ g.c.offOperation # f.c.offOperation =>
         Among(acts, Len(acts), TurnOn) /\ g.c.offOperation = "none"
    /\ Among(acts, Len(acts), RequestSlot) \/ g.c.slotTask = f.c.slotTask
    /\ g.c.summary = f.c.summary

Succeeded(z, f, acts, g) ==
    /\ g.c.state = f.c.state /\ g.c.session = f.c.session
    /\ Kept(f.c, g.c) /\ \A n \in 1 .. Len(acts) : Urges(acts[n], g.c)
    /\ Among(acts, Len(acts), TurnOn) => g.c.offOperation = "none"
    /\ Among(acts, Len(acts), AddBlocker(Unconfirmed)) =>
         Among(acts, Len(acts), RemoveBlocker(Unconfirmed)) \/ OffKey(z) \in g.s.blockers

(* A failed write commits a reason only where none is committed. *)
SessionStands(f, g) ==
    /\ (g.c.session = NoSession) = (f.c.session = NoSession)
    /\ f.c.session = NoSession \/ f.c.session.pending # NoReason =>
         g.c.session = f.c.session
Failed(f, g) == StoreMayFail /\ g.c.state = "FAULT" /\ SessionStands(f, g)

(* A write that failed: the zone faults and keeps its session. *)
LEMMA PersistFailureFaults ==
  ASSUME NEW z, NEW f \in Frames
  PROVE  LET g == HandlePersistFailure(z, f) IN
         /\ g \in Frames /\ g.s = f.s /\ g.c.inbox = f.c.inbox
         /\ SameTask(f.c, g.c) /\ g.c.inflightOn = f.c.inflightOn
         /\ g.c.state = "FAULT" /\ SessionStands(f, g) /\ g.c.summary = f.c.summary
         /\ g.c.slotTask = f.c.slotTask /\ g.c.offOperation = f.c.offOperation
<1> DEFINE g == HandlePersistFailure(z, f)
           s == IF f.c.session # NoSession /\ f.c.session.pending = NoReason
                THEN [f.c.session EXCEPT !.pending = "ACTUATOR_FAULT"] ELSE f.c.session
           off == f.c.offRequested \/ ~Assessment(z).provenOff
<1>1. g = [f EXCEPT !.c.persistFailed = TRUE, !.c.onRequested = FALSE,
                    !.c.state = "FAULT", !.c.fault = "RESTORED_FROM_UNSAFE_STATE",
                    !.c.session = s, !.c.offRequested = off]
  BY DEF HandlePersistFailure
<1>2. /\ s \in Sessions /\ (s = NoSession) = (f.c.session = NoSession)
      /\ f.c.session = NoSession \/ f.c.session.pending # NoReason => s = f.c.session
  <2>1. f.c.session \in Sessions
    BY DEF Frames, Controllers
  <2>2. CASE f.c.session = NoSession
    BY <2>1, <2>2
  <2>3. CASE f.c.session # NoSession
    <3>1. f.c.session \in OpenSessions
      BY <2>1, <2>3 DEF Sessions
    <3>2. s \in OpenSessions
      BY <3>1 DEF OpenSessions, ReasonOrNone, Reasons
    <3>3. f.c.session.pending # NoReason => s = f.c.session
      OBVIOUS
    <3> HIDE DEF s
    <3> QED BY <2>3, <3>2, <3>3, OpenIsOpen DEF Sessions
  <2> QED BY <2>2, <2>3
<1>3. off \in BOOLEAN /\ "FAULT" \in States /\ "RESTORED_FROM_UNSAFE_STATE" \in FaultOrNone
  BY DEF States, FaultOrNone, Faults
<1> HIDE DEF g, s, off
<1> DEFINE h == [f EXCEPT !.c.persistFailed = TRUE, !.c.onRequested = FALSE,
                          !.c.state = "FAULT"]
<1>4. /\ h \in Frames /\ h.s = f.s /\ h.c.inbox = f.c.inbox
      /\ SameTask(f.c, h.c) /\ h.c.inflightOn = f.c.inflightOn
      /\ h.c.state = "FAULT" /\ h.c.summary = f.c.summary
      /\ h.c.slotTask = f.c.slotTask /\ h.c.offOperation = f.c.offOperation
  BY ZenonT(40), <1>3 DEF Frames, Controllers, SameTask
<1>5. g = [h EXCEPT !.c.fault = "RESTORED_FROM_UNSAFE_STATE",
                    !.c.session = s, !.c.offRequested = off]
  BY <1>1
<1> HIDE DEF h
<1>6. /\ g \in Frames /\ g.s = h.s /\ g.c.inbox = h.c.inbox
      /\ SameTask(h.c, g.c) /\ g.c.inflightOn = h.c.inflightOn
      /\ g.c.state = h.c.state /\ g.c.session = s /\ g.c.summary = h.c.summary
      /\ g.c.slotTask = h.c.slotTask /\ g.c.offOperation = h.c.offOperation
  BY ZenonT(40), <1>2, <1>3, <1>4, <1>5 DEF Frames, Controllers, SameTask
<1> QED BY <1>2, <1>4, <1>6 DEF g, SameTask, SessionStands

(* All actions were applied. *)
LEMMA SucceededKeeps ==
  ASSUME NEW z \in Zones, NEW f \in Frames, NEW acts \in Seq(Actions)
  PROVE  LET g == ApplyActions(z, f, acts) IN Keeps(z, f, acts, g) /\ Succeeded(z, f, acts, g)
<1> DEFINE g == ApplyActions(z, f, acts)
<1>1. g \in After(z, f, acts, Len(acts))
  BY ApplyActionsApplies
<1> HIDE DEF g
<1>2. Keeps(z, f, acts, g)
  BY <1>1 DEF After, Carried, Effects, Keeps
<1>3. Succeeded(z, f, acts, g)
  BY <1>1 DEF After, Carried, Effects, Succeeded
<1> QED BY <1>2, <1>3 DEF g

(* The write of an action failed. *)
LEMMA FailedKeeps ==
  ASSUME NEW z \in Zones, NEW f \in Frames, NEW acts \in Seq(Actions), NEW n \in DOMAIN acts,
         StoreMayFail
  PROVE  LET g == FailAction(z, f, acts, n) IN Keeps(z, f, acts, g) /\ Failed(f, g)
<1> DEFINE first == SubSeq(acts, 1, n - 1)
           h == ApplyActions(z, f, first)
           a == acts[n]
           k == <<z, a.reason>>
           live == IF a.act = "AddBlocker" THEN [h EXCEPT !.s = BlockerLive(h.s, k)] ELSE h
           g == FailAction(z, f, acts, n)
<1>1. /\ Len(acts) \in Nat /\ DOMAIN acts = 1 .. Len(acts) /\ n \in 1 .. Len(acts)
      /\ \A i \in 1 .. Len(acts) : acts[i] \in Actions
  BY LenProperties, ElementOfSeq
<1>2. /\ first \in Seq(Actions) /\ Len(first) = n - 1
      /\ \A i \in 1 .. n - 1 : first[i] = acts[i]
  <2>1. \A i \in 1 .. n - 1 : acts[i] \in Actions
    BY <1>1
  <2>2. 1 .. n - 1 = 1 .. (n - 1) /\ n - 1 \in Nat /\ 1 \in Int /\ n - 1 \in 1 - 1 .. Len(acts)
    BY <1>1
  <2> QED BY <1>1, <2>1, <2>2, SubSeqProperties
<1>3. h \in After(z, f, first, Len(first))
  <2> HIDE DEF first
  <2> QED BY <1>2, ApplyActionsApplies
<1>4. \A b : Among(first, Len(first), b) => Among(acts, Len(acts), b)
  <2> HIDE DEF first
  <2> QED BY <1>1, <1>2 DEF Among
<1>5. g = HandlePersistFailure(z, live)
  BY DEF FailAction
<1>6. a \in Actions
  BY <1>1
<1> HIDE DEF first, h, a
<1>7. Carried(z, f, h) /\ Effects(z, f, first, Len(first), h) /\ h \in Frames
  BY <1>3 DEF After
<1>8. /\ live \in Frames /\ live.c = h.c /\ Moved(h.s, live.s, z)
      /\ h.s.owner = z => live.s.owner = z
      /\ OffKey(z) \in h.s.blockers => OffKey(z) \in live.s.blockers
      /\ Offered(z, h.c, h.s) => Offered(z, live.c, live.s)
  <2>1. CASE a.act # "AddBlocker"
    <3>1. live = h
      BY <2>1
    <3> HIDE DEF live
    <3> QED BY <1>7, <3>1, NotMoved DEF Frames
  <2>2. CASE a.act = "AddBlocker"
    <3> DEFINE t == BlockerLive(h.s, k)
    <3>1. live = [h EXCEPT !.s = t]
      BY <2>2
    <3>2. k \in KeysOf(z)
      BY <1>6, <2>2, ActionShapes, KeysTyped
    <3>3. h.s \in Slots
      BY <1>7 DEF Frames
    <3> HIDE DEF live, k
    <3>4. /\ t \in Slots /\ Moved(h.s, t, z) /\ t.blockers = h.s.blockers \cup {k}
          /\ t.owner = h.s.owner /\ t.future = h.s.future
      BY <3>2, <3>3, BlockerMoves
    <3> HIDE DEF t
    <3>5. live \in Frames /\ live.c = h.c /\ live.s = t
      BY <1>7, <3>1, <3>4 DEF Frames
    <3> QED BY <3>4, <3>5 DEF Offered
  <2> QED BY <2>1, <2>2
<1> HIDE DEF live
<1>9. /\ g \in Frames /\ g.s = live.s /\ g.c.inbox = h.c.inbox
      /\ SameTask(h.c, g.c)
      /\ g.c.state = "FAULT" /\ SessionStands(h, g) /\ g.c.summary = h.c.summary
      /\ g.c.slotTask = h.c.slotTask /\ g.c.offOperation = h.c.offOperation
  <2>1. /\ g.s = live.s /\ g.c.inbox = live.c.inbox /\ SameTask(live.c, g.c)
        /\ g \in Frames /\ g.c.state = "FAULT" /\ SessionStands(live, g)
        /\ g.c.summary = live.c.summary
        /\ g.c.slotTask = live.c.slotTask /\ g.c.offOperation = live.c.offOperation
    BY <1>5, <1>8, PersistFailureFaults
  <2> QED BY <1>8, <2>1 DEF SessionStands
<1> HIDE DEF g
<1>10. Moved(f.s, g.s, z)
  <2>1. f.s \in Slots /\ h.s \in Slots /\ live.s \in Slots
    BY <1>7, <1>8 DEF Frames
  <2> QED BY <1>7, <1>8, <1>9, <2>1, MovedThrough DEF Carried
<1>11. Keeps(z, f, acts, g)
  <2>1. SameTask(f.c, g.c) /\ Grown(f.c.inbox, g.c.inbox)
    BY <1>7, <1>9 DEF Carried, SameTask
  <2>2. Offered(z, f.c, f.s) => Offered(z, g.c, g.s)
    BY <1>7, <1>8, <1>9 DEF Carried, Offered
  <2>3. Among(acts, Len(acts), ReleaseSlot) \/ (f.s.owner = z => g.s.owner = z)
    BY <1>4, <1>7, <1>8, <1>9 DEF Effects
  <2>4. Among(acts, Len(acts), RemoveBlocker(Unconfirmed)) \/
          (OffKey(z) \in f.s.blockers => OffKey(z) \in g.s.blockers)
    BY <1>4, <1>7, <1>8, <1>9 DEF Effects
  <2>5. g.c.offOperation # f.c.offOperation =>
          Among(acts, Len(acts), TurnOn) /\ g.c.offOperation = "none"
    BY <1>4, <1>7, <1>9 DEF Effects
  <2>6. Among(acts, Len(acts), RequestSlot) \/ g.c.slotTask = f.c.slotTask
    BY <1>4, <1>7, <1>9 DEF Effects
  <2>7. g.c.summary = f.c.summary
    BY <1>7, <1>9 DEF Carried
  <2> QED BY <1>9, <1>10, <2>1, <2>2, <2>3, <2>4, <2>5, <2>6, <2>7 DEF Keeps
<1>12. Failed(f, g)
  BY <1>7, <1>9 DEF Carried, Failed, SessionStands
<1> QED BY <1>11, <1>12 DEF g

(* Either way. *)
LEMMA OutcomesKeep ==
  ASSUME NEW z \in Zones, NEW f \in Frames, NEW acts \in Seq(Actions),
         NEW o \in Outcomes(z, f, acts)
  PROVE  Keeps(z, f, acts, o[1]) /\ (Succeeded(z, f, acts, o[1]) \/ Failed(f, o[1]))
<1>1. CASE o = <<ApplyActions(z, f, acts), 0>>
  BY <1>1, SucceededKeeps
<1>2. ASSUME NEW n \in DOMAIN acts, StoreMayFail, o = <<FailAction(z, f, acts, n), 1>>
      PROVE  Keeps(z, f, acts, o[1]) /\ Failed(f, o[1])
  BY <1>2, FailedKeeps
<1>3. \/ o = <<ApplyActions(z, f, acts), 0>>
      \/ \E n \in DOMAIN acts : StoreMayFail /\ o = <<FailAction(z, f, acts, n), 1>>
  BY DEF Outcomes, StoreMayFail
<1> QED BY <1>1, <1>2, <1>3

-----------------------------------------------------------------------------
(* Decisions. *)

(* What decide() reads. *)
LEMMA InputTyped ==
  ASSUME World, NEW z \in Zones, NEW f \in Frames, Owning(f.c.state, f.c.session)
  PROVE  LET i == Input(z, f) IN
         /\ i \in Situations /\ Owning(i.state, i.session)
         /\ i.state = f.c.state /\ i.session = f.c.session /\ i.now = now
         /\ i.slotGranted = (f.s.owner = z) /\ i.blockersEmpty = (f.s.blockers = {})
<1> DEFINE i == Input(z, f)
           a == Assessment(z)
           granted == f.s.owner = z
           empty == f.s.blockers = {}
<1>1. now \in Int /\ a \in Actuators /\ granted \in BOOLEAN /\ empty \in BOOLEAN
  BY DEF World, Assessment, Assess, Actuators
<1>2. i = [now |-> now, state |-> f.c.state, enabled |-> f.c.enabled,
           session |-> f.c.session, fault |-> f.c.fault, obs |-> f.c.obs,
           daily |-> f.c.daily, lastEnd |-> f.c.lastEnd, actuator |-> a,
           slotGranted |-> granted, blockersEmpty |-> empty,
           armedWatchdog |-> f.c.armedWatchdog, externalOn |-> f.c.externalOn]
  BY DEF Input
<1> HIDE DEF i, a, granted, empty
<1>3. /\ i.state = f.c.state /\ i.session = f.c.session /\ i.now = now
      /\ i.slotGranted = granted /\ i.blockersEmpty = empty
  BY <1>2
<1>4. i \in Situations
  BY <1>1, <1>2 DEF Situations, Frames, Controllers
<1> QED BY <1>3, <1>4 DEF i, granted, empty

(* The timers that are kept. *)
LEMMA TimersTyped ==
  ASSUME NEW c \in Controllers, NEW state, NEW session
  PROVE  KeptTimers(c, state, session) \in SUBSET (TimerKinds \X Int)
BY DEF KeptTimers, Cancel, Controllers

(* Adopting a decision: its state and session, and accounting. *)
LEMMA AdoptTyped ==
  ASSUME World, NEW c \in Controllers, NEW e \in Events, NEW d, Typed(d)
  PROVE  LET a == Adopt(c, d, e) IN
         /\ a \in Controllers /\ a.state = d.state /\ a.session = d.session
         /\ a.inbox = c.inbox /\ SameTask(c, a)
         /\ a.slotTask = c.slotTask /\ a.offOperation = c.offOperation
         /\ a.summary = IF d.closed # NoSession THEN d.reason ELSE c.summary
         /\ a.offRequested = c.offRequested
         /\ a.timers = KeptTimers(c, d.state, d.session)
<1> DEFINE grown == IF d.session # NoSession THEN d.session ELSE d.closed
           delta == RuntimeOf(grown) - RuntimeOf(c.session)
           ended == d.closed # NoSession
           leaves == c.state = "WATERING" /\ d.state # "WATERING"
           waits == e.kind = "ManualStartRequested"
                    /\ \E n \in DOMAIN d.actions : d.actions[n] = RequestSlot
           daily == IF delta > 0 THEN c.daily + delta ELSE c.daily
           lastEnd == IF ended THEN EndOf(d.closed) ELSE c.lastEnd
           summary == IF ended THEN d.reason ELSE c.summary
           mine == c.inflightOn.mine /\ ~ended
           timers == KeptTimers(c, d.state, d.session)
           watchdog == IF leaves THEN NoToken ELSE c.watchdog
           pending == IF waits THEN e.seconds ELSE c.pendingManual
           a == Adopt(c, d, e)
           b == [c EXCEPT !.state = d.state, !.session = d.session, !.fault = d.fault,
                          !.daily = daily]
           g == [b EXCEPT !.lastEnd = lastEnd, !.summary = summary, !.inflightOn.mine = mine]
<1>1. \A s \in Sessions : RuntimeOf(s) \in Int
  BY DEF Sessions, OpenSessions, RuntimeOf
<1>2. daily \in Int
  <2>1. RuntimeOf(grown) \in Int /\ RuntimeOf(c.session) \in Int /\ c.daily \in Int
    BY <1>1 DEF Typed, Controllers
  <2> QED BY <2>1
<1>3. lastEnd \in Int
  BY Constants DEF Typed, Sessions, OpenSessions, EndOf, World, Controllers
<1>4. summary \in ReasonOrNone /\ mine \in BOOLEAN
  BY DEF Typed, Controllers
<1>5. timers \in SUBSET (TimerKinds \X Int)
  BY TimersTyped
<1>6. watchdog \in Tokens
  BY Constants DEF NoToken, Token, Tokens, Controllers
<1>7. pending \in Int
  BY EventTyped DEF Controllers, Events, PlainKinds
<1>8. a = [g EXCEPT !.timers = timers, !.watchdog = watchdog, !.pendingManual = pending]
  BY DEF Adopt
<1> HIDE DEF daily, lastEnd, summary, mine, timers, watchdog, pending, a
<1>9. /\ b \in Controllers /\ b.state = d.state /\ b.session = d.session
      /\ b.inbox = c.inbox /\ SameTask(c, b)
      /\ b.slotTask = c.slotTask /\ b.offOperation = c.offOperation
      /\ b.offRequested = c.offRequested
  BY ZenonT(40), <1>2 DEF Controllers, SameTask, Typed
<1> HIDE DEF b
<1>10. /\ g \in Controllers /\ g.state = d.state /\ g.session = d.session
       /\ g.inbox = c.inbox /\ SameTask(c, g)
       /\ g.slotTask = c.slotTask /\ g.offOperation = c.offOperation
       /\ g.summary = summary /\ g.offRequested = c.offRequested
  BY ZenonT(40), <1>3, <1>4, <1>9 DEF Controllers, SameTask, Markers
<1> HIDE DEF g
<1>11. /\ a \in Controllers /\ a.state = d.state /\ a.session = d.session
       /\ a.inbox = c.inbox /\ SameTask(c, a)
       /\ a.slotTask = c.slotTask /\ a.offOperation = c.offOperation
       /\ a.summary = summary /\ a.offRequested = c.offRequested /\ a.timers = timers
  BY ZenonT(40), <1>5, <1>6, <1>7, <1>8, <1>10 DEF Controllers, SameTask
<1> QED BY <1>11 DEF a, summary, timers

(* The events that may reach a zone: OFF is reported only when no water    *)
(* flows, the end of an OFF operation only when no command is under way.   *)
Fits(c, e, w, l) ==
    /\ OffSeen(e) => ~Flows(w, l)
    /\ OffSeen(e) \/ e.kind = "OffNotConfirmed" => ~Commanding(c)
    /\ StoreMayFail => e.kind \notin {"DisableRequested", "ClearFaultRequested"}

(* Where a step of z's task leads: z is safe, and the others keep theirs.  *)
Leads(z, f, g, w, l) ==
    /\ g \in Frames /\ Moved(f.s, g.s, z)
    /\ SameTask(f.c, g.c) /\ Grown(f.c.inbox, g.c.inbox)
    /\ Safe(z, g.c, g.s, w, l)

(* Requests for OFF stay, and while a zone waters on so do its timers, but *)
(* for the wait for an acknowledgement that has come.                      *)
RunsOn(c, d, b) ==
    /\ c.offRequested => b.offRequested
    /\ c.state = "WATERING" /\ d.state = "WATERING" =>
         \A k : Armed(c, k) /\ (k = "ON_CONFIRM_TIMEOUT" => d.session.confirmed = NoTime)
                 => Armed(b, k)

(* A decision was adopted into the frame f, and its actions were applied.  *)
Decided(z, f, d, g) ==
    /\ g \in Frames /\ Moved(f.s, g.s, z)
    /\ SameTask(f.c, g.c) /\ Grown(f.c.inbox, g.c.inbox)
    /\ Offered(z, f.c, f.s) => Offered(z, g.c, g.s)
    /\ (g.c.session = NoSession) = (d.session = NoSession)
    /\ d.session # NoSession /\ d.session.pending # NoReason => g.c.session = d.session
    /\ g.c.summary = IF d.closed # NoSession THEN d.reason ELSE f.c.summary
    /\ Has(d, ReleaseSlot) \/ (f.s.owner = z => g.s.owner = z)
    /\ Has(d, RemoveBlocker(Unconfirmed)) \/
         (OffKey(z) \in f.s.blockers => OffKey(z) \in g.s.blockers)
    /\ g.c.offOperation # f.c.offOperation => Has(d, TurnOn) /\ g.c.offOperation = "none"
    /\ Has(d, RequestSlot) \/ g.c.slotTask = f.c.slotTask
    /\ \/ StoreMayFail /\ g.c.state = "FAULT"
       \/ /\ g.c.state = d.state /\ g.c.session = d.session
          /\ Has(d, TurnOn) => g.c.offOperation = "none"
          /\ Has(d, AddBlocker(Unconfirmed)) =>
               Has(d, RemoveBlocker(Unconfirmed)) \/ OffKey(z) \in g.s.blockers
          /\ RunsOn(f.c, d, g.c) /\ \A n \in DOMAIN d.actions : Urges(d.actions[n], g.c)

(* A decision, adopted and applied, does what it says. *)
LEMMA OutcomesDecided ==
  ASSUME World, NEW z \in Zones, NEW f \in Frames, NEW e \in Events,
         Owning(f.c.state, f.c.session), NEW o \in DecideAndApply(z, f, e)
  PROVE  LET i == Input(z, f)
             d == Decide(i, e)
         IN  Typed(d) /\ Justified(i, e, d) /\ Decided(z, f, d, o[1])
<1> DEFINE i == Input(z, f)
           d == Decide(i, e)
           b == [f EXCEPT !.c = Adopt(f.c, d, e)]
           acts == d.actions
           g == o[1]
<1>1. i \in Situations /\ Owning(i.state, i.session)
  BY InputTyped
<1>2. o \in Outcomes(z, b, acts)
  BY DEF DecideAndApply, AdoptAndApply
<1>3. Typed(d) /\ Justified(i, e, d)
  <2> HIDE DEF i
  <2> QED BY <1>1, DecisionsJustified
<1> HIDE DEF d
<1>4. f.c \in Controllers /\ f.s \in Slots
  BY DEF Frames
<1>5. /\ b \in Frames /\ b.s = f.s /\ b.c.state = d.state /\ b.c.session = d.session
      /\ b.c.inbox = f.c.inbox /\ SameTask(f.c, b.c)
      /\ b.c.summary = IF d.closed # NoSession THEN d.reason ELSE f.c.summary
      /\ b.c.slotTask = f.c.slotTask /\ b.c.offOperation = f.c.offOperation
      /\ b.c.offRequested = f.c.offRequested
      /\ b.c.timers = KeptTimers(f.c, d.state, d.session)
  <2> DEFINE a == Adopt(f.c, d, e)
  <2>1. /\ a \in Controllers /\ a.state = d.state /\ a.session = d.session
        /\ a.inbox = f.c.inbox /\ SameTask(f.c, a)
        /\ a.summary = IF d.closed # NoSession THEN d.reason ELSE f.c.summary
        /\ a.slotTask = f.c.slotTask /\ a.offOperation = f.c.offOperation
        /\ a.offRequested = f.c.offRequested
        /\ a.timers = KeptTimers(f.c, d.state, d.session)
    BY <1>3, <1>4, AdoptTyped
  <2> HIDE DEF a
  <2>2. b \in Frames /\ b.s = f.s /\ b.c = a
    BY <2>1 DEF Frames, a
  <2> HIDE DEF b
  <2> QED BY <2>1, <2>2
<1>6. acts \in Seq(Actions)
  BY <1>3 DEF Typed
<1> HIDE DEF b, acts
<1>7. Keeps(z, b, acts, g) /\ (Succeeded(z, b, acts, g) \/ Failed(b, g))
  BY <1>2, <1>5, <1>6, OutcomesKeep
<1>8. \A a : Has(d, a) = Among(acts, Len(acts), a)
  BY <1>6, LenProperties DEF Has, Among, acts
<1> HIDE DEF g
<1>9. Offered(z, f.c, f.s) => Offered(z, g.c, g.s)
  BY <1>5, <1>7 DEF Offered, Keeps
<1>10. Moved(f.s, g.s, z) /\ SameTask(f.c, g.c) /\ Grown(f.c.inbox, g.c.inbox) /\ g \in Frames
  BY <1>5, <1>7 DEF Keeps, SameTask
<1>11. /\ (g.c.session = NoSession) = (d.session = NoSession)
       /\ d.session # NoSession /\ d.session.pending # NoReason => g.c.session = d.session
       /\ g.c.summary = IF d.closed # NoSession THEN d.reason ELSE f.c.summary
  BY <1>5, <1>7 DEF Succeeded, Failed, SessionStands, Keeps
<1>12. /\ Has(d, ReleaseSlot) \/ (f.s.owner = z => g.s.owner = z)
       /\ Has(d, RemoveBlocker(Unconfirmed)) \/
            (OffKey(z) \in f.s.blockers => OffKey(z) \in g.s.blockers)
       /\ g.c.offOperation # f.c.offOperation => Has(d, TurnOn) /\ g.c.offOperation = "none"
       /\ Has(d, RequestSlot) \/ g.c.slotTask = f.c.slotTask
  BY <1>5, <1>7, <1>8 DEF Keeps
<1>13. \/ StoreMayFail /\ g.c.state = "FAULT"
       \/ /\ g.c.state = d.state /\ g.c.session = d.session
          /\ Has(d, TurnOn) => g.c.offOperation = "none"
          /\ Has(d, AddBlocker(Unconfirmed)) =>
               Has(d, RemoveBlocker(Unconfirmed)) \/ OffKey(z) \in g.s.blockers
          /\ RunsOn(f.c, d, g.c) /\ \A n \in DOMAIN d.actions : Urges(d.actions[n], g.c)
  <2>1. RunsOn(f.c, d, b.c)
    <3>1. f.c.state = "WATERING" /\ d.state = "WATERING" =>
            KeptTimers(f.c, d.state, d.session) =
              IF d.session # NoSession /\ d.session.confirmed # NoTime
              THEN Cancel(f.c.timers, {"ON_CONFIRM_TIMEOUT"}) ELSE f.c.timers
      BY DEF KeptTimers
    <3> QED BY <1>5, <3>1 DEF RunsOn, Armed, Cancel
  <2>2. Kept(b.c, g.c) => RunsOn(f.c, d, g.c)
    BY <2>1 DEF RunsOn, Kept
  <2>3. DOMAIN d.actions = 1 .. Len(acts)
    BY <1>6, LenProperties DEF acts
  <2> QED BY <1>5, <1>7, <1>8, <2>2, <2>3 DEF Succeeded, Failed, acts
<1>14. Decided(z, f, d, g)
  BY <1>9, <1>10, <1>11, <1>12, <1>13 DEF Decided
<1> QED BY <1>3, <1>14 DEF d, g

(* While water flows, a decision fences it and keeps its session. *)
LEMMA DecidedFenced ==
  ASSUME NEW z \in Zones, NEW f, NEW e, NEW i, NEW d, NEW g, NEW w, NEW l,
         Safe(z, f.c, f.s, w, l), Fits(f.c, e, w, l), Flows(w, l),
         i.state = f.c.state, i.session = f.c.session,
         i.blockersEmpty = (f.s.blockers = {}),
         Justified(i, e, d), Decided(z, f, d, g)
  PROVE  /\ Fenced(z, g.c, g.s, w, l)
         /\ g.c.offOperation = f.c.offOperation \/ f.c.offOperation # "running"
<1>1. /\ f.c.session # NoSession /\ f.c.state # "SOAKING"
      /\ f.s.owner = z \/ OffKey(z) \in f.s.blockers
      /\ f.c.state = "WATERING" \/ OffKey(z) \in f.s.blockers
           \/ (f.c.state = "FAULT" /\ StoreMayFail)
      /\ f.c.slotTask # "waiting" \/ OffKey(z) \in f.s.blockers
  BY DEF Safe, Fenced
<1>2. ~OffSeen(e) /\ e.kind # "OffConfirmed"
  BY DEF Fits, OffSeen
<1>3. g.c.session # NoSession
  BY <1>1, <1>2 DEF Justified, EndsOnEvidence, Decided
<1>4. OffKey(z) \in f.s.blockers => OffKey(z) \in g.s.blockers
  BY <1>2 DEF Justified, LiftsOnEvidence, Decided
<1>5. g.s.owner = z \/ OffKey(z) \in g.s.blockers
  <2>1. CASE OffKey(z) \in f.s.blockers
    BY <1>4, <2>1
  <2>2. CASE ~(OffKey(z) \in f.s.blockers)
    <3>1. ~Has(d, ReleaseSlot)
      BY <1>1, <1>2, <2>2 DEF Justified, FreesWhenDry, Fits
    <3> QED BY <1>1, <2>2, <3>1 DEF Decided
  <2> QED BY <2>1, <2>2
<1>6. g.c.state # "SOAKING"
  BY <1>1, <1>2 DEF Justified, SoaksAfterOff, Decided
<1>7. g.c.state = "WATERING" \/ OffKey(z) \in g.s.blockers \/ (g.c.state = "FAULT" /\ StoreMayFail)
  <2>1. CASE OffKey(z) \in f.s.blockers
    BY <1>4, <2>1
  <2>2. CASE f.c.state = "WATERING" /\ e.kind # "OffNotConfirmed"
    BY <1>2, <2>2 DEF Justified, StaysWatering, Decided
  <2>3. CASE f.c.state = "WATERING" /\ e.kind = "OffNotConfirmed"
    BY <1>2, <2>3 DEF Justified, StaysWatering, LiftsOnEvidence, Decided
  <2>4. CASE f.c.state = "FAULT" /\ StoreMayFail
    BY <1>1, <1>2, <2>4 DEF Justified, StaysFaulty, Decided, Fits
  <2> QED BY <1>1, <2>1, <2>2, <2>3, <2>4
<1>8. g.c.slotTask # "waiting" \/ OffKey(z) \in g.s.blockers
  <2>1. Has(d, RequestSlot) => OffKey(z) \in f.s.blockers
    BY <1>1 DEF Justified, AsksBeforeStart
  <2> QED BY <1>1, <1>4, <2>1 DEF Decided
<1>9. g.c.offOperation = f.c.offOperation \/ f.c.offOperation # "running"
  <2>1. CASE Has(d, TurnOn)
    <3>1. OffKey(z) \in f.s.blockers
      BY <1>1, <2>1 DEF Justified, StartsOnGrant
    <3>2. f.s.blockers = {}
      BY <2>1 DEF Justified, StartsOnGrant
    <3> QED BY <3>1, <3>2
  <2>2. CASE ~Has(d, TurnOn)
    BY <2>2 DEF Decided
  <2> QED BY <2>1, <2>2
<1> QED BY <1>3, <1>5, <1>6, <1>7, <1>8, <1>9 DEF Fenced

(* A decision agrees with where the session task is. *)
LEMMA DecidedTask ==
  ASSUME NEW z \in Zones, NEW f, NEW e, NEW i, NEW d, NEW g, NEW w, NEW l,
         Safe(z, f.c, f.s, w, l), Fits(f.c, e, w, l),
         i.state = f.c.state, i.session = f.c.session,
         Typed(d), Justified(i, e, d), Decided(z, f, d, g)
  PROVE  TaskKnown(g.c, l)
<1>1. TaskKnown(f.c, l) /\ SameTask(f.c, g.c)
  BY DEF Safe, Decided
<1>2. Owning(g.c.state, g.c.session)
  BY DEF Typed, Decided, Owning
<1>3. ASSUME Commanding(g.c)
      PROVE  /\ g.c.inflightOn.at # NoTime /\ g.c.session # NoSession
             /\ g.c.offOperation = "none"
             /\ g.c.state = "WATERING" \/ (g.c.state = "FAULT" /\ StoreMayFail)
  <2>1. Commanding(f.c)
    BY <1>1, <1>3 DEF SameTask, Commanding
  <2>2. /\ f.c.inflightOn.at # NoTime /\ f.c.session # NoSession /\ f.c.offOperation = "none"
        /\ f.c.state = "WATERING" \/ (f.c.state = "FAULT" /\ StoreMayFail)
    BY <1>1, <2>1 DEF TaskKnown
  <2>3. ~OffSeen(e) /\ e.kind # "OffNotConfirmed"
    BY <2>1 DEF Fits
  <2>4. g.c.session # NoSession
    BY <2>2, <2>3 DEF Justified, EndsOnEvidence, Decided
  <2>5. g.c.state = "WATERING" \/ (g.c.state = "FAULT" /\ StoreMayFail)
    BY <2>2, <2>3 DEF Justified, StaysWatering, StaysFaulty, Decided, Fits
  <2>6. g.c.offOperation = "none"
    BY <2>2 DEF Decided
  <2> QED BY <1>1, <2>2, <2>4, <2>5, <2>6 DEF SameTask
<1>4. g.c.state = "WATERING" => g.c.offOperation \in {"none", "running"}
  <2>1. CASE f.c.state = "WATERING"
    BY <1>1, <2>1 DEF TaskKnown, Decided
  <2>2. CASE f.c.state # "WATERING" /\ g.c.state = "WATERING"
    BY <2>2 DEF Justified, StartsOnGrant, Decided
  <2> QED BY <2>1, <2>2
<1> QED BY <1>1, <1>2, <1>3, <1>4 DEF TaskKnown, SameTask

(* _decide_and_apply_locked keeps a zone safe. *)
LEMMA DecideSafe ==
  ASSUME World, NEW z \in Zones, NEW f \in Frames, NEW e \in Events, NEW w, NEW l,
         Safe(z, f.c, f.s, w, l), Fits(f.c, e, w, l), NEW o \in DecideAndApply(z, f, e)
  PROVE  /\ Leads(z, f, o[1], w, l)
         /\ e.kind \in {"OffConfirmed", "OffNotConfirmed"} => o[1].c.state # "WATERING"
<1> DEFINE i == Input(z, f)
           d == Decide(i, e)
           g == o[1]
<1>1. Owning(f.c.state, f.c.session)
  BY DEF Safe, TaskKnown
<1>2. Typed(d) /\ Justified(i, e, d) /\ Decided(z, f, d, g)
  BY <1>1, OutcomesDecided
<1>3. /\ i.state = f.c.state /\ i.session = f.c.session
      /\ i.blockersEmpty = (f.s.blockers = {})
  BY <1>1, InputTyped
<1> HIDE DEF i, d, g
<1>4. TaskKnown(g.c, l)
  BY <1>2, <1>3, DecidedTask
<1>5. Fenced(z, g.c, g.s, w, l)
  <2>1. CASE Flows(w, l)
    BY <1>2, <1>3, <2>1, DecidedFenced
  <2>2. CASE ~Flows(w, l)
    BY <2>2 DEF Fenced
  <2> QED BY <2>1, <2>2
<1>6. SameTask(f.c, g.c) /\ Grown(f.c.inbox, g.c.inbox) /\ Offered(z, g.c, g.s)
  BY <1>2 DEF Decided, Safe
<1>7. MessagesAwaited(g.c)
  BY <1>6, AlikeAwaited DEF Safe
<1>8. Evident(g.c, w, l)
  <2>1. CASE Flows(w, l)
    <3>1. f.c.offOperation = "running" => g.c.offOperation = "running"
      BY <1>2, <1>3, <2>1, DecidedFenced
    <3> QED BY <1>6, <3>1, AlikeEvident DEF Safe
  <2>2. CASE ~Flows(w, l)
    BY <2>2 DEF Evident
  <2> QED BY <2>1, <2>2
<1>9. e.kind \in {"OffConfirmed", "OffNotConfirmed"} => g.c.state # "WATERING"
  BY <1>2 DEF Justified, StaysWatering, Decided
<1> QED BY <1>2, <1>4, <1>5, <1>6, <1>7, <1>8, <1>9 DEF Leads, Safe, Decided, g

-----------------------------------------------------------------------------
(* The session task. *)

(* No message of the task is under way. *)
Silent(c) == \A n \in DOMAIN c.inbox : ~OfTask(c.inbox[n])

(* Nor any OFF evidence while water flows. *)
Clean(c, w, l) ==
    Silent(c) /\ (Flows(w, l) => \A n \in DOMAIN c.inbox : ~OffChange(c.inbox[n]))

(* Plain messages do not change that. *)
LEMMA CleanGrown ==
  ASSUME NEW c, NEW d, Grown(c.inbox, d.inbox), NEW w, NEW l
  PROVE  /\ Silent(c) => Silent(d)
         /\ Clean(c, w, l) => Clean(d, w, l)
<1>1. \A n \in DOMAIN d.inbox :
        OfTask(d.inbox[n]) \/ OffChange(d.inbox[n]) =>
          n \in DOMAIN c.inbox /\ d.inbox[n] = c.inbox[n]
  BY DEF Grown, Plain
<1> QED BY <1>1 DEF Clean, Silent

(* A task that does not wait for a message of its own has none. *)
LEMMA NothingAwaited ==
  ASSUME NEW z, NEW c \in Controllers, NEW s, NEW w, NEW l, Safe(z, c, s, w, l),
         c.sessionTask \in {"resting", "call"}
           \/ (c.sessionTask = "off" /\ c.offRun.phase # "reporting")
  PROVE  Silent(c)
<1>1. c.offRun.phase # "reporting"
  BY DEF Safe, TaskKnown
<1> QED BY <1>1 DEF Safe, MessagesAwaited, AwaitsIt, Silent, OfTask, TaskKinds

(* A task at rest finds neither. *)
LEMMA RestingClean ==
  ASSUME NEW z, NEW c \in Controllers, NEW s, NEW w, NEW l, Safe(z, c, s, w, l),
         c.sessionTask = "resting"
  PROVE  Clean(c, w, l)
BY NothingAwaited DEF Safe, Evident, Commanding, Clean

(* A message that c does not take for proof that its water is off. *)
Harmless(c, m) ==
    /\ m.kind # "OffConfirmed"
    /\ OffChange(m) => Commanding(c) \/ (c.sessionTask = "off" /\ c.offOperation = "running")

(* The first message is taken out of the inbox. *)
LEMMA TailSafe ==
  ASSUME NEW z, NEW c \in Controllers, c.inbox # << >>, NEW s, NEW w, NEW l,
         Safe(z, c, s, w, l),
         NEW d, d = [c EXCEPT !.inbox = Tail(c.inbox)], NEW m, m = Head(c.inbox)
  PROVE  /\ d \in Controllers /\ m \in Messages /\ Safe(z, d, s, w, l)
         /\ OfTask(m) => Clean(d, w, l) /\ AwaitsIt(c, m) /\ AwaitsIt(d, m)
         /\ Flows(w, l) => Harmless(d, m)
<1> DEFINE p == c.inbox
           q == Tail(c.inbox)
<1>1. p \in Seq(Messages)
  BY DEF Controllers
<1>2. /\ Len(p) \in Nat /\ DOMAIN p = 1 .. Len(p)
      /\ m = p[1] /\ m \in Messages /\ 1 \in DOMAIN p
  <2>1. p # << >> /\ m = Head(p)
    OBVIOUS
  <2> HIDE DEF p
  <2> QED BY <1>1, <2>1, InboxTyped
<1>3. /\ q \in Seq(Messages) /\ DOMAIN q = 1 .. Len(p) - 1
      /\ \A n \in DOMAIN q : q[n] = p[n + 1] /\ n + 1 \in DOMAIN p
  <2>1. q \in Seq(Messages) /\ Len(q) = Len(p) - 1 /\ \A n \in 1 .. Len(q) : q[n] = p[n + 1]
    BY <1>1, HeadTailProperties
  <2> HIDE DEF q, p
  <2>2. DOMAIN q = 1 .. Len(q)
    BY <2>1, LenProperties
  <2> QED BY <1>2, <2>1, <2>2
<1> HIDE DEF p, q
<1>4. /\ d \in Controllers /\ d.inbox = q /\ SameTask(c, d)
      /\ d.state = c.state /\ d.session = c.session
      /\ d.slotTask = c.slotTask /\ d.offOperation = c.offOperation
  BY ZenonT(40), <1>3 DEF Controllers, SameTask, q
<1>5. Fenced(z, d, s, w, l) /\ Offered(z, d, s) /\ TaskKnown(d, l)
  BY <1>4 DEF Safe, Fenced, Offered, TaskKnown, SameTask, Commanding
<1>6. MessagesAwaited(d)
  <2>1. ASSUME NEW n \in DOMAIN q, OfTask(q[n])
        PROVE  AwaitsIt(d, q[n])
    BY <1>3, <1>4, <2>1 DEF Safe, MessagesAwaited, AwaitsIt, SameTask, p
  <2>2. ASSUME NEW n \in DOMAIN q, NEW k \in DOMAIN q, OfTask(q[n]), OfTask(q[k])
        PROVE  n = k
    <3>1. n + 1 = k + 1
      BY <1>3, <2>2 DEF Safe, MessagesAwaited, p
    <3>2. n \in Int /\ k \in Int
      BY <1>2, <1>3
    <3> QED BY <3>1, <3>2
  <2> QED BY <1>4, <2>1, <2>2 DEF MessagesAwaited
<1>7. Evident(d, w, l)
  <2>1. ASSUME Flows(w, l), NEW n \in DOMAIN q
        PROVE  /\ q[n].kind # "OffConfirmed"
               /\ OffChange(q[n]) =>
                    /\ Commanding(c) \/ (c.sessionTask = "off" /\ c.offOperation = "running")
                    /\ \A k \in DOMAIN p : OfTask(p[k]) => n + 1 < k
    BY <1>3, <2>1 DEF Safe, Evident, p
  <2>2. ASSUME Flows(w, l), NEW n \in DOMAIN q, OffChange(q[n]), NEW k \in DOMAIN q, OfTask(q[k])
        PROVE  n < k
    <3>1. n + 1 < k + 1
      BY <1>3, <2>1, <2>2
    <3>2. n \in Int /\ k \in Int
      BY <1>2, <1>3
    <3> QED BY <3>1, <3>2
  <2> QED BY <1>4, <2>1, <2>2 DEF Evident, Commanding, SameTask
<1>8. ASSUME OfTask(m)
      PROVE  Clean(d, w, l) /\ AwaitsIt(c, m) /\ AwaitsIt(d, m)
  <2>1. AwaitsIt(c, m)
    BY <1>2, <1>8 DEF Safe, MessagesAwaited, p
  <2>2. \A n \in DOMAIN q : ~OfTask(q[n])
    <3>1. ASSUME NEW n \in DOMAIN q, OfTask(q[n])
          PROVE  FALSE
      <4>1. 1 = n + 1
        BY <1>2, <1>3, <1>8, <3>1 DEF Safe, MessagesAwaited, p
      <4>2. n \in 1 .. Len(p) - 1
        BY <1>3
      <4> QED BY <1>2, <4>1, <4>2
    <3> QED BY <3>1
  <2>3. ASSUME Flows(w, l), NEW n \in DOMAIN q, OffChange(q[n])
        PROVE  FALSE
    <3>1. n + 1 < 1
      BY <1>2, <1>3, <1>8, <2>3 DEF Safe, Evident, p
    <3>2. n \in 1 .. Len(p) - 1
      BY <1>3
    <3> QED BY <1>2, <3>1, <3>2
  <2> QED BY <1>4, <2>1, <2>2, <2>3 DEF Clean, Silent, AwaitsIt, SameTask
<1>9. ASSUME Flows(w, l)
      PROVE  Harmless(d, m)
  BY <1>2, <1>4, <1>9 DEF Safe, Evident, p, Commanding, SameTask, Harmless
<1> QED BY <1>2, <1>4, <1>5, <1>6, <1>7, <1>8, <1>9 DEF Safe

(* The session task comes to rest. *)
LEMMA Rests ==
  ASSUME NEW z, NEW c, NEW d, NEW s, NEW w, NEW l,
         Safe(z, c, s, w, l), Clean(c, w, l),
         d.inbox = c.inbox, d.state = c.state, d.session = c.session,
         d.slotTask = c.slotTask, d.sessionTask = "resting", d.offRun.phase = "idle",
         d.state = "WATERING" => d.offOperation \in {"none", "running"}
  PROVE  Safe(z, d, s, w, l) /\ Clean(d, w, l)
<1>1. Clean(d, w, l)
  BY DEF Clean, Silent
<1>2. MessagesAwaited(d) /\ Evident(d, w, l)
  BY <1>1 DEF Clean, Silent, MessagesAwaited, Evident, OfTask, TaskKinds
<1>3. Fenced(z, d, s, w, l) /\ Offered(z, d, s)
  BY DEF Safe, Fenced, Offered
<1>4. TaskKnown(d, l)
  BY DEF Safe, TaskKnown, Commanding
<1> QED BY <1>1, <1>2, <1>3, <1>4 DEF Safe

(* An OFF operation begins. *)
LEMMA Begins ==
  ASSUME NEW z, NEW c, NEW d, NEW s, NEW w, NEW l,
         Safe(z, c, s, w, l), Silent(c),
         d.inbox = c.inbox, d.state = c.state,
         (d.session = NoSession) = (c.session = NoSession),
         d.slotTask = c.slotTask, d.sessionTask = "off", d.offRun.phase = "call",
         d.offOperation = "running"
  PROVE  Safe(z, d, s, w, l)
<1>1. MessagesAwaited(d) /\ Evident(d, w, l)
  BY DEF Safe, Silent, MessagesAwaited, Evident
<1>2. Fenced(z, d, s, w, l) /\ Offered(z, d, s)
  BY DEF Safe, Fenced, Offered
<1>3. TaskKnown(d, l)
  BY DEF Safe, TaskKnown, Commanding, Owning
<1> QED BY <1>1, <1>2, <1>3 DEF Safe

(* One step of z leads from the frame f to a safe one. *)
Reaches(z, f, g, w, l) ==
    g \in Frames /\ Moved(f.s, g.s, z) /\ Safe(z, g.c, g.s, w, l)

(* Two changes within one step. *)
LEMMA ReachesThrough ==
  ASSUME NEW z \in Zones, NEW f \in Frames, NEW g \in Frames, NEW h, NEW w, NEW l,
         Moved(f.s, g.s, z), Reaches(z, g, h, w, l)
  PROVE  Reaches(z, f, h, w, l)
BY MovedThrough DEF Reaches, Frames

(* A change that safety does not see. *)
LEMMA AlikeReaches ==
  ASSUME NEW z \in Zones, NEW f \in Frames, NEW g \in Frames, NEW w, NEW l,
         Safe(z, f.c, f.s, w, l), g.s = f.s, Alike(f.c, g.c)
  PROVE  Reaches(z, f, g, w, l)
BY NotMoved, AlikeSafe DEF Reaches, Frames

(* A controller that may no longer command gives up its timers. *)
LEMMA QuiesceAlike ==
  ASSUME NEW f \in Frames
  PROVE  LET g == Quiesce(f) IN
         g \in Frames /\ g.s = f.s /\ Alike(f.c, g.c) /\ g.c.inbox = f.c.inbox
<1> DEFINE g == Quiesce(f)
           timers == {}
           pending == 0
           token == NoToken
<1>1. timers \in SUBSET (TimerKinds \X Int) /\ pending \in Int /\ token \in Tokens
  BY Constants DEF NoToken, Token, Tokens
<1>2. g = f \/ g = [f EXCEPT !.c.eligible = FALSE, !.c.pendingManual = pending,
                            !.c.timers = timers, !.c.watchdog = token]
  BY DEF Quiesce
<1> HIDE DEF g, timers, pending, token
<1>3. CASE g = f
  BY <1>3, SameGrown DEF Alike, SameTask, g
<1>4. CASE g = [f EXCEPT !.c.eligible = FALSE, !.c.pendingManual = pending,
                         !.c.timers = timers, !.c.watchdog = token]
  <2>1. /\ g \in Frames /\ g.s = f.s /\ SameTask(f.c, g.c) /\ g.c.inbox = f.c.inbox
        /\ g.c.state = f.c.state /\ g.c.session = f.c.session
        /\ g.c.slotTask = f.c.slotTask /\ g.c.offOperation = f.c.offOperation
    BY ZenonT(40), <1>1, <1>4 DEF Frames, Controllers, SameTask
  <2> QED BY <2>1, SameGrown DEF Alike, g
<1> QED BY <1>2, <1>3, <1>4

(* _begin_off_operation: a failed operation is not repeated. *)
LEMMA BeginReaches ==
  ASSUME NEW z \in Zones, NEW f \in Frames, NEW w, NEW l, Safe(z, f.c, f.s, w, l),
         Clean(f.c, w, l) \/ (Silent(f.c) /\ f.c.offOperation = "none"),
         f.c.offRun.phase = "idle"
  PROVE  Reaches(z, f, BeginOffOperation(z, f), w, l)
<1> DEFINE g == BeginOffOperation(z, f)
           run == [phase |-> "call", attempt |-> 1, deadline |-> NoTime]
<1>1. NoMarker \in Markers /\ run \in Runs /\ run.phase = "call"
  BY Constants DEF NoMarker, Markers, Runs
<1>2. CASE \/ f.c.offOperation = "failed"
           \/ f.c.offOperation = "proven" /\ Assessment(z).provenOff
  <2>1. g = [f EXCEPT !.c.sessionTask = "resting", !.c.inflightOn = NoMarker]
    BY <1>2 DEF BeginOffOperation
  <2> HIDE DEF g
  <2>2. /\ g \in Frames /\ g.s = f.s /\ g.c.inbox = f.c.inbox /\ g.c.state = f.c.state
        /\ g.c.session = f.c.session /\ g.c.slotTask = f.c.slotTask
        /\ g.c.sessionTask = "resting" /\ g.c.offRun = f.c.offRun
        /\ g.c.offOperation = f.c.offOperation
    BY <1>1, <2>1 DEF Frames, Controllers
  <2>3. Clean(f.c, w, l)
    BY <1>2
  <2>4. g.c.state = "WATERING" => g.c.offOperation \in {"none", "running"}
    BY <2>2 DEF Safe, TaskKnown
  <2>5. Safe(z, g.c, g.s, w, l)
    BY <2>2, <2>3, <2>4, Rests
  <2> QED BY <2>2, <2>5, NotMoved DEF Reaches, Frames, g
<1>3. CASE ~(\/ f.c.offOperation = "failed"
             \/ f.c.offOperation = "proven" /\ Assessment(z).provenOff)
  <2>1. g = [f EXCEPT !.c.sessionTask = "off", !.c.offOperation = "running", !.c.offRun = run]
    BY <1>3 DEF BeginOffOperation
  <2> HIDE DEF g, run
  <2>2. /\ g \in Frames /\ g.s = f.s /\ g.c.inbox = f.c.inbox /\ g.c.state = f.c.state
        /\ g.c.session = f.c.session /\ g.c.slotTask = f.c.slotTask
        /\ g.c.sessionTask = "off" /\ g.c.offRun = run /\ g.c.offOperation = "running"
    BY ZenonT(40), <1>1, <2>1 DEF Frames, Controllers
  <2>3. Silent(f.c)
    BY DEF Clean
  <2>4. Safe(z, g.c, g.s, w, l)
    BY <1>1, <2>2, <2>3, Begins
  <2> QED BY <2>2, <2>4, NotMoved DEF Reaches, Frames, g
<1> QED BY <1>2, <1>3

(* What compensation decides upon. *)
LEMMA CompensationTyped ==
  ASSUME World, NEW z \in Zones, NEW f \in Frames, f.c.session # NoSession,
         NEW configurationChanged, NEW serviceFailed
  PROVE  LET e == CompensationEvent(f, configurationChanged, serviceFailed) IN
         /\ e \in Events
         /\ e.kind \in {"ConfigChangedPrepare", "OnConfirmTimeout", "WatchdogFired",
                        "MoistureReport"}
         /\ e.kind = "WatchdogFired" => f.c.session.freshUntil <= now
         /\ e.kind = "MoistureReport" => e.obs.class # "VALID"
<1> DEFINE e == CompensationEvent(f, configurationChanged, serviceFailed)
<1>1. \/ e = Event("ConfigChangedPrepare") \/ e = Event("OnConfirmTimeout")
      \/ e = Watchdog(f.c.armedWatchdog) /\ f.c.session.freshUntil <= now
      \/ e = Report(f.c.obs) /\ f.c.obs.class # "VALID"
  BY DEF CompensationEvent
<1>2. /\ Event("ConfigChangedPrepare") \in Events
      /\ Event("ConfigChangedPrepare").kind = "ConfigChangedPrepare"
  BY DEF Event, Events, PlainKinds
<1>3. Event("OnConfirmTimeout") \in Events /\ Event("OnConfirmTimeout").kind = "OnConfirmTimeout"
  BY DEF Event, Events, PlainKinds
<1>4. Watchdog(f.c.armedWatchdog) \in Events /\ Watchdog(f.c.armedWatchdog).kind = "WatchdogFired"
  BY DEF Watchdog, Events, Frames, Controllers
<1>5. /\ Report(f.c.obs) \in Events /\ Report(f.c.obs).kind = "MoistureReport"
      /\ Report(f.c.obs).obs = f.c.obs
  BY DEF Report, Events, Frames, Controllers
<1> HIDE DEF e
<1>6. /\ e \in Events
      /\ e.kind \in {"ConfigChangedPrepare", "OnConfirmTimeout", "WatchdogFired", "MoistureReport"}
      /\ e.kind = "WatchdogFired" => f.c.session.freshUntil <= now
      /\ e.kind = "MoistureReport" => e.obs.class # "VALID"
  BY <1>1, <1>2, <1>3, <1>4, <1>5
<1> QED BY <1>6 DEF e

(* The compensation of a withdrawn ON command always ends in an OFF        *)
(* operation, with the session still open.                                 *)
LEMMA CompensateReaches ==
  ASSUME World, NEW z \in Zones, NEW f \in Frames, NEW w, NEW l, Safe(z, f.c, f.s, w, l),
         Silent(f.c), Commanding(f.c), NEW configurationChanged, NEW serviceFailed
  PROVE  Reaches(z, f, Compensate(z, f, configurationChanged, serviceFailed), w, l)
<1> DEFINE i == Input(z, f)
           e == CompensationEvent(f, configurationChanged, serviceFailed)
           d == Decide(i, e)
           g == [f EXCEPT !.c.state = d.state, !.c.fault = d.fault,
                          !.c.session = IF d.session # NoSession THEN d.session ELSE @]
           h == [g EXCEPT !.c.offRequested = FALSE]
<1>1. /\ f.c.session # NoSession /\ f.c.offOperation = "none"
      /\ f.c.state = "WATERING" \/ f.c.state = "FAULT"
      /\ f.c.offRun.phase = "idle" /\ Owning(f.c.state, f.c.session)
  BY DEF Safe, TaskKnown, Commanding
<1>2. /\ e \in Events
      /\ e.kind \in {"ConfigChangedPrepare", "OnConfirmTimeout", "WatchdogFired",
                     "MoistureReport"}
      /\ e.kind = "WatchdogFired" => f.c.session.freshUntil <= now
      /\ e.kind = "MoistureReport" => e.obs.class # "VALID"
  BY <1>1, CompensationTyped
<1>3. /\ i \in Situations /\ Owning(i.state, i.session)
      /\ i.state = f.c.state /\ i.session = f.c.session /\ i.now = now
  BY <1>1, InputTyped
<1> HIDE DEF i, e
<1>4. Typed(d) /\ Justified(i, e, d)
  BY <1>2, <1>3, DecisionsJustified
<1>5. \A n \in DOMAIN d.actions : d.actions[n] \in {Persist, ExecuteOff}
  BY <1>1, <1>2, <1>3, OnlyOff
<1> HIDE DEF d
<1>6. d.state = f.c.state /\ d.session # NoSession
  BY <1>1, <1>2, <1>3, <1>4
     DEF Justified, StaysWatering, StaysFaulty, EndsOnEvidence, OffSeen
<1>7. Compensate(z, f, configurationChanged, serviceFailed) = BeginOffOperation(z, h)
  BY <1>1, <1>5 DEF Compensate, AdoptTermination, i, e, d
<1>8. /\ h \in Frames /\ h.s = f.s /\ Alike(f.c, h.c)
      /\ h.c.inbox = f.c.inbox /\ h.c.offOperation = f.c.offOperation
      /\ h.c.offRun = f.c.offRun
  <2>1. g = [f EXCEPT !.c.state = d.state, !.c.fault = d.fault, !.c.session = d.session]
    BY <1>6
  <2> HIDE DEF g
  <2>2. /\ g \in Frames /\ g.s = f.s /\ SameTask(f.c, g.c) /\ g.c.inbox = f.c.inbox
        /\ g.c.state = f.c.state /\ g.c.session = d.session
        /\ g.c.slotTask = f.c.slotTask /\ g.c.offOperation = f.c.offOperation
        /\ g.c.offRun = f.c.offRun
    BY ZenonT(40), <1>4, <1>6, <2>1 DEF Frames, Controllers, SameTask, Typed
  <2>3. /\ h \in Frames /\ h.s = g.s /\ SameTask(g.c, h.c) /\ h.c.inbox = g.c.inbox
        /\ h.c.state = g.c.state /\ h.c.session = g.c.session
        /\ h.c.slotTask = g.c.slotTask /\ h.c.offOperation = g.c.offOperation
        /\ h.c.offRun = g.c.offRun
    BY ZenonT(40), <2>2 DEF Frames, Controllers, SameTask
  <2> HIDE DEF h
  <2> QED BY <1>1, <1>6, <2>2, <2>3, SameGrown DEF Alike, SameTask
<1> HIDE DEF g, h
<1>9. Safe(z, h.c, h.s, w, l) /\ Moved(f.s, h.s, z)
  BY <1>8, AlikeSafe, NotMoved DEF Frames
<1>10. Silent(h.c)
  BY <1>8 DEF Silent
<1>11. Reaches(z, h, BeginOffOperation(z, h), w, l)
  BY <1>1, <1>8, <1>9, <1>10, BeginReaches
<1> QED BY <1>7, <1>8, <1>9, <1>11, ReachesThrough

(* A handled message changed nothing but what the decision did. *)
LEMMA LeadsReaches ==
  ASSUME NEW z, NEW f, NEW g, NEW w, NEW l, Leads(z, f, g, w, l)
  PROVE  Reaches(z, f, g, w, l)
BY DEF Leads, Reaches

(* A controller gives up, if it must, and compensates. *)
LEMMA WithdrawReaches ==
  ASSUME World, NEW z \in Zones, NEW f \in Frames, NEW w, NEW l, Safe(z, f.c, f.s, w, l),
         Silent(f.c), Commanding(f.c), NEW configurationChanged, NEW serviceFailed
  PROVE  Reaches(z, f, Compensate(z, Quiesce(f), configurationChanged, serviceFailed), w, l)
<1> DEFINE g == Quiesce(f)
<1>1. g \in Frames /\ g.s = f.s /\ Alike(f.c, g.c) /\ g.c.inbox = f.c.inbox
  BY QuiesceAlike
<1> HIDE DEF g
<1>2. Reaches(z, f, g, w, l)
  BY <1>1, AlikeReaches
<1>3. Silent(g.c) /\ Commanding(g.c)
  BY <1>1 DEF Silent, Commanding, Alike, SameTask
<1>4. Reaches(z, g, Compensate(z, g, configurationChanged, serviceFailed), w, l)
  BY <1>1, <1>2, <1>3, CompensateReaches DEF Reaches
<1>5. Reaches(z, f, Compensate(z, g, configurationChanged, serviceFailed), w, l)
  BY <1>1, <1>2, <1>4, ReachesThrough DEF Reaches
<1> QED BY <1>5 DEF g

(* The command's task is done and comes to rest. *)
LEMMA FinishReaches ==
  ASSUME NEW z \in Zones, NEW f \in Frames, NEW w, NEW l, Safe(z, f.c, f.s, w, l),
         Clean(f.c, w, l), f.c.sessionTask # "off"
  PROVE  Reaches(z, f, Finish(f), w, l)
<1> DEFINE g == Finish(f)
<1>1. NoMarker \in Markers
  BY Constants DEF NoMarker, Markers
<1>2. g = [f EXCEPT !.c.sessionTask = "resting", !.c.inflightOn = NoMarker]
  BY DEF Finish
<1> HIDE DEF g
<1>3. /\ g \in Frames /\ g.s = f.s /\ g.c.inbox = f.c.inbox /\ g.c.state = f.c.state
      /\ g.c.session = f.c.session /\ g.c.slotTask = f.c.slotTask
      /\ g.c.sessionTask = "resting" /\ g.c.offRun = f.c.offRun
      /\ g.c.offOperation = f.c.offOperation
  BY <1>1, <1>2 DEF Frames, Controllers
<1>4. g.c.offRun.phase = "idle"
      /\ (g.c.state = "WATERING" => g.c.offOperation \in {"none", "running"})
  BY <1>3 DEF Safe, TaskKnown
<1>5. Safe(z, g.c, g.s, w, l)
  BY <1>3, <1>4, Rests
<1> QED BY <1>3, <1>5, NotMoved DEF Reaches, Frames, g

(* The OFF operation has its result; the zone is no longer WATERING. *)
LEMMA EndReaches ==
  ASSUME NEW z \in Zones, NEW f \in Frames, NEW w, NEW l, Safe(z, f.c, f.s, w, l),
         Clean(f.c, w, l), f.c.state # "WATERING", NEW result \in {"proven", "failed"}
  PROVE  Reaches(z, f, EndOffOperation(f, result), w, l)
<1> DEFINE g == EndOffOperation(f, result)
           operation == IF f.c.offOperation = "running" THEN result ELSE f.c.offOperation
           run == NoOffRun
           marker == NoMarker
<1>1. marker \in Markers /\ run \in Runs /\ run.phase = "idle"
  BY Constants DEF NoMarker, Markers, NoOffRun, Runs
<1>2. operation \in {"none", "running", "proven", "failed"}
  BY DEF Frames, Controllers
<1>3. g = [f EXCEPT !.c.offOperation = operation, !.c.offRun = run,
                    !.c.sessionTask = "resting", !.c.inflightOn = marker]
  BY DEF EndOffOperation
<1> HIDE DEF g, operation, run, marker
<1>4. /\ g \in Frames /\ g.s = f.s /\ g.c.inbox = f.c.inbox /\ g.c.state = f.c.state
      /\ g.c.session = f.c.session /\ g.c.slotTask = f.c.slotTask
      /\ g.c.sessionTask = "resting" /\ g.c.offRun = run
  BY ZenonT(40), <1>1, <1>2, <1>3 DEF Frames, Controllers
<1>5. Safe(z, g.c, g.s, w, l)
  BY <1>1, <1>4, Rests
<1> QED BY <1>4, <1>5, NotMoved DEF Reaches, Frames, g

(* The final gate's refusal is an event that tells nothing of OFF. *)
LEMMA RefusalTyped ==
  ASSUME NEW z \in Zones, NEW f \in Frames, NEW c, NEW w, NEW l
  PROVE  RefusalEvent(z, f) \in Events /\ Fits(c, RefusalEvent(z, f), w, l)
<1> DEFINE e == RefusalEvent(z, f)
<1>1. \/ e = Event("ConfigChangedPrepare") \/ e = Event("OnConfirmTimeout")
      \/ e = Event("ActuatorBecameUnavailable")
      \/ e = Watchdog(f.c.armedWatchdog) \/ e = Report(f.c.obs)
  BY DEF RefusalEvent
<1>2. \A k \in {"ConfigChangedPrepare", "OnConfirmTimeout", "ActuatorBecameUnavailable"} :
        Event(k) \in Events /\ Event(k).kind = k
  BY DEF Event, Events, PlainKinds
<1>3. Watchdog(f.c.armedWatchdog) \in Events /\ Watchdog(f.c.armedWatchdog).kind = "WatchdogFired"
  BY DEF Watchdog, Events, Frames, Controllers
<1>4. Report(f.c.obs) \in Events /\ Report(f.c.obs).kind = "MoistureReport"
  BY DEF Report, Events, Frames, Controllers
<1> HIDE DEF e
<1>5. e \in Events
  BY <1>1, <1>2, <1>3, <1>4
<1>6. e.kind \in {"ConfigChangedPrepare", "OnConfirmTimeout", "ActuatorBecameUnavailable",
                  "WatchdogFired", "MoistureReport"}
  BY <1>1, <1>2, <1>3, <1>4
<1> QED BY <1>5, <1>6 DEF Fits, OffSeen, e

(* A decision, and after it nothing more. *)
LEMMA DecideReaches ==
  ASSUME World, NEW z \in Zones, NEW f \in Frames, NEW e \in Events, NEW w, NEW l,
         Safe(z, f.c, f.s, w, l), Fits(f.c, e, w, l), NEW o \in DecideAndApply(z, f, e)
  PROVE  Reaches(z, f, o[1], w, l) /\ SameTask(f.c, o[1].c)
BY DecideSafe, LeadsReaches DEF Leads

(* The gate opens: no evidence of OFF is in the inbox, the zone holds the  *)
(* slot, and water may flow from here on.                                  *)
LEMMA GateOpens ==
  ASSUME World, NEW z \in Zones, NEW f \in Frames, NEW w, NEW l, Safe(z, f.c, f.s, w, l),
         Clean(f.c, w, l), f.c.sessionTask = "gate",
         f.c.slotTask = "waiting" => f.s.future[z] # "granted", AuthorizeOn(z, f),
         NEW g, NEW marker \in Markers, marker.at = now,
         g = [f EXCEPT !.c.sessionTask = "call", !.c.inflightOn = marker]
  PROVE  Reaches(z, f, g, w, TRUE)
<1>1. /\ g \in Frames /\ g.s = f.s /\ g.c.inbox = f.c.inbox /\ g.c.state = f.c.state
      /\ g.c.session = f.c.session /\ g.c.slotTask = f.c.slotTask
      /\ g.c.sessionTask = "call" /\ g.c.offRun = f.c.offRun
      /\ g.c.offOperation = f.c.offOperation /\ g.c.inflightOn = marker
  BY DEF Frames, Controllers
<1>2. /\ f.c.state = "WATERING" /\ f.c.session # NoSession /\ f.s.owner = z
      /\ f.c.offOperation # "running"
  BY DEF AuthorizeOn, OnAuthority, FinalOnGuards, OffOperationActive
<1>3. f.c.slotTask # "waiting"
  BY <1>2 DEF Safe, Offered
<1>4. now # NoTime
  BY DEF World, NoTime
<1>5. Fenced(z, g.c, g.s, w, TRUE) /\ Offered(z, g.c, g.s)
  BY <1>1, <1>2, <1>3 DEF Fenced, Offered
<1>6. MessagesAwaited(g.c) /\ Evident(g.c, w, TRUE)
  <2>1. \A n \in DOMAIN g.c.inbox : ~OfTask(g.c.inbox[n])
    BY <1>1 DEF Clean, Silent
  <2>2. \A n \in DOMAIN g.c.inbox : g.c.inbox[n].kind # "OffConfirmed"
    BY <2>1 DEF OfTask, TaskKinds
  <2> QED BY <1>1, <2>1, <2>2 DEF MessagesAwaited, Evident, Commanding
<1>7. TaskKnown(g.c, TRUE)
  <2>1. g.c.offRun.phase = "idle" /\ g.c.offOperation = "none" /\ Owning(g.c.state, g.c.session)
    BY <1>1, <1>2 DEF Safe, TaskKnown
  <2> QED BY <1>1, <1>2, <1>4, <2>1 DEF TaskKnown
<1> QED BY <1>1, <1>5, <1>6, <1>7, NotMoved DEF Safe, Reaches, Frames

(* _final_gate *)
LEMMA FinalGateReaches ==
  ASSUME World, NEW z \in Zones, NEW f \in Frames, NEW w, NEW l \in BOOLEAN,
         Safe(z, f.c, f.s, w, l), Clean(f.c, w, l), f.c.sessionTask = "gate",
         f.c.slotTask = "waiting" => f.s.future[z] # "granted", NEW o \in FinalGate(z, f)
  PROVE  /\ Reaches(z, f, o[1], w, l \/ o[1].c.sessionTask = "call")
         /\ o[1].c.sessionTask = "call" => AuthorizeOn(z, f)
<1> DEFINE back == [f EXCEPT !.c.sessionTask = "resting"]
           marker == [at |-> now, seen |-> NoTime, mine |-> TRUE]
           g == [f EXCEPT !.c.sessionTask = "call", !.c.inflightOn = marker]
           quiet == Quiesce(back)
           watchdog == Watchdog(f.c.armedWatchdog)
           refusal == RefusalEvent(z, f)
<1>1. \/ o = <<back, 0>>
      \/ o \in DecideAndApply(z, back, watchdog)
      \/ o \in DecideAndApply(z, quiet, refusal)
      \/ AuthorizeOn(z, f) /\ o = <<g, 0>>
  BY DEF FinalGate, Quiet
<1>2. marker \in Markers /\ marker.at = now
  BY Constants DEF Markers, World
<1>3. /\ watchdog \in Events /\ refusal \in Events
      /\ \A c : Fits(c, watchdog, w, l) /\ Fits(c, refusal, w, l)
  <2>1. watchdog \in Events /\ watchdog.kind = "WatchdogFired"
    BY DEF Watchdog, Events, Frames, Controllers
  <2>2. \A c : Fits(c, watchdog, w, l)
    BY <2>1 DEF Fits, OffSeen
  <2> QED BY <2>1, <2>2, RefusalTyped
<1>4. /\ back \in Frames /\ back.s = f.s /\ back.c.sessionTask = "resting"
      /\ Reaches(z, f, back, w, l)
  <2>1. back = [f EXCEPT !.c.sessionTask = "resting"]
    OBVIOUS
  <2> HIDE DEF back
  <2>2. /\ back \in Frames /\ back.s = f.s /\ back.c.inbox = f.c.inbox
        /\ back.c.state = f.c.state /\ back.c.session = f.c.session
        /\ back.c.slotTask = f.c.slotTask /\ back.c.sessionTask = "resting"
        /\ back.c.offRun = f.c.offRun /\ back.c.offOperation = f.c.offOperation
    BY <2>1 DEF Frames, Controllers
  <2>3. /\ back.c.offRun.phase = "idle"
        /\ back.c.state = "WATERING" => back.c.offOperation \in {"none", "running"}
    BY <2>2 DEF Safe, TaskKnown
  <2>4. Safe(z, back.c, back.s, w, l)
    BY <2>2, <2>3, Rests
  <2> QED BY <2>2, <2>4, NotMoved DEF Reaches, Frames
<1> HIDE DEF back, marker, watchdog, refusal
<1>5. /\ quiet \in Frames /\ quiet.c.sessionTask = "resting" /\ Reaches(z, f, quiet, w, l)
  <2>1. quiet \in Frames /\ quiet.s = back.s /\ Alike(back.c, quiet.c)
    BY <1>4, QuiesceAlike
  <2> HIDE DEF quiet
  <2>2. Reaches(z, back, quiet, w, l)
    BY <1>4, <2>1, AlikeReaches DEF Reaches
  <2>3. Reaches(z, f, quiet, w, l)
    BY <1>4, <2>2, ReachesThrough DEF Reaches
  <2> QED BY <1>4, <2>1, <2>3 DEF Alike, SameTask
<1> HIDE DEF quiet
<1>6. CASE o = <<back, 0>>
  <2>1. (l \/ o[1].c.sessionTask = "call") = l
    BY <1>4, <1>6
  <2> QED BY <1>4, <1>6, <2>1
<1>7. ASSUME NEW b \in Frames, b.c.sessionTask = "resting", Reaches(z, f, b, w, l),
             NEW e \in Events, Fits(b.c, e, w, l), o \in DecideAndApply(z, b, e)
      PROVE  /\ Reaches(z, f, o[1], w, l \/ o[1].c.sessionTask = "call")
             /\ o[1].c.sessionTask # "call"
  <2>1. Reaches(z, b, o[1], w, l) /\ SameTask(b.c, o[1].c)
    BY <1>7, DecideReaches DEF Reaches
  <2>2. Reaches(z, f, o[1], w, l)
    BY <1>7, <2>1, ReachesThrough DEF Reaches
  <2>3. (l \/ o[1].c.sessionTask = "call") = l /\ o[1].c.sessionTask # "call"
    BY <1>7, <2>1 DEF SameTask
  <2> QED BY <2>2, <2>3
<1>8. CASE AuthorizeOn(z, f) /\ o = <<g, 0>>
  <2>1. g = [f EXCEPT !.c.sessionTask = "call", !.c.inflightOn = marker]
    OBVIOUS
  <2> HIDE DEF g
  <2>2. Reaches(z, f, g, w, TRUE)
    BY <1>2, <1>8, <2>1, GateOpens
  <2>3. (l \/ o[1].c.sessionTask = "call") = TRUE
    BY <1>2, <1>8, <2>1 DEF Frames, Controllers
  <2> QED BY <1>8, <2>2, <2>3
<1> QED BY <1>1, <1>3, <1>4, <1>5, <1>6, <1>7, <1>8

(* The event of an acknowledged command. *)
LEMMA AcknowledgedTyped ==
  ASSUME NEW k \in {"OnConfirmed", "OffConfirmed", "ExternalActuatorOff"}, NEW at \in Int
  PROVE  At(k, at) \in Events /\ At(k, at).kind = k
BY DEF At, Events

(* The command is withdrawn, or its commit was not saved. *)
Withdrawn(z, f) == Compensate(z, Quiesce(f), ~RecheckConfiguration(f), FALSE)
Unsaved(z, f) == Compensate(z, HandlePersistFailure(z, f), FALSE, TRUE)
Acknowledgement(f) == At("OnConfirmed", f.c.inflightOn.seen)

(* What command_commit may come to. *)
LEMMA CommandCommitOutcomes ==
  ASSUME NEW z, NEW f, NEW o \in CommandCommit(z, f)
  PROVE  \/ o[1] = Withdrawn(z, f) \/ o[1] = Finish(f)
         \/ \E p \in DecideAndApply(z, f, Acknowledgement(f)) :
              /\ f.c.inflightOn.seen # NoTime
              /\ o[1] = Finish(p[1]) \/ o[1] = Withdrawn(z, p[1])
         \/ StoreMayFail /\ o[1] = Unsaved(z, f)
<1> DEFINE Faulted == IF "storeFails" \in Disturbances /\ left.failure > 0
                      THEN {<<Unsaved(z, f), 1>>} ELSE {}
<1>1. CommandCommit(z, f) = Recheck(z, f, Acknowledge(z, f) \cup Faulted)
  BY DEF CommandCommit, Unsaved
<1>2. \A g, S : Recheck(z, g, S) = IF RecheckOn(z, g) THEN S ELSE Quiet(Withdrawn(z, g))
  BY DEF Recheck, Withdrawn
<1>3. \A g : \A r \in Recheck(z, g, Quiet(Finish(g))) : r[1] = Withdrawn(z, g) \/ r[1] = Finish(g)
  BY <1>2 DEF Quiet
<1>4. o[1] = Withdrawn(z, f) \/ o \in Acknowledge(z, f) \/ o \in Faulted
  BY <1>1, <1>2 DEF Quiet
<1>5. o \in Faulted => StoreMayFail /\ o[1] = Unsaved(z, f)
  BY DEF StoreMayFail
<1>6. CASE o \in Acknowledge(z, f) /\ f.c.inflightOn.seen = NoTime
  BY <1>6 DEF Acknowledge, Quiet
<1>7. CASE o \in Acknowledge(z, f) /\ f.c.inflightOn.seen # NoTime
  <2>1. \E p \in DecideAndApply(z, f, Acknowledgement(f)) :
          \E r \in Recheck(z, p[1], Quiet(Finish(p[1]))) : o = <<r[1], r[2] + p[2]>>
    BY <1>7 DEF Acknowledge, Acknowledgement
  <2>2. \E p \in DecideAndApply(z, f, Acknowledgement(f)) :
          \E r \in Recheck(z, p[1], Quiet(Finish(p[1]))) : o[1] = r[1]
    BY <2>1
  <2> QED BY <1>3, <1>7, <2>2
<1> QED BY <1>4, <1>5, <1>6, <1>7

(* A commit that was not saved faults the zone while it commands. *)
LEMMA PersistFailureSafe ==
  ASSUME NEW z \in Zones, NEW f \in Frames, NEW w, NEW l, Safe(z, f.c, f.s, w, l),
         Silent(f.c), Commanding(f.c), StoreMayFail
  PROVE  LET g == HandlePersistFailure(z, f) IN
         /\ g \in Frames /\ g.s = f.s /\ Safe(z, g.c, g.s, w, l)
         /\ Silent(g.c) /\ Commanding(g.c)
<1> DEFINE g == HandlePersistFailure(z, f)
<1>1. /\ g \in Frames /\ g.s = f.s /\ g.c.inbox = f.c.inbox
      /\ SameTask(f.c, g.c) /\ g.c.inflightOn = f.c.inflightOn
      /\ g.c.state = "FAULT" /\ (g.c.session = NoSession) = (f.c.session = NoSession)
      /\ g.c.slotTask = f.c.slotTask /\ g.c.offOperation = f.c.offOperation
  BY PersistFailureFaults DEF SessionStands
<1> HIDE DEF g
<1>2. Fenced(z, g.c, g.s, w, l) /\ Offered(z, g.c, g.s)
  BY <1>1 DEF Safe, Fenced, Offered
<1>3. MessagesAwaited(g.c) /\ Evident(g.c, w, l)
  BY <1>1, SameGrown, AlikeAwaited, AlikeEvident DEF Safe
<1>4. TaskKnown(g.c, l)
  BY <1>1 DEF Safe, TaskKnown, Owning, SameTask, Commanding
<1>5. Silent(g.c) /\ Commanding(g.c)
  BY <1>1 DEF Silent, Commanding, SameTask
<1> QED BY <1>1, <1>2, <1>3, <1>4, <1>5 DEF Safe, g

(* command_commit *)
LEMMA CommandCommitReaches ==
  ASSUME World, NEW z \in Zones, NEW f \in Frames, NEW w, NEW l, Safe(z, f.c, f.s, w, l),
         Clean(f.c, w, l), f.c.sessionTask = "commit", NEW o \in CommandCommit(z, f)
  PROVE  Reaches(z, f, o[1], w, l)
<1> DEFINE e == Acknowledgement(f)
           failed == HandlePersistFailure(z, f)
           hit == Unsaved(z, f)
<1>1. \/ o[1] = Withdrawn(z, f) \/ o[1] = Finish(f)
      \/ \E p \in DecideAndApply(z, f, e) : o[1] = Finish(p[1]) \/ o[1] = Withdrawn(z, p[1])
      \/ StoreMayFail /\ o[1] = hit
  BY CommandCommitOutcomes
<1>2. Commanding(f.c) /\ Silent(f.c)
  BY DEF Commanding, Clean
<1>3. ASSUME NEW g \in Frames, Reaches(z, f, g, w, l), Clean(g.c, w, l), g.c.sessionTask = "commit"
      PROVE  Reaches(z, f, Finish(g), w, l) /\ Reaches(z, f, Withdrawn(z, g), w, l)
  <2>1. Reaches(z, g, Finish(g), w, l)
    BY <1>3, FinishReaches DEF Reaches
  <2>2. Reaches(z, g, Withdrawn(z, g), w, l)
    BY <1>3, WithdrawReaches DEF Reaches, Commanding, Clean, Withdrawn
  <2> QED BY <1>3, <2>1, <2>2, ReachesThrough DEF Reaches
<1> HIDE DEF hit
<1>4. Reaches(z, f, f, w, l)
  BY NotMoved DEF Reaches, Frames
<1>5. CASE o[1] = Withdrawn(z, f) \/ o[1] = Finish(f)
  BY <1>3, <1>4, <1>5
<1>6. ASSUME NEW p \in DecideAndApply(z, f, e), o[1] = Finish(p[1]) \/ o[1] = Withdrawn(z, p[1])
      PROVE  Reaches(z, f, o[1], w, l)
  <2>1. e \in Events /\ e.kind = "OnConfirmed"
    <3>1. f.c.inflightOn.seen \in Int
      BY DEF Frames, Controllers, Markers
    <3> QED BY <3>1, AcknowledgedTyped DEF Acknowledgement
  <2> HIDE DEF e
  <2>2. Fits(f.c, e, w, l)
    BY <2>1 DEF Fits, OffSeen
  <2>3. Leads(z, f, p[1], w, l)
    BY <1>6, <2>1, <2>2, DecideSafe
  <2>4. Clean(p[1].c, w, l) /\ p[1] \in Frames /\ p[1].c.sessionTask = "commit"
    BY <2>3, CleanGrown DEF Leads, SameTask
  <2>5. Reaches(z, f, p[1], w, l)
    BY <2>3, LeadsReaches
  <2> QED BY <1>3, <1>6, <2>4, <2>5
<1>7. CASE StoreMayFail /\ o[1] = hit
  <2>1. /\ failed \in Frames /\ failed.s = f.s /\ Safe(z, failed.c, failed.s, w, l)
        /\ Silent(failed.c) /\ Commanding(failed.c)
    BY <1>2, <1>7, PersistFailureSafe
  <2> HIDE DEF failed
  <2>2. Reaches(z, failed, hit, w, l)
    BY <2>1, CompensateReaches DEF hit, Unsaved, failed
  <2>3. Moved(f.s, failed.s, z)
    BY <2>1, NotMoved DEF Frames
  <2> QED BY <1>7, <2>1, <2>2, <2>3, ReachesThrough
<1> QED BY <1>1, <1>5, <1>6, <1>7

(* The possible command is anchored in its session. *)
LEMMA RecordedAlike ==
  ASSUME NEW f \in Frames, f.c.session # NoSession,
         NEW g, g = [f EXCEPT !.c = RecordPossibleCommand(f.c)]
  PROVE  g \in Frames /\ g.s = f.s /\ Alike(f.c, g.c) /\ g.c.inbox = f.c.inbox
<1> DEFINE s == [f.c.session EXCEPT !.commanded = f.c.inflightOn.at]
<1>1. g = f \/ g = [f EXCEPT !.c.session = s]
  <2>1. RecordPossibleCommand(f.c) \in {f.c, [f.c EXCEPT !.session = s]}
    BY DEF RecordPossibleCommand
  <2>2. [f EXCEPT !.c = f.c] = f
    BY DEF Frames
  <2> QED BY <2>1, <2>2
<1>2. s \in OpenSessions
  <2>1. f.c.session \in OpenSessions /\ f.c.inflightOn.at \in Int
    BY DEF Frames, Controllers, Sessions, Markers
  <2> QED BY <2>1 DEF OpenSessions
<1>3. s \in Sessions /\ s # NoSession
  BY <1>2, OpenIsOpen DEF Sessions
<1> HIDE DEF s
<1>4. CASE g = f
  BY <1>4, SameGrown DEF Alike, SameTask
<1>5. CASE g = [f EXCEPT !.c.session = s]
  <2>1. /\ g \in Frames /\ g.s = f.s /\ SameTask(f.c, g.c) /\ g.c.inbox = f.c.inbox
        /\ g.c.state = f.c.state /\ g.c.session = s
        /\ g.c.slotTask = f.c.slotTask /\ g.c.offOperation = f.c.offOperation
    BY SMTT(20), <1>3, <1>5 DEF Frames, Controllers, SameTask
  <2> QED BY <1>3, <2>1, SameGrown DEF Alike
<1> QED BY <1>1, <1>4, <1>5

(* The service call is over: the command is committed, or compensated. *)
LEMMA AfterOnCallReaches ==
  ASSUME World, NEW z \in Zones, NEW f \in Frames, NEW w, NEW l, Safe(z, f.c, f.s, w, l),
         f.c.sessionTask = "call", NEW serviceFailed \in BOOLEAN
  PROVE  Reaches(z, f, AfterOnCall(z, f, serviceFailed), w, l)
<1> DEFINE g == [f EXCEPT !.c = RecordPossibleCommand(f.c)]
           m == Event("CommandCommit")
           q == Append(g.c.inbox, m)
           h == [Post(g, m) EXCEPT !.c.sessionTask = "commit"]
           changed == ~RecheckConfiguration(g)
<1>1. \/ AfterOnCall(z, f, serviceFailed) = Compensate(z, Quiesce(g), changed, serviceFailed)
      \/ AfterOnCall(z, f, serviceFailed) = h
  BY DEF AfterOnCall
<1>2. Commanding(f.c) /\ Silent(f.c) /\ f.c.session # NoSession /\ f.c.offRun.phase = "idle"
  BY NothingAwaited DEF Frames, Commanding, Safe, TaskKnown
<1>3. g \in Frames /\ g.s = f.s /\ Alike(f.c, g.c) /\ g.c.inbox = f.c.inbox
  BY <1>2, RecordedAlike
<1>4. h = [g EXCEPT !.c = [[g.c EXCEPT !.inbox = q] EXCEPT !.sessionTask = "commit"]]
  BY <1>3 DEF Post, Send, Frames
<1> HIDE DEF g, h, changed
<1>5. Reaches(z, f, g, w, l)
  BY <1>3, AlikeReaches
<1>6. Silent(g.c) /\ Commanding(g.c) /\ g.c.sessionTask = "call"
  BY <1>2, <1>3 DEF Silent, Commanding, Alike, SameTask
<1>7. Reaches(z, f, Compensate(z, Quiesce(g), changed, serviceFailed), w, l)
  <2>1. Reaches(z, g, Compensate(z, Quiesce(g), changed, serviceFailed), w, l)
    BY <1>3, <1>5, <1>6, WithdrawReaches DEF Reaches
  <2> QED BY <1>3, <1>5, <2>1, ReachesThrough DEF Reaches
<1>8. Reaches(z, f, h, w, l)
  <2>1. g.c.inbox \in Seq(Messages) /\ Len(g.c.inbox) \in Nat
    BY <1>3, InboxTyped DEF Frames, Controllers
  <2>2. m \in Messages /\ m.kind = "CommandCommit"
    BY DEF Event, Messages
  <2> HIDE DEF m
  <2>3. /\ q \in Seq(Messages) /\ DOMAIN q = DOMAIN g.c.inbox \cup {Len(g.c.inbox) + 1}
        /\ \A n \in DOMAIN g.c.inbox : q[n] = g.c.inbox[n] /\ n < Len(g.c.inbox) + 1
        /\ q[Len(g.c.inbox) + 1] = m
    BY <2>1, <2>2, AppendInbox
  <2> HIDE DEF q
  <2>4. /\ h \in Frames /\ h.s = g.s /\ h.c.inbox = q /\ h.c.state = g.c.state
        /\ h.c.session = g.c.session /\ h.c.slotTask = g.c.slotTask
        /\ h.c.sessionTask = "commit" /\ h.c.offRun = g.c.offRun
        /\ h.c.offOperation = g.c.offOperation /\ h.c.inflightOn = g.c.inflightOn
    BY ZenonT(40), <1>3, <1>4, <2>3 DEF Frames, Controllers
  <2>5. Safe(z, g.c, g.s, w, l)
    BY <1>5 DEF Reaches
  <2>6. Fenced(z, h.c, h.s, w, l) /\ Offered(z, h.c, h.s) /\ TaskKnown(h.c, l)
    BY <1>6, <2>4, <2>5 DEF Safe, Fenced, Offered, TaskKnown, Commanding
  <2>7. ~OffChange(m) /\ m.kind # "OffConfirmed"
    BY <2>2 DEF OffChange
  <2>8. \A n \in DOMAIN q : OfTask(q[n]) => n = Len(g.c.inbox) + 1
    BY <1>6, <2>3 DEF Silent
  <2>9. MessagesAwaited(h.c)
    BY <2>2, <2>3, <2>4, <2>8 DEF MessagesAwaited, AwaitsIt
  <2>10. Evident(h.c, w, l)
    <3>1. \A n \in DOMAIN q : OffChange(q[n]) => n \in DOMAIN g.c.inbox /\ n < Len(g.c.inbox) + 1
      BY <2>3, <2>7
    <3>2. Flows(w, l) => \A n \in DOMAIN q : q[n].kind # "OffConfirmed"
      BY <2>3, <2>5, <2>7 DEF Safe, Evident
    <3> QED BY <2>4, <2>8, <3>1, <3>2 DEF Evident, Commanding
  <2>11. Safe(z, h.c, h.s, w, l)
    BY <2>6, <2>9, <2>10 DEF Safe
  <2> QED BY <1>5, <2>4, <2>11 DEF Reaches
<1> QED BY <1>1, <1>7, <1>8

-----------------------------------------------------------------------------
(* What a task does once it has the lock. *)

(* A frame that safety does not tell from f, and a decision in it. *)
LEMMA ThenDecides ==
  ASSUME World, NEW z \in Zones, NEW f \in Frames, NEW g \in Frames, NEW e \in Events,
         NEW w, NEW l, Reaches(z, f, g, w, l), Fits(g.c, e, w, l),
         NEW o \in DecideAndApply(z, g, e)
  PROVE  Reaches(z, f, o[1], w, l)
<1>1. Reaches(z, g, o[1], w, l)
  BY DecideReaches DEF Reaches
<1> QED BY <1>1, ReachesThrough DEF Reaches

(* A plain event never says that a zone is off. *)
LEMMA PlainFits ==
  ASSUME NEW k \in PlainKinds \ {"OffNotConfirmed", "DisableRequested", "ClearFaultRequested"},
         NEW c, NEW w, NEW l
  PROVE  Event(k) \in Events /\ Event(k).kind = k /\ Fits(c, Event(k), w, l)
BY DEF Event, Events, PlainKinds, Fits, OffSeen

(* The zone's not-proven-off key goes. *)
LEMMA ClearedReaches ==
  ASSUME NEW z \in Zones, NEW f \in Frames, NEW w, NEW l, Safe(z, f.c, f.s, w, l),
         NEW g, g = [f EXCEPT !.s = BlockerGone(f.s, <<z, "actuator_not_proven_off">>)]
  PROVE  g \in Frames /\ g.c = f.c /\ Reaches(z, f, g, w, l)
<1> DEFINE key == <<z, "actuator_not_proven_off">>
           t == BlockerGone(f.s, key)
<1>1. key \in KeysOf(z) /\ key # OffKey(z)
  BY KeysTyped DEF KeyReasons, OffKey, Unconfirmed
<1> HIDE DEF key
<1>2. f.s \in Slots
  BY DEF Frames
<1>3. /\ t \in Slots /\ Moved(f.s, t, z) /\ t.blockers = f.s.blockers \ {key}
      /\ f.s.owner = z => t.owner = z
  BY <1>1, <1>2, BlockerMoves
<1>4. g = [f EXCEPT !.s = t]
  BY DEF key
<1> HIDE DEF t
<1>5. g \in Frames /\ g.c = f.c /\ g.s = t
  BY <1>3, <1>4 DEF Frames
<1>6. Safe(z, g.c, t, w, l)
  BY <1>1, <1>2, <1>3, <1>5, SafeWithSlots DEF Moved
<1> QED BY <1>3, <1>5, <1>6 DEF Reaches

Changes == [kind : {"ActuatorChange"}, prev : Actuators, cur : Actuators,
            terminal : BOOLEAN, at : Int]

(* _async_actuator_change: that the zone is off is decided only when no    *)
(* command and no OFF operation is under way.                              *)
LEMMA ActuatorChangeReaches ==
  ASSUME World, NEW z \in Zones, NEW f \in Frames, NEW w, NEW l, Safe(z, f.c, f.s, w, l),
         NEW m \in Changes,
         Flows(w, l) => Harmless(f.c, m), NEW o \in ActuatorChange(z, f, m)
  PROVE  Reaches(z, f, o[1], w, l)
<1> DEFINE g == [f EXCEPT !.s = BlockerGone(f.s, <<z, "actuator_not_proven_off">>)]
           off == At("ExternalActuatorOff", m.at)
           on == At("OnConfirmed", m.at)
           gone == Event("ActuatorBecameUnavailable")
           theirs == Event("ExternalActuatorOn")
<1>1. \/ o = <<f, 0>> \/ o = <<f, 1>> \/ o = <<g, 0>>
      \/ o \in DecideAndApply(z, f, gone) \/ o \in DecideAndApply(z, f, theirs)
      \/ o \in DecideAndApply(z, f, on)
      \/ /\ m.cur.provenOff /\ ~OffOperationActive(f.c) /\ f.c.inflightOn = NoMarker
         /\ o \in DecideAndApply(z, g, off)
  BY DEF ActuatorChange, Quiet
<1>2. /\ off \in Events /\ off.kind = "ExternalActuatorOff"
      /\ on \in Events /\ Fits(f.c, on, w, l)
  <2>1. m.at \in Int
    BY DEF Changes
  <2>2. off \in Events /\ off.kind = "ExternalActuatorOff"
        /\ on \in Events /\ on.kind = "OnConfirmed"
    BY <2>1, AcknowledgedTyped
  <2> HIDE DEF off, on
  <2> QED BY <2>2 DEF Fits, OffSeen
<1>3. /\ gone \in Events /\ Fits(f.c, gone, w, l)
      /\ theirs \in Events /\ Fits(f.c, theirs, w, l)
  BY PlainFits DEF PlainKinds
<1>4. g \in Frames /\ g.c = f.c /\ Reaches(z, f, g, w, l)
  BY ClearedReaches
<1>5. Reaches(z, f, f, w, l)
  BY NotMoved DEF Reaches, Frames
<1> HIDE DEF off, on, gone, theirs, g
<1>6. CASE o = <<f, 0>> \/ o = <<f, 1>> \/ o = <<g, 0>>
  BY <1>4, <1>5, <1>6
<1>7. CASE \/ o \in DecideAndApply(z, f, gone) \/ o \in DecideAndApply(z, f, theirs)
           \/ o \in DecideAndApply(z, f, on)
  BY <1>2, <1>3, <1>5, <1>7, ThenDecides
<1>8. CASE /\ m.cur.provenOff /\ ~OffOperationActive(f.c) /\ f.c.inflightOn = NoMarker
           /\ o \in DecideAndApply(z, g, off)
  <2>1. ~Commanding(f.c)
    BY <1>8 DEF Safe, TaskKnown, NoMarker
  <2>2. OffChange(m)
    BY <1>8 DEF OffChange, Changes
  <2>3. ~Flows(w, l)
    BY <1>8, <2>1, <2>2 DEF OffOperationActive, Harmless
  <2>4. Fits(g.c, off, w, l)
    BY <1>2, <1>4, <2>1, <2>3 DEF Fits
  <2> QED BY <1>2, <1>4, <1>8, <2>4, ThenDecides
<1> QED BY <1>1, <1>6, <1>7, <1>8

(* async_moisture: the observation is always adopted. *)
LEMMA MoistureReaches ==
  ASSUME World, NEW z \in Zones, NEW f \in Frames, NEW w, NEW l, Safe(z, f.c, f.s, w, l),
         NEW m \in Events, m.kind = "MoistureReport", NEW o \in Moisture(z, f, m)
  PROVE  Reaches(z, f, o[1], w, l)
<1> DEFINE g == [f EXCEPT !.c.obs = m.obs]
<1>1. o = <<g, 0>> \/ o \in DecideAndApply(z, g, m)
  BY DEF Moisture, Quiet
<1>2. m.obs \in Reports
  BY DEF Events, PlainKinds
<1>3. g = [f EXCEPT !.c.obs = m.obs]
  OBVIOUS
<1> HIDE DEF g
<1>4. /\ g \in Frames /\ g.s = f.s /\ SameTask(f.c, g.c) /\ g.c.inbox = f.c.inbox
      /\ g.c.state = f.c.state /\ g.c.session = f.c.session
      /\ g.c.slotTask = f.c.slotTask /\ g.c.offOperation = f.c.offOperation
  BY <1>2, <1>3 DEF Frames, Controllers, SameTask
<1>5. Reaches(z, f, g, w, l)
  BY <1>4, SameGrown, AlikeReaches DEF Alike
<1>6. Fits(g.c, m, w, l)
  BY DEF Fits, OffSeen
<1> QED BY <1>1, <1>4, <1>5, <1>6, ThenDecides

(* async_set_enabled *)
LEMMA EnableReaches ==
  ASSUME World, NEW z \in Zones, NEW f \in Frames, NEW w, NEW l, Safe(z, f.c, f.s, w, l),
         NEW m \in Events, Fits(f.c, m, w, l), NEW enabled \in BOOLEAN,
         NEW o \in DecideAndApply(z, [f EXCEPT !.c.enabled = enabled], m)
  PROVE  Reaches(z, f, o[1], w, l)
<1> DEFINE g == [f EXCEPT !.c.enabled = enabled]
<1>1. g = [f EXCEPT !.c.enabled = enabled]
  OBVIOUS
<1> HIDE DEF g
<1>2. /\ g \in Frames /\ g.s = f.s /\ SameTask(f.c, g.c) /\ g.c.inbox = f.c.inbox
      /\ g.c.state = f.c.state /\ g.c.session = f.c.session
      /\ g.c.slotTask = f.c.slotTask /\ g.c.offOperation = f.c.offOperation
  BY <1>1 DEF Frames, Controllers, SameTask
<1>3. Reaches(z, f, g, w, l)
  BY <1>2, SameGrown, AlikeReaches DEF Alike
<1>4. Fits(g.c, m, w, l)
  BY <1>2 DEF Fits, Commanding, SameTask
<1> QED BY <1>1, <1>2, <1>3, <1>4, ThenDecides

(* The slot task's offer is decided upon, and the task ends. *)
LEMMA OfferReaches ==
  ASSUME World, NEW z \in Zones, NEW f \in Frames, NEW w, NEW l, Safe(z, f.c, f.s, w, l),
         NEW e \in Events, Fits(f.c, e, w, l), NEW p \in DecideAndApply(z, f, e)
  PROVE  Reaches(z, f, [p[1] EXCEPT !.c.slotTask = "none"], w, l)
<1> DEFINE g == p[1]
           h == [g EXCEPT !.c.slotTask = "none"]
<1>1. Reaches(z, f, g, w, l)
  BY DecideReaches
<1>2. g \in Frames
  BY <1>1 DEF Reaches
<1>3. h = [g EXCEPT !.c.slotTask = "none"]
  OBVIOUS
<1> HIDE DEF g, h
<1>4. /\ h \in Frames /\ h.s = g.s /\ SameTask(g.c, h.c) /\ h.c.inbox = g.c.inbox
      /\ h.c.state = g.c.state /\ h.c.session = g.c.session
      /\ h.c.slotTask = "none" /\ h.c.offOperation = g.c.offOperation
  BY ZenonT(40), <1>2, <1>3 DEF Frames, Controllers, SameTask
<1>5. MessagesAwaited(h.c) /\ Evident(h.c, w, l)
  BY <1>1, <1>4, SameGrown, AlikeAwaited, AlikeEvident DEF Safe, Reaches
<1>6. Fenced(z, h.c, h.s, w, l) /\ Offered(z, h.c, h.s) /\ TaskKnown(h.c, l)
  BY <1>1, <1>4 DEF Safe, Fenced, Offered, TaskKnown, Commanding, SameTask, Reaches
<1> QED BY <1>1, <1>4, <1>5, <1>6 DEF Safe, Reaches, g, h

(* The end of an OFF operation: the zone has left WATERING by it. *)
LEMMA OffEndReaches ==
  ASSUME World, NEW z \in Zones, NEW f \in Frames, NEW w, NEW l, Safe(z, f.c, f.s, w, l),
         Clean(f.c, w, l), NEW m \in Events, m.kind \in {"OffConfirmed", "OffNotConfirmed"},
         Fits(f.c, m, w, l), NEW p \in DecideAndApply(z, f, m),
         NEW result \in {"proven", "failed"}
  PROVE  Reaches(z, f, EndOffOperation(p[1], result), w, l)
<1> DEFINE g == p[1]
<1>1. Leads(z, f, g, w, l) /\ g.c.state # "WATERING"
  BY DecideSafe
<1> HIDE DEF g
<1>2. Reaches(z, f, g, w, l) /\ g \in Frames /\ Clean(g.c, w, l)
  BY <1>1, LeadsReaches, CleanGrown DEF Leads
<1>3. Reaches(z, g, EndOffOperation(g, result), w, l)
  BY <1>1, <1>2, EndReaches DEF Reaches
<1>4. Reaches(z, f, EndOffOperation(g, result), w, l)
  BY <1>2, <1>3, ReachesThrough DEF Reaches
<1> QED BY <1>4 DEF g

(* A message is what its kind says. *)
LEMMA MessageKinds ==
  ASSUME NEW m \in Messages
  PROVE  /\ m.kind = "SlotOffer" => m.event \in Offers
         /\ m.kind = "ActuatorChange" => m \in Changes
         /\ m.kind \notin {"SlotOffer", "ActuatorChange", "FinalGate", "CommandCommit"}
              => m \in Posted
<1>1. m \in Posted => m.kind \notin {"SlotOffer", "ActuatorChange"}
  BY DEF Posted, Events, PlainKinds
<1> QED BY <1>1 DEF Messages, Changes

(* A posted event is no evidence of OFF, unless the OFF operation sent it. *)
LEMMA PostedFits ==
  ASSUME NEW m \in Posted, m.kind \notin {"OffConfirmed", "OffNotConfirmed"}, NEW c, NEW w, NEW l
  PROVE  m \in Events /\ Fits(c, m, w, l)
BY DEF Posted, Fits, OffSeen

(* Every handler leads from the frame it starts in to a safe one. *)
LEMMA HandlerReaches ==
  ASSUME World, NEW z \in Zones, NEW f \in Frames, NEW w, NEW l \in BOOLEAN,
         Safe(z, f.c, f.s, w, l), f.c.slotTask = "waiting" => f.s.future[z] # "granted",
         NEW m \in Messages,
         OfTask(m) => Clean(f.c, w, l) /\ AwaitsIt(f.c, m),
         Flows(w, l) => Harmless(f.c, m),
         NEW o \in Handle(z, f, m)
  PROVE  /\ Reaches(z, f, o[1], w, l \/ (m.kind = "FinalGate" /\ o[1].c.sessionTask = "call"))
         /\ m.kind = "FinalGate" /\ o[1].c.sessionTask = "call" => OnAuthority(z, f)
<1>1. CASE m.kind = "FinalGate"
  <2>1. o \in FinalGate(z, f)
    BY <1>1 DEF Handle
  <2>2. Clean(f.c, w, l) /\ f.c.sessionTask = "gate"
    BY <1>1 DEF OfTask, TaskKinds, AwaitsIt
  <2>3. /\ Reaches(z, f, o[1], w, l \/ o[1].c.sessionTask = "call")
        /\ o[1].c.sessionTask = "call" => OnAuthority(z, f)
    BY <2>1, <2>2, FinalGateReaches DEF AuthorizeOn
  <2>4. (m.kind = "FinalGate" /\ o[1].c.sessionTask = "call") = (o[1].c.sessionTask = "call")
    BY <1>1
  <2> QED BY <2>3, <2>4
<1>2. ASSUME m.kind # "FinalGate"
      PROVE  Reaches(z, f, o[1], w, l \/ (m.kind = "FinalGate" /\ o[1].c.sessionTask = "call"))
  <2>1. (l \/ (m.kind = "FinalGate" /\ o[1].c.sessionTask = "call")) = l
    BY <1>2
  <2>2. CASE m.kind = "CommandCommit"
    <3>1. o \in CommandCommit(z, f)
      BY <2>2 DEF Handle
    <3>2. Clean(f.c, w, l) /\ f.c.sessionTask = "commit"
      BY <2>2 DEF OfTask, TaskKinds, AwaitsIt
    <3> QED BY <2>1, <3>1, <3>2, CommandCommitReaches
  <2>3. CASE m.kind = "ActuatorChange"
    <3>1. o \in ActuatorChange(z, f, m) /\ m \in Changes
      BY <2>3, MessageKinds DEF Handle
    <3> QED BY <2>1, <3>1, ActuatorChangeReaches
  <2>4. CASE m.kind = "SlotOffer"
    <3>1. PICK p \in DecideAndApply(z, f, m.event) :
             o = <<[p[1] EXCEPT !.c.slotTask = "none"], p[2]>>
      BY <2>4 DEF Handle, Then
    <3>2. m.event \in Events /\ Fits(f.c, m.event, w, l)
      BY <2>4, MessageKinds DEF Offers, Fits, OffSeen
    <3>3. Reaches(z, f, [p[1] EXCEPT !.c.slotTask = "none"], w, l)
      BY <3>2, OfferReaches
    <3> QED BY <2>1, <3>1, <3>3
  <2>5. CASE m.kind \in {"OffConfirmed", "OffNotConfirmed"}
    <3>1. PICK p \in DecideAndApply(z, f, m), result \in {"proven", "failed"} :
             o = <<EndOffOperation(p[1], result), p[2]>>
      BY <2>5 DEF Handle, Then
    <3>2. m \in Events /\ Clean(f.c, w, l) /\ f.c.sessionTask = "off"
      BY <2>5, MessageKinds DEF Posted, OfTask, TaskKinds, AwaitsIt, Safe, TaskKnown
    <3>3. Fits(f.c, m, w, l)
      BY <2>5, <3>2 DEF Fits, OffSeen, Commanding, Harmless
    <3>4. Reaches(z, f, EndOffOperation(p[1], result), w, l)
      BY <2>5, <3>2, <3>3, OffEndReaches
    <3> QED BY <2>1, <3>1, <3>4
  <2>6. CASE m.kind \notin {"CommandCommit", "ActuatorChange", "SlotOffer", "OffConfirmed",
                            "OffNotConfirmed"}
    <3>1. m \in Events /\ Fits(f.c, m, w, l)
      BY <1>2, <2>6, MessageKinds, PostedFits
    <3>2. CASE m.kind = "MoistureReport"
      <4>1. o \in Moisture(z, f, m)
        BY <3>2 DEF Handle
      <4> QED BY <2>1, <3>1, <3>2, <4>1, MoistureReaches
    <3>3. CASE m.kind \in {"EnableRequested", "DisableRequested"}
      <4>1. PICK enabled \in BOOLEAN : o \in DecideAndApply(z, [f EXCEPT !.c.enabled = enabled], m)
        BY <3>3 DEF Handle
      <4> QED BY <2>1, <3>1, <4>1, EnableReaches
    <3>4. CASE m.kind \notin {"MoistureReport", "EnableRequested", "DisableRequested"}
      <4>1. o \in DecideAndApply(z, f, m)
        BY <1>2, <2>6, <3>4 DEF Handle
      <4> QED BY <2>1, <3>1, <4>1, DecideReaches
    <3> QED BY <3>2, <3>3, <3>4
  <2> QED BY <2>2, <2>3, <2>4, <2>5, <2>6
<1> QED BY <1>1, <1>2

-----------------------------------------------------------------------------
(* The inductive invariant, and the steps of one zone. *)

(* Everything is typed, and every zone is safe. *)
Good ==
    /\ now \in 0 .. MaxTime
    /\ water \in [Zones -> Waters] /\ view \in [Zones -> Views]
    /\ latent \in [Zones -> BOOLEAN]
    /\ zone \in [Zones -> Controllers] /\ slots \in Slots
    /\ \A z \in Zones : Safe(z, zone[z], slots, water[z], latent[z])

(* The clock and the valves are typed. *)
LEMMA GoodWorld ==
  ASSUME Good
  PROVE  World
BY ControllerAssumption DEF Good, World

(* What a step of z starts from. *)
LEMMA FrameSafe ==
  ASSUME Good, NEW z \in Zones
  PROVE  /\ Frame(z) \in Frames /\ Frame(z).c = zone[z] /\ Frame(z).s = slots
         /\ Safe(z, Frame(z).c, Frame(z).s, water[z], latent[z])
         /\ water[z] \in Waters /\ view[z] \in Views /\ latent[z] \in BOOLEAN
         /\ zone[z] \in Controllers
BY DEF Good, Frame, Frames

(* A step of z and of its valve. *)
Becomes(z, c, s, w, v, l) ==
    /\ zone' = [zone EXCEPT ![z] = c] /\ slots' = s /\ now' = now
    /\ water' = [water EXCEPT ![z] = w] /\ view' = [view EXCEPT ![z] = v]
    /\ latent' = [latent EXCEPT ![z] = l]

(* The zone and its valve move on, the others stay safe. *)
LEMMA ZoneMoves ==
  ASSUME Good, NEW z \in Zones, NEW c \in Controllers, NEW s \in Slots, Moved(slots, s, z),
         NEW w \in Waters, NEW v \in Views, NEW l \in BOOLEAN, Safe(z, c, s, w, l),
         Becomes(z, c, s, w, v, l)
  PROVE  Good'
<1>1. /\ zone' = [zone EXCEPT ![z] = c] /\ slots' = s /\ now' = now
      /\ water' = [water EXCEPT ![z] = w] /\ view' = [view EXCEPT ![z] = v]
      /\ latent' = [latent EXCEPT ![z] = l]
  BY DEF Becomes
<1>2. /\ now' \in 0 .. MaxTime
      /\ water' \in [Zones -> Waters] /\ view' \in [Zones -> Views]
      /\ latent' \in [Zones -> BOOLEAN]
      /\ zone' \in [Zones -> Controllers] /\ slots' \in Slots
  BY <1>1 DEF Good
<1>3. ASSUME NEW y \in Zones
      PROVE  Safe(y, zone'[y], slots', water'[y], latent'[y])
  <2>1. CASE y = z
    <3>1. zone'[y] = c /\ water'[y] = w /\ latent'[y] = l
      BY <1>1, <2>1 DEF Good
    <3> QED BY <1>1, <2>1, <3>1
  <2>2. CASE y # z
    <3>1. zone'[y] = zone[y] /\ water'[y] = water[y] /\ latent'[y] = latent[y]
      BY <1>1, <2>2 DEF Good
    <3>2. Safe(y, zone[y], slots, water[y], latent[y]) /\ slots \in Slots
      BY DEF Good
    <3>3. Safe(y, zone[y], s, water[y], latent[y])
      BY <2>2, <3>2, SafeElsewhere
    <3> QED BY <1>1, <3>1, <3>3
  <2> QED BY <2>1, <2>2
<1> QED BY <1>2, <1>3 DEF Good

(* A step of z that leaves the valve alone, and what it may still do. *)
LEMMA FrameMoves ==
  ASSUME Good, NEW z \in Zones, NEW g, NEW l \in BOOLEAN,
         Reaches(z, Frame(z), g, water[z], l), Commit(z, g),
         latent' = [latent EXCEPT ![z] = l], UNCHANGED <<now, water, view>>
  PROVE  Good'
<1>1. /\ g.c \in Controllers /\ g.s \in Slots /\ Moved(slots, g.s, z)
      /\ Safe(z, g.c, g.s, water[z], l)
  BY FrameSafe DEF Reaches, Frames
<1>2. zone' = [zone EXCEPT ![z] = g.c] /\ slots' = g.s
  BY DEF Commit
<1>3. water' = [water EXCEPT ![z] = water[z]] /\ view' = [view EXCEPT ![z] = view[z]] /\ now' = now
  BY DEF Good
<1>4. Becomes(z, g.c, g.s, water[z], view[z], l)
  BY <1>2, <1>3 DEF Becomes
<1>5. water[z] \in Waters /\ view[z] \in Views
  BY FrameSafe
<1> QED BY <1>1, <1>4, <1>5, ZoneMoves

(* A step of z that leaves the valve alone altogether. *)
LEMMA FrameMovesAlone ==
  ASSUME Good, NEW z \in Zones, NEW g, Reaches(z, Frame(z), g, water[z], latent[z]),
         Commit(z, g), UNCHANGED <<now, water, view, latent>>
  PROVE  Good'
<1>1. latent' = [latent EXCEPT ![z] = latent[z]]
  BY DEF Good
<1> QED BY <1>1, FrameSafe, FrameMoves

(* Deliver hands the first message of the inbox to its handler. *)
LEMMA DeliverHandles ==
  ASSUME Good, NEW z \in Zones, Deliver(z)
  PROVE  \E f \in Frames, m \in Messages : \E o \in Handle(z, f, m) :
           /\ f.s = slots /\ Safe(z, f.c, f.s, water[z], latent[z])
           /\ f.c.state = zone[z].state /\ f.c.session = zone[z].session
           /\ f.c.summary = zone[z].summary
           /\ zone[z].inbox # << >> /\ m = Head(zone[z].inbox)
           /\ f.c = [zone[z] EXCEPT !.inbox = Tail(zone[z].inbox)]
           /\ f.c.slotTask = "waiting" => f.s.future[z] # "granted"
           /\ OfTask(m) => Clean(f.c, water[z], latent[z]) /\ AwaitsIt(f.c, m)
           /\ Flows(water[z], latent[z]) => Harmless(f.c, m)
           /\ Commit(z, o[1])
           /\ latent' = [latent EXCEPT
                           ![z] = @ \/ (m.kind = "FinalGate" /\ o[1].c.sessionTask = "call")]
           /\ UNCHANGED <<now, water, view>>
<1> DEFINE c == zone[z]
           m == Head(c.inbox)
           d == [c EXCEPT !.inbox = Tail(c.inbox)]
           f == [Frame(z) EXCEPT !.c.inbox = Tail(zone[z].inbox)]
           l == latent[z]
           w == water[z]
<1>1. PICK o \in Handle(z, f, m) :
        /\ Commit(z, o[1])
        /\ latent' = [latent EXCEPT
                        ![z] = @ \/ (m.kind = "FinalGate" /\ o[1].c.sessionTask = "call")]
        /\ UNCHANGED <<now, water, view>>
  BY DEF Deliver
<1>2. c.inbox # << >> /\ c \in Controllers /\ Safe(z, c, slots, w, l)
  BY FrameSafe DEF Deliver
<1>3. /\ d \in Controllers /\ m \in Messages /\ Safe(z, d, slots, w, l)
      /\ OfTask(m) => Clean(d, w, l) /\ AwaitsIt(d, m)
      /\ Flows(w, l) => Harmless(d, m)
  <2>1. d = [c EXCEPT !.inbox = Tail(c.inbox)] /\ m = Head(c.inbox)
    OBVIOUS
  <2> HIDE DEF c, w, l, d, m
  <2>2. d \in Controllers /\ m \in Messages /\ Safe(z, d, slots, w, l)
    BY <1>2, <2>1, TailSafe
  <2>3. ASSUME OfTask(m) PROVE Clean(d, w, l) /\ AwaitsIt(d, m)
    BY SMTT(20), <1>2, <2>1, <2>3, TailSafe
  <2>4. Flows(w, l) => Harmless(d, m)
    BY <1>2, <2>1, TailSafe
  <2> QED BY <2>2, <2>3, <2>4
<1>4. f \in Frames /\ f.c = d /\ f.s = slots /\ d.slotTask = c.slotTask
      /\ d.state = c.state /\ d.session = c.session /\ d.summary = c.summary
  <2> DEFINE g == Frame(z)
             q == Tail(c.inbox)
  <2>1. g \in Frames /\ g.c = c /\ g.s = slots
    BY FrameSafe
  <2>2. f = [g EXCEPT !.c.inbox = q] /\ d = [c EXCEPT !.inbox = q]
    OBVIOUS
  <2>3. /\ d.slotTask = c.slotTask /\ d.state = c.state
        /\ d.session = c.session /\ d.summary = c.summary
    BY <1>2 DEF Controllers
  <2> HIDE DEF f, g, c, d, q
  <2>4. f.c = d /\ f.s = slots
    BY <2>1, <2>2 DEF Frames, Controllers
  <2>5. f \in [c : Controllers, s : Slots]
    BY <1>3, <2>1, <2>2, <2>4 DEF Frames
  <2> QED BY <2>3, <2>4, <2>5 DEF Frames
<1>5. d.slotTask = "waiting" => slots.future[z] # "granted"
  BY <1>4 DEF Deliver, NoGrantDue, Granted
<1>6. m = Head(zone[z].inbox) /\ d = [zone[z] EXCEPT !.inbox = Tail(zone[z].inbox)]
  OBVIOUS
<1> HIDE DEF f, m, d
<1> QED BY <1>1, <1>2, <1>3, <1>4, <1>5, <1>6

(* Deliver: an ON command starts only while its zone holds the slot and *)
(* nobody has a blocker.                                                *)
LEMMA DeliverGood ==
  ASSUME Good, NEW z \in Zones, Deliver(z)
  PROVE  /\ Good'
         /\ \E k \in BOOLEAN :
              /\ latent' = [latent EXCEPT ![z] = latent[z] \/ k]
              /\ k => slots.owner = z /\ slots.blockers = {}
<1> DEFINE w == water[z]
           l == latent[z]
<1>1. PICK f \in Frames, m \in Messages : \E o \in Handle(z, f, m) :
        /\ f.s = slots /\ Safe(z, f.c, f.s, w, l)
        /\ f.c.slotTask = "waiting" => f.s.future[z] # "granted"
        /\ OfTask(m) => Clean(f.c, w, l) /\ AwaitsIt(f.c, m)
        /\ Flows(w, l) => Harmless(f.c, m)
        /\ Commit(z, o[1])
        /\ latent' = [latent EXCEPT
                        ![z] = @ \/ (m.kind = "FinalGate" /\ o[1].c.sessionTask = "call")]
        /\ UNCHANGED <<now, water, view>>
  BY ZenonT(40), DeliverHandles
<1>2. PICK o \in Handle(z, f, m) :
        /\ Commit(z, o[1])
        /\ latent' = [latent EXCEPT
                        ![z] = @ \/ (m.kind = "FinalGate" /\ o[1].c.sessionTask = "call")]
  BY <1>1
<1> DEFINE opens == m.kind = "FinalGate" /\ o[1].c.sessionTask = "call"
           k == l \/ opens
<1>3. l \in BOOLEAN /\ opens \in BOOLEAN
  BY FrameSafe
<1>4. Reaches(z, f, o[1], w, k) /\ (opens => OnAuthority(z, f))
  <2> HIDE DEF w, l
  <2> QED BY <1>1, <1>2, <1>3, GoodWorld, HandlerReaches
<1>5. Reaches(z, Frame(z), o[1], w, k)
  BY <1>1, <1>4, FrameSafe DEF Reaches
<1>6. opens => slots.owner = z /\ slots.blockers = {}
  BY <1>1, <1>4 DEF OnAuthority
<1>7. latent' = [latent EXCEPT ![z] = latent[z] \/ opens]
  BY <1>2
<1> HIDE DEF opens
<1>8. Good'
  BY <1>1, <1>2, <1>3, <1>5, <1>7, FrameMoves
<1> QED BY <1>3, <1>6, <1>7, <1>8

-----------------------------------------------------------------------------
(* The zone's tasks between two acquisitions of the lock. *)

(* A message is sent to the zone's own lock queue. *)
LEMMA PostTyped ==
  ASSUME NEW f \in Frames, NEW m \in Messages
  PROVE  LET g == Post(f, m) IN
         /\ g \in Frames /\ g.s = f.s /\ g.c.inbox = Append(f.c.inbox, m)
         /\ SameTask(f.c, g.c) /\ g.c.inflightOn = f.c.inflightOn
         /\ g.c.state = f.c.state /\ g.c.session = f.c.session
         /\ g.c.slotTask = f.c.slotTask /\ g.c.offOperation = f.c.offOperation
<1> DEFINE g == Post(f, m)
           q == Append(f.c.inbox, m)
<1>1. g = [f EXCEPT !.c = [f.c EXCEPT !.inbox = q]]
  BY DEF Post, Send
<1>2. q \in Seq(Messages)
  BY AppendInbox DEF Frames, Controllers
<1> HIDE DEF g, q
<1>3. /\ g \in Frames /\ g.s = f.s /\ g.c.inbox = q
      /\ SameTask(f.c, g.c) /\ g.c.inflightOn = f.c.inflightOn
      /\ g.c.state = f.c.state /\ g.c.session = f.c.session
      /\ g.c.slotTask = f.c.slotTask /\ g.c.offOperation = f.c.offOperation
  BY <1>1, <1>2 DEF Frames, Controllers, SameTask
<1> QED BY <1>3 DEF g, q

(* A plain message does no harm. *)
LEMMA PostReaches ==
  ASSUME NEW z \in Zones, NEW f \in Frames, NEW w, NEW l, Safe(z, f.c, f.s, w, l),
         NEW m \in Messages, Plain(m)
  PROVE  Reaches(z, f, Post(f, m), w, l)
<1> DEFINE g == Post(f, m)
<1>1. /\ g \in Frames /\ g.s = f.s /\ g.c.inbox = Append(f.c.inbox, m)
      /\ SameTask(f.c, g.c)
      /\ g.c.state = f.c.state /\ g.c.session = f.c.session
      /\ g.c.slotTask = f.c.slotTask /\ g.c.offOperation = f.c.offOperation
  BY PostTyped
<1>2. Grown(f.c.inbox, g.c.inbox)
  BY <1>1, AppendInbox DEF Frames, Controllers
<1> HIDE DEF g
<1>3. Reaches(z, f, g, w, l)
  BY <1>1, <1>2, AlikeReaches DEF Alike
<1> QED BY <1>3 DEF g

(* A message is sent, and timers go that safety does not see. *)
LEMMA PostAndReaches ==
  ASSUME NEW z \in Zones, NEW f \in Frames, NEW w, NEW l, Safe(z, f.c, f.s, w, l),
         NEW m \in Messages, Plain(m), NEW h \in Frames, h.s = f.s,
         Alike(Post(f, m).c, h.c)
  PROVE  Reaches(z, f, h, w, l)
<1> DEFINE g == Post(f, m)
<1>1. g \in Frames /\ g.s = f.s /\ Reaches(z, f, g, w, l)
  BY PostTyped, PostReaches
<1> HIDE DEF g
<1>2. Alike(g.c, h.c)
  BY DEF g
<1>3. Reaches(z, g, h, w, l)
  BY <1>1, <1>2, AlikeReaches DEF Reaches
<1> QED BY <1>1, <1>3, ReachesThrough DEF Reaches

(* What timers, sensors and watchdogs send says nothing of OFF. *)
LEMMA PlainMessages ==
  /\ \A k \in TimerKinds : Event(TimerEvents[k]) \in Messages /\ Plain(Event(TimerEvents[k]))
  /\ \A t \in Tokens : Watchdog(t) \in Messages /\ Plain(Watchdog(t))
  /\ \A r \in Reports : Report(r) \in Messages /\ Plain(Report(r))
<1>1. ASSUME NEW k \in TimerKinds
      PROVE  Event(TimerEvents[k]) \in Messages /\ Plain(Event(TimerEvents[k]))
  <2>1. TimerEvents[k] \in {"PulseDeadlineReached", "ManualDeadlineReached",
                            "SoakDeadlineReached", "GraceDeadlineReached", "OnConfirmTimeout"}
    BY DEF TimerEvents, TimerKinds
  <2> QED BY <2>1 DEF Event, Messages, Posted, Events, PlainKinds, Plain, OfTask, TaskKinds,
                      OffChange
<1>2. ASSUME NEW t \in Tokens
      PROVE  Watchdog(t) \in Messages /\ Plain(Watchdog(t))
  BY DEF Watchdog, Messages, Posted, Events, Plain, OfTask, TaskKinds, OffChange
<1>3. ASSUME NEW r \in Reports
      PROVE  Report(r) \in Messages /\ Plain(Report(r))
  BY DEF Report, Messages, Posted, Events, Plain, OfTask, TaskKinds, OffChange
<1> QED BY <1>1, <1>2, <1>3

(* TimerFires *)
LEMMA TimerFiresGood ==
  ASSUME Good, NEW z \in Zones, TimerFires(z)
  PROVE  Good'
<1>1. PICK t \in zone[z].timers :
        /\ Commit(z, [Post(Frame(z), Event(TimerEvents[t[1]])) EXCEPT !.c.timers = @ \ {t}])
        /\ OnlyZone
  BY DEF TimerFires
<1> DEFINE f == Frame(z)
           m == Event(TimerEvents[t[1]])
           g == Post(f, m)
           timers == g.c.timers \ {t}
           h == [g EXCEPT !.c.timers = timers]
<1>2. f \in Frames /\ f.c = zone[z] /\ Safe(z, f.c, f.s, water[z], latent[z])
  BY FrameSafe
<1>3. m \in Messages /\ Plain(m)
  <2>1. zone[z].timers \in SUBSET (TimerKinds \X Int)
    BY <1>2 DEF Frames, Controllers
  <2>2. t[1] \in TimerKinds
    BY <2>1
  <2> QED BY <2>2, PlainMessages
<1> HIDE DEF m, f
<1>4. g \in Frames /\ g.s = f.s
  BY <1>2, <1>3, PostTyped
<1>5. h \in Frames /\ h.s = f.s /\ Alike(g.c, h.c)
  <2>1. timers \in SUBSET (TimerKinds \X Int)
    BY <1>4 DEF Frames, Controllers
  <2>2. h = [g EXCEPT !.c.timers = timers]
    OBVIOUS
  <2> HIDE DEF g, h, timers
  <2>3. /\ h \in Frames /\ h.s = g.s /\ SameTask(g.c, h.c) /\ h.c.inbox = g.c.inbox
        /\ h.c.state = g.c.state /\ h.c.session = g.c.session
        /\ h.c.slotTask = g.c.slotTask /\ h.c.offOperation = g.c.offOperation
    BY <1>4, <2>1, <2>2 DEF Frames, Controllers, SameTask
  <2> QED BY <1>4, <2>3, SameGrown DEF Alike
<1>6. Commit(z, h) /\ OnlyZone
  BY <1>1 DEF f, m
<1> HIDE DEF h
<1>7. Reaches(z, f, h, water[z], latent[z])
  BY <1>2, <1>3, <1>5, PostAndReaches
<1> QED BY <1>6, <1>7, FrameMovesAlone DEF f, OnlyZone

(* WatchdogFires *)
LEMMA WatchdogFiresGood ==
  ASSUME Good, NEW z \in Zones, WatchdogFires(z)
  PROVE  Good'
<1> DEFINE f == Frame(z)
           m == Watchdog(zone[z].watchdog)
           g == Post(f, m)
           token == NoToken
           h == [g EXCEPT !.c.watchdog = token]
<1>1. Commit(z, h) /\ OnlyZone
  BY DEF WatchdogFires
<1>2. f \in Frames /\ f.c = zone[z] /\ Safe(z, f.c, f.s, water[z], latent[z])
  BY FrameSafe
<1>3. m \in Messages /\ Plain(m)
  <2>1. zone[z].watchdog \in Tokens
    BY <1>2 DEF Frames, Controllers
  <2> QED BY <2>1, PlainMessages
<1> HIDE DEF m, f
<1>4. g \in Frames /\ g.s = f.s
  BY <1>2, <1>3, PostTyped
<1>5. h \in Frames /\ h.s = f.s /\ Alike(g.c, h.c)
  <2>1. token \in Tokens
    BY Constants DEF NoToken, Token, Tokens
  <2>2. h = [g EXCEPT !.c.watchdog = token]
    OBVIOUS
  <2> HIDE DEF g, h, token
  <2>3. /\ h \in Frames /\ h.s = g.s /\ SameTask(g.c, h.c) /\ h.c.inbox = g.c.inbox
        /\ h.c.state = g.c.state /\ h.c.session = g.c.session
        /\ h.c.slotTask = g.c.slotTask /\ h.c.offOperation = g.c.offOperation
    BY <1>4, <2>1, <2>2 DEF Frames, Controllers, SameTask
  <2> QED BY <1>4, <2>3, SameGrown DEF Alike
<1> HIDE DEF h
<1>6. Reaches(z, f, h, water[z], latent[z])
  BY <1>2, <1>3, <1>5, PostAndReaches
<1> QED BY <1>1, <1>6, FrameMovesAlone DEF f, OnlyZone

(* The ON call returns. *)
LEMMA OnReturnsGood ==
  ASSUME Good, NEW z \in Zones, OnReturns(z)
  PROVE  Good'
<1>1. PICK serviceFailed \in BOOLEAN : Commit(z, AfterOnCall(z, Frame(z), serviceFailed))
  BY DEF OnReturns
<1>2. UNCHANGED <<now, water, view, latent>>
  BY DEF OnReturns
<1> DEFINE f == Frame(z)
<1>3. /\ f \in Frames /\ Safe(z, f.c, f.s, water[z], latent[z]) /\ f.c.sessionTask = "call"
  BY FrameSafe DEF OnReturns
<1> HIDE DEF f
<1>4. Reaches(z, f, AfterOnCall(z, f, serviceFailed), water[z], latent[z])
  BY <1>3, GoodWorld, AfterOnCallReaches
<1> QED BY <1>1, <1>2, <1>4, FrameMovesAlone DEF f

(* The command that was under way has come to nothing. *)
LEMMA SafeLess ==
  ASSUME NEW z, NEW c, NEW s, NEW w, NEW l, Safe(z, c, s, w, l)
  PROVE  Safe(z, c, s, w, FALSE)
<1>1. Flows(w, FALSE) => Flows(w, l)
  BY DEF Flows
<1> QED BY <1>1 DEF Safe, Fenced, Offered, TaskKnown, Evident

(* The OFF operation is about to report. *)
LEMMA PhaseChanged ==
  ASSUME NEW b \in Controllers, NEW d, d = [b EXCEPT !.offRun.phase = "reporting"]
  PROVE  /\ d \in Controllers /\ d.inbox = b.inbox /\ d.state = b.state
         /\ d.session = b.session
         /\ d.slotTask = b.slotTask /\ d.sessionTask = b.sessionTask
         /\ d.offRun.phase = "reporting" /\ d.offOperation = b.offOperation
         /\ d.inflightOn = b.inflightOn
BY DEF Controllers, Runs

(* The OFF operation reports its end: proof if the valve was seen closed.  *)
LEMMA OffReports ==
  ASSUME NEW z \in Zones, NEW c \in Controllers, NEW s, NEW w, NEW l, Safe(z, c, s, w, FALSE),
         c.offRun.phase \in {"call", "wait", "woken"},
         NEW m \in Messages, m.kind \in {"OffConfirmed", "OffNotConfirmed"},
         m.kind = "OffConfirmed" => w # "ours",
         NEW d, d = [Send(c, m) EXCEPT !.offRun.phase = "reporting"]
  PROVE  d \in Controllers /\ Safe(z, d, s, w, FALSE)
<1> DEFINE q == Append(c.inbox, m)
           k == Len(c.inbox) + 1
<1>1. c.inbox \in Seq(Messages)
  BY DEF Controllers
<1>2. /\ q \in Seq(Messages) /\ DOMAIN q = DOMAIN c.inbox \cup {k}
      /\ \A n \in DOMAIN c.inbox : q[n] = c.inbox[n] /\ n < k
      /\ q[k] = m
  BY <1>1, AppendInbox
<1> DEFINE b == Send(c, m)
<1>3. b = [c EXCEPT !.inbox = q]
  BY DEF Send
<1>4. d = [b EXCEPT !.offRun.phase = "reporting"]
  OBVIOUS
<1> HIDE DEF q, k, b
<1>5. /\ b \in Controllers /\ b.inbox = q /\ b.state = c.state /\ b.session = c.session
      /\ b.slotTask = c.slotTask /\ b.sessionTask = c.sessionTask
      /\ b.offOperation = c.offOperation /\ b.inflightOn = c.inflightOn
  BY ZenonT(40), <1>2, <1>3 DEF Controllers
<1>6. /\ d \in Controllers /\ d.inbox = b.inbox /\ d.state = b.state /\ d.session = b.session
      /\ d.slotTask = b.slotTask /\ d.sessionTask = b.sessionTask
      /\ d.offRun.phase = "reporting" /\ d.offOperation = b.offOperation
      /\ d.inflightOn = b.inflightOn
  BY ZenonT(40), <1>4, <1>5, PhaseChanged
<1>7. /\ d \in Controllers /\ d.inbox = q /\ d.state = c.state /\ d.session = c.session
      /\ d.slotTask = c.slotTask /\ d.sessionTask = c.sessionTask
      /\ d.offRun.phase = "reporting" /\ d.offOperation = c.offOperation
      /\ d.inflightOn = c.inflightOn
  BY <1>5, <1>6
<1>8. c.sessionTask = "off" /\ Silent(c)
  BY NothingAwaited DEF Safe, TaskKnown
<1>9. Fenced(z, d, s, w, FALSE) /\ Offered(z, d, s) /\ TaskKnown(d, FALSE)
  BY <1>7, <1>8 DEF Safe, Fenced, Offered, TaskKnown, Commanding
<1>10. \A n \in DOMAIN q : OfTask(q[n]) => n = k
  BY <1>2, <1>8 DEF Silent
<1>11. MessagesAwaited(d)
  BY <1>2, <1>7, <1>10 DEF MessagesAwaited, AwaitsIt
<1>12. Evident(d, w, FALSE)
  <2>1. \A n \in DOMAIN q : OffChange(q[n]) => n \in DOMAIN c.inbox /\ n < k
    BY <1>2 DEF OffChange
  <2>2. Flows(w, FALSE) => \A n \in DOMAIN q : q[n].kind # "OffConfirmed"
    BY <1>2 DEF Safe, Evident, Flows
  <2>3. Flows(w, FALSE) => \A n \in DOMAIN q : OffChange(q[n]) =>
          /\ c.offOperation = "running"
          /\ \A i \in DOMAIN q : OfTask(q[i]) => n < i
    BY <1>2, <1>8, <1>10, <2>1 DEF Safe, Evident, Commanding
  <2> QED BY <1>7, <1>8, <2>2, <2>3 DEF Evident
<1> QED BY <1>7, <1>9, <1>11, <1>12 DEF Safe

(* The OFF operation goes on, to another attempt or to wait. *)
GoesOn(c, d) ==
    /\ d \in Controllers /\ d.inbox = c.inbox /\ d.state = c.state /\ d.session = c.session
    /\ d.slotTask = c.slotTask /\ d.sessionTask = c.sessionTask
    /\ d.offRun.phase \in {"call", "wait"} /\ d.offOperation = c.offOperation
    /\ d.inflightOn = c.inflightOn

(* It is safe to go on. *)
LEMMA OffGoesOn ==
  ASSUME NEW z, NEW c \in Controllers, NEW s, NEW w, NEW l, Safe(z, c, s, w, FALSE),
         c.offRun.phase \in {"call", "wait", "woken"},
         NEW d, GoesOn(c, d)
  PROVE  d \in Controllers /\ Safe(z, d, s, w, FALSE)
<1>1. /\ d \in Controllers /\ d.inbox = c.inbox /\ d.state = c.state /\ d.session = c.session
      /\ d.slotTask = c.slotTask /\ d.sessionTask = c.sessionTask
      /\ d.offRun.phase \in {"call", "wait"} /\ d.offOperation = c.offOperation
      /\ d.inflightOn = c.inflightOn
  BY DEF GoesOn
<1>2. c.sessionTask = "off" /\ Silent(c)
  BY NothingAwaited DEF Safe, TaskKnown
<1>3. Fenced(z, d, s, w, FALSE) /\ Offered(z, d, s) /\ TaskKnown(d, FALSE)
  BY <1>1, <1>2 DEF Safe, Fenced, Offered, TaskKnown, Commanding
<1>4. MessagesAwaited(d) /\ Evident(d, w, FALSE)
  BY <1>1, <1>2 DEF Safe, Silent, MessagesAwaited, Evident, Commanding
<1> QED BY <1>1, <1>3, <1>4 DEF Safe

(* _run_off_operation: the end of an attempt. *)
LEMMA OffAttemptSafe ==
  ASSUME Good, NEW z \in Zones, NEW c \in Controllers, NEW s, Safe(z, c, s, water[z], FALSE),
         c.offRun.phase \in {"call", "wait", "woken"}
  PROVE  LET d == OffAttemptEnds(z, c) IN
         d \in Controllers /\ Safe(z, d, s, water[z], FALSE)
<1> DEFINE w == water[z]
           d == OffAttemptEnds(z, c)
           at == IF c.offProvenAt # NoTime THEN c.offProvenAt ELSE now
           seen == At("OffConfirmed", at)
           missed == Event("OffNotConfirmed")
           run == [phase |-> "call", attempt |-> c.offRun.attempt + 1, deadline |-> NoTime]
<1>1. \/ Assessment(z).provenOff /\ d = [Send(c, seen) EXCEPT !.offRun.phase = "reporting"]
      \/ d = [c EXCEPT !.offRun = run]
      \/ d = [Send(c, missed) EXCEPT !.offRun.phase = "reporting"]
  BY DEF OffAttemptEnds
<1>2. seen \in Messages /\ seen.kind = "OffConfirmed"
  <2>1. at \in Int
    BY ControllerAssumption DEF Controllers, Good
  <2> HIDE DEF at
  <2>2. seen \in Events /\ seen.kind = "OffConfirmed"
    BY <2>1, AcknowledgedTyped
  <2> HIDE DEF seen
  <2> QED BY <2>2 DEF Messages, Posted
<1>3. missed \in Messages /\ missed.kind = "OffNotConfirmed"
  BY DEF Event, Messages, Posted, Events, PlainKinds
<1>4. run \in Runs /\ run.phase = "call"
  BY Constants DEF Runs, Controllers
<1>5. Assessment(z).provenOff => w # "ours"
  BY DEF Assessment, Assess
<1> HIDE DEF d, seen, missed, run, w
<1>6. Safe(z, c, s, w, FALSE)
  BY DEF w
<1>7. CASE Assessment(z).provenOff /\ d = [Send(c, seen) EXCEPT !.offRun.phase = "reporting"]
  BY <1>2, <1>5, <1>6, <1>7, OffReports DEF w, d
<1>8. CASE d = [c EXCEPT !.offRun = run]
  <2>1. GoesOn(c, d)
    BY <1>4, <1>8 DEF GoesOn, Controllers
  <2> QED BY <1>6, <2>1, OffGoesOn DEF w, d
<1>9. CASE d = [Send(c, missed) EXCEPT !.offRun.phase = "reporting"]
  BY <1>3, <1>6, <1>9, OffReports DEF w, d
<1> QED BY <1>1, <1>7, <1>8, <1>9

(* A step of the OFF operation. *)
LEMMA OffMoves ==
  ASSUME Good, NEW z \in Zones, NEW d \in Controllers, Safe(z, d, slots, water[z], FALSE),
         NEW g, g = [Frame(z) EXCEPT !.c = d], Commit(z, g),
         latent' = [latent EXCEPT ![z] = FALSE], UNCHANGED <<now, water, view>>
  PROVE  Good'
<1>1. Frame(z) \in Frames /\ Frame(z).s = slots
  BY FrameSafe
<1>2. g \in Frames /\ g.c = d /\ g.s = slots
  BY <1>1 DEF Frames
<1>3. Reaches(z, Frame(z), g, water[z], FALSE)
  BY <1>1, <1>2, NotMoved DEF Reaches, Frames
<1> QED BY <1>3, FrameMoves

(* OffReturns *)
LEMMA OffReturnsGood ==
  ASSUME Good, NEW z \in Zones, OffReturns(z)
  PROVE  Good'
<1> DEFINE c == zone[z]
           until == now + ActuatorConfirmTimeout
           d == IF Assessment(z).provenOff THEN OffAttemptEnds(z, c)
                ELSE [c EXCEPT !.offRun.phase = "wait",
                               !.offRun.deadline = until]
           g == [Frame(z) EXCEPT !.c = d]
<1>1. c \in Controllers /\ Safe(z, c, slots, water[z], FALSE) /\ c.offRun.phase = "call"
  BY FrameSafe, SafeLess DEF OffReturns
<1>2. Commit(z, g) /\ latent' = [latent EXCEPT ![z] = FALSE] /\ UNCHANGED <<now, water, view>>
  BY DEF OffReturns
<1>3. d \in Controllers /\ Safe(z, d, slots, water[z], FALSE)
  <2>1. CASE Assessment(z).provenOff
    BY <1>1, <2>1, OffAttemptSafe
  <2>2. CASE ~Assessment(z).provenOff
    <3>1. until \in Int
      BY ControllerAssumption, Constants DEF Good
    <3>2. d = [c EXCEPT !.offRun.phase = "wait", !.offRun.deadline = until]
      BY <2>2
    <3> HIDE DEF until, d, c
    <3>3. GoesOn(c, d)
      BY ZenonT(40), <1>1, <3>1, <3>2 DEF GoesOn, Controllers, Runs
    <3> QED BY <1>1, <3>3, OffGoesOn
  <2> QED BY <2>1, <2>2
<1> HIDE DEF d
<1> QED BY <1>2, <1>3, OffMoves

(* OffWakes *)
LEMMA OffWakesGood ==
  ASSUME Good, NEW z \in Zones, OffWakes(z)
  PROVE  Good'
<1> DEFINE c == zone[z]
           d == OffAttemptEnds(z, c)
           g == [Frame(z) EXCEPT !.c = d]
<1>1. c.offRun.phase \in {"wait", "woken"} /\ Commit(z, g) /\ UNCHANGED <<now, water, view, latent>>
  BY DEF OffWakes, OnlyZone
<1>2. c \in Controllers /\ Safe(z, c, slots, water[z], latent[z]) /\ latent[z] \in BOOLEAN
  BY FrameSafe
<1>3. latent[z] = FALSE
  BY <1>1, <1>2 DEF Safe, TaskKnown
<1>4. latent' = [latent EXCEPT ![z] = FALSE]
  BY <1>1, <1>3 DEF Good
<1>5. Safe(z, c, slots, water[z], FALSE)
  BY <1>2, SafeLess
<1>6. d \in Controllers /\ Safe(z, d, slots, water[z], FALSE)
  BY <1>1, <1>2, <1>5, OffAttemptSafe
<1> HIDE DEF d
<1> QED BY <1>1, <1>4, <1>6, OffMoves

(* The slot task is no longer waiting. *)
LEMMA NoLongerWaits ==
  ASSUME NEW z \in Zones, NEW f \in Frames, NEW g \in Frames, NEW w, NEW l,
         Safe(z, f.c, f.s, w, l), g.s = f.s, SameTask(f.c, g.c), g.c.inbox = f.c.inbox,
         g.c.state = f.c.state, g.c.session = f.c.session,
         g.c.offOperation = f.c.offOperation, g.c.slotTask # "waiting"
  PROVE  Reaches(z, f, g, w, l)
<1>1. MessagesAwaited(g.c) /\ Evident(g.c, w, l)
  BY SameGrown, AlikeAwaited, AlikeEvident DEF Safe
<1>2. Fenced(z, g.c, g.s, w, l) /\ Offered(z, g.c, g.s) /\ TaskKnown(g.c, l)
  BY DEF Safe, Fenced, Offered, TaskKnown, SameTask, Commanding
<1> QED BY <1>1, <1>2, NotMoved DEF Safe, Reaches, Frames

(* The grant of a slot is offered to the controller. *)
LEMMA OfferPosts ==
  ASSUME NEW z \in Zones, NEW f \in Frames, NEW w, NEW l, Safe(z, f.c, f.s, w, l),
         NEW m \in Messages, Plain(m)
  PROVE  Reaches(z, f,
                 [Post(f, m) EXCEPT !.c.slotTask = "offering", !.c.pendingManual = 0], w, l)
<1> DEFINE g == Post(f, m)
           pending == 0
           h == [g EXCEPT !.c.slotTask = "offering", !.c.pendingManual = pending]
<1>1. g \in Frames /\ Reaches(z, f, g, w, l)
  BY PostTyped, PostReaches
<1>2. h = [g EXCEPT !.c.slotTask = "offering", !.c.pendingManual = pending]
  OBVIOUS
<1>3. pending \in Int
  OBVIOUS
<1> HIDE DEF g, pending, h
<1>4. /\ h \in Frames /\ h.s = g.s /\ SameTask(g.c, h.c) /\ h.c.inbox = g.c.inbox
      /\ h.c.state = g.c.state /\ h.c.session = g.c.session
      /\ h.c.slotTask = "offering" /\ h.c.offOperation = g.c.offOperation
  BY ZenonT(40), <1>1, <1>2, <1>3 DEF Frames, Controllers, SameTask
<1>5. Reaches(z, g, h, w, l)
  BY <1>1, <1>4, NoLongerWaits DEF Reaches
<1>6. Reaches(z, f, h, w, l)
  BY <1>1, <1>5, ReachesThrough DEF Reaches
<1> QED BY <1>6 DEF h, g, pending

(* A controller that may not command any more gives the slot back: its     *)
(* water runs at most behind its blocker.                                  *)
LEMMA GivesBack ==
  ASSUME NEW z \in Zones, NEW f \in Frames, NEW w, NEW l, Safe(z, f.c, f.s, w, l),
         f.c.slotTask = "waiting"
  PROVE  Reaches(z, f, [f EXCEPT !.c.slotTask = "none", !.s = Release(f.s, z)], w, l)
<1> DEFINE t == Release(f.s, z)
           h == [f EXCEPT !.c.slotTask = "none", !.s = t]
<1>1. f.s \in Slots
  BY DEF Frames
<1>2. t \in Slots /\ Moved(f.s, t, z) /\ t.blockers = f.s.blockers
  BY <1>1, ReleaseMoves
<1>3. h = [f EXCEPT !.c.slotTask = "none", !.s = t]
  OBVIOUS
<1> HIDE DEF t, h
<1>4. /\ h \in Frames /\ h.s = t /\ SameTask(f.c, h.c) /\ h.c.inbox = f.c.inbox
      /\ h.c.state = f.c.state /\ h.c.session = f.c.session
      /\ h.c.slotTask = "none" /\ h.c.offOperation = f.c.offOperation
  BY <1>2, <1>3 DEF Frames, Controllers, SameTask
<1>5. MessagesAwaited(h.c) /\ Evident(h.c, w, l)
  BY <1>4, SameGrown, AlikeAwaited, AlikeEvident DEF Safe
<1>6. Fenced(z, h.c, h.s, w, l) /\ Offered(z, h.c, h.s) /\ TaskKnown(h.c, l)
  BY <1>2, <1>4 DEF Safe, Fenced, Offered, TaskKnown, SameTask, Commanding
<1> QED BY <1>2, <1>4, <1>5, <1>6 DEF Safe, Reaches, h, t

(* SlotOffered *)
LEMMA SlotOfferedGood ==
  ASSUME Good, NEW z \in Zones, SlotOffered(z)
  PROVE  Good'
<1> DEFINE f == Frame(z)
           c == f.c
           event == IF c.pendingManual = 0 THEN Event("SlotGranted") ELSE Manual(c.pendingManual)
           m == [kind |-> "SlotOffer", event |-> event]
           g == [Post(f, m) EXCEPT !.c.slotTask = "offering", !.c.pendingManual = 0]
           h == [f EXCEPT !.c.slotTask = "none", !.s = Release(f.s, z)]
<1>1. Commit(z, IF c.eligible THEN g ELSE h) /\ OnlyZone /\ Granted(z)
  BY DEF SlotOffered
<1>2. f \in Frames /\ f.c = zone[z] /\ Safe(z, f.c, f.s, water[z], latent[z])
  BY FrameSafe
<1>3. m \in Messages /\ Plain(m)
  <2>1. Event("SlotGranted") \in Offers
    BY DEF Event, Offers, Events, PlainKinds
  <2>2. c.pendingManual \in Int
    BY <1>2 DEF Frames, Controllers
  <2>3. Manual(c.pendingManual) \in Offers
    BY <2>2 DEF Manual, Offers, Events
  <2>4. event \in Offers
    BY <2>1, <2>3
  <2> HIDE DEF event
  <2> QED BY <2>4 DEF Messages, Plain, OfTask, TaskKinds, OffChange
<1> HIDE DEF m, f, g, h
<1>4. Reaches(z, f, g, water[z], latent[z])
  BY <1>2, <1>3, OfferPosts DEF g
<1>5. Reaches(z, f, h, water[z], latent[z])
  BY <1>1, <1>2, GivesBack DEF h, Granted
<1> DEFINE k == IF c.eligible THEN g ELSE h
<1>6. Reaches(z, f, k, water[z], latent[z]) /\ Commit(z, k)
  BY <1>1, <1>4, <1>5
<1> HIDE DEF k
<1> QED BY <1>1, <1>6, FrameMovesAlone DEF f, OnlyZone

(* The session task asks for the lock, to pass the final gate. *)
LEMMA GateAsked ==
  ASSUME NEW z \in Zones, NEW f \in Frames, NEW w, NEW l, Safe(z, f.c, f.s, w, l),
         f.c.sessionTask = "resting"
  PROVE  Reaches(z, f, [Post(f, Event("FinalGate")) EXCEPT !.c.onRequested = FALSE,
                                                           !.c.sessionTask = "gate"], w, l)
<1> DEFINE m == Event("FinalGate")
           g == Post(f, m)
           no == FALSE
           b == [g EXCEPT !.c.onRequested = no]
           h == [b EXCEPT !.c.sessionTask = "gate"]
           q == Append(f.c.inbox, m)
           k == Len(f.c.inbox) + 1
<1>1. m \in Messages /\ m.kind = "FinalGate" /\ no \in BOOLEAN
  BY DEF Event, Messages
<1>2. b = [g EXCEPT !.c.onRequested = no]
  OBVIOUS
<1>3. h = [b EXCEPT !.c.sessionTask = "gate"]
  OBVIOUS
<1> HIDE DEF m, no, b, h
<1>4. /\ g \in Frames /\ g.s = f.s /\ g.c.inbox = q
      /\ SameTask(f.c, g.c)
      /\ g.c.state = f.c.state /\ g.c.session = f.c.session
      /\ g.c.slotTask = f.c.slotTask /\ g.c.offOperation = f.c.offOperation
  BY <1>1, PostTyped
<1>5. /\ DOMAIN q = DOMAIN f.c.inbox \cup {k} /\ q[k] = m
      /\ \A n \in DOMAIN f.c.inbox : q[n] = f.c.inbox[n]
  BY <1>1, AppendInbox DEF Frames, Controllers
<1>6. Clean(f.c, w, l)
  BY RestingClean DEF Frames
<1> HIDE DEF g, q, k
<1>7. g \in Frames /\ no \in BOOLEAN
  BY <1>1, <1>4
<1>8. /\ b \in Frames /\ b.s = g.s /\ b.c.inbox = g.c.inbox
      /\ b.c.state = g.c.state /\ b.c.session = g.c.session
      /\ b.c.slotTask = g.c.slotTask /\ b.c.offOperation = g.c.offOperation
      /\ b.c.offRun = g.c.offRun
  BY ZenonT(40), <1>2, <1>7 DEF Frames, Controllers
<1>9. b \in Frames
  BY <1>8
<1>10. /\ h \in Frames /\ h.s = b.s /\ h.c.inbox = b.c.inbox
      /\ h.c.state = b.c.state /\ h.c.session = b.c.session
      /\ h.c.slotTask = b.c.slotTask /\ h.c.offOperation = b.c.offOperation
      /\ h.c.offRun = b.c.offRun /\ h.c.sessionTask = "gate"
  BY ZenonT(40), <1>9, <1>3 DEF Frames, Controllers
<1>11. /\ h \in Frames /\ h.s = g.s /\ h.c.inbox = g.c.inbox
      /\ h.c.state = g.c.state /\ h.c.session = g.c.session
      /\ h.c.slotTask = g.c.slotTask /\ h.c.offOperation = g.c.offOperation
      /\ h.c.offRun = g.c.offRun /\ h.c.sessionTask = "gate"
  BY <1>8, <1>10
<1>12. \A n \in DOMAIN h.c.inbox : n # k => n \in DOMAIN f.c.inbox /\ h.c.inbox[n] = f.c.inbox[n]
  BY <1>4, <1>5, <1>11
<1>13. h.c.inbox[k] = m
  BY <1>4, <1>5, <1>11
<1>14. MessagesAwaited(h.c)
  BY <1>1, <1>6, <1>11, <1>12, <1>13 DEF Clean, Silent, MessagesAwaited, AwaitsIt
<1>15. Evident(h.c, w, l)
  <2>1. ~OffChange(m) /\ m.kind # "OffConfirmed"
    BY <1>1 DEF OffChange
  <2>2. \A n \in DOMAIN f.c.inbox : f.c.inbox[n].kind # "OffConfirmed"
    BY <1>6 DEF Clean, Silent, OfTask, TaskKinds
  <2> QED BY <1>6, <1>12, <1>13, <2>1, <2>2 DEF Clean, Evident
<1>16. Fenced(z, h.c, h.s, w, l) /\ Offered(z, h.c, h.s) /\ TaskKnown(h.c, l)
  BY <1>4, <1>11 DEF Safe, Fenced, Offered, TaskKnown, SameTask, Commanding
<1>17. Reaches(z, f, h, w, l)
  BY <1>4, <1>11, <1>14, <1>15, <1>16, NotMoved DEF Reaches, Safe, Frames
<1> QED BY <1>17 DEF h, b, g, m, no

(* The session task begins the OFF operation it was asked for. *)
LEMMA OffAsked ==
  ASSUME NEW z \in Zones, NEW f \in Frames, NEW w, NEW l, Safe(z, f.c, f.s, w, l),
         f.c.sessionTask = "resting"
  PROVE  Reaches(z, f, BeginOffOperation(z, [f EXCEPT !.c.offRequested = FALSE]), w, l)
<1> DEFINE no == FALSE
           g == [f EXCEPT !.c.offRequested = no]
<1>1. no \in BOOLEAN
  OBVIOUS
<1> HIDE DEF no, g
<1>2. /\ g \in Frames /\ g.s = f.s /\ SameTask(f.c, g.c) /\ g.c.inbox = f.c.inbox
      /\ g.c.state = f.c.state /\ g.c.session = f.c.session
      /\ g.c.slotTask = f.c.slotTask /\ g.c.offOperation = f.c.offOperation
  BY ZenonT(40), <1>1 DEF Frames, Controllers, SameTask, g
<1>3. Reaches(z, f, g, w, l)
  BY <1>2, SameGrown, AlikeReaches DEF Alike
<1>4. g.c.sessionTask = "resting" /\ g.c \in Controllers
  BY <1>2 DEF SameTask, Frames
<1>5. Clean(g.c, w, l) /\ g.c.offRun.phase = "idle"
  BY <1>3, <1>4, RestingClean DEF Reaches, Safe, TaskKnown
<1>6. Reaches(z, g, BeginOffOperation(z, g), w, l)
  BY <1>2, <1>3, <1>5, BeginReaches DEF Reaches
<1>7. Reaches(z, f, BeginOffOperation(z, g), w, l)
  BY <1>2, <1>3, <1>6, ReachesThrough DEF Reaches
<1> QED BY <1>7 DEF g, no

(* RunSession *)
LEMMA RunSessionGood ==
  ASSUME Good, NEW z \in Zones, RunSession(z)
  PROVE  Good'
<1> DEFINE f == Frame(z)
           g == [Post(f, Event("FinalGate")) EXCEPT !.c.onRequested = FALSE,
                                                    !.c.sessionTask = "gate"]
           h == BeginOffOperation(z, [f EXCEPT !.c.offRequested = FALSE])
<1>1. (Commit(z, g) \/ Commit(z, h)) /\ f.c.sessionTask = "resting" /\ OnlyZone
  BY DEF RunSession
<1>2. f \in Frames /\ Safe(z, f.c, f.s, water[z], latent[z])
  BY FrameSafe
<1> HIDE DEF f, g, h
<1>3. Reaches(z, f, g, water[z], latent[z])
  BY <1>1, <1>2, GateAsked DEF g
<1>4. Reaches(z, f, h, water[z], latent[z])
  BY <1>1, <1>2, OffAsked DEF h
<1> QED BY <1>1, <1>3, <1>4, FrameMovesAlone DEF f, OnlyZone

-----------------------------------------------------------------------------
(* The outside world. *)

(* What a sensor's state is read as. *)
LEMMA ClassifyTyped ==
  ASSUME NEW o, o.class \in Classes, o.value \in Int, NEW at \in Int
  PROVE  ClassifyMoisture(o, at) \in Reports
BY Constants DEF ClassifyMoisture, Reports, Classes

(* A plain message comes in. *)
LEMMA PlainPosted ==
  ASSUME Good, NEW z \in Zones, NEW m \in Messages, Plain(m), Commit(z, Post(Frame(z), m)),
         UNCHANGED <<now, water, view, latent>>
  PROVE  Good'
<1> DEFINE g == Post(Frame(z), m)
<1>1. Reaches(z, Frame(z), g, water[z], latent[z])
  BY FrameSafe, PostReaches
<1>2. Commit(z, g)
  OBVIOUS
<1> HIDE DEF g
<1> QED BY <1>1, <1>2, FrameMovesAlone

(* SensorReports *)
LEMMA SensorReportsGood ==
  ASSUME Good, NEW z \in Zones, SensorReports(z)
  PROVE  Good'
<1>1. PICK o \in Observations : Commit(z, Post(Frame(z), Report(ClassifyMoisture(o, now))))
  BY DEF SensorReports
<1>2. UNCHANGED <<now, water, view, latent>>
  BY DEF SensorReports
<1> DEFINE m == Report(ClassifyMoisture(o, now))
<1>3. m \in Messages /\ Plain(m)
  <2>1. o \in [class : Classes, value : Int] /\ now \in Int
    BY InputAssumption, ControllerAssumption DEF Good
  <2>2. ClassifyMoisture(o, now) \in Reports
    BY <2>1, ClassifyTyped
  <2> QED BY <2>2, PlainMessages
<1> HIDE DEF m
<1> QED BY <1>1, <1>2, <1>3, PlainPosted DEF m

(* FallbackScan *)
LEMMA FallbackScanGood ==
  ASSUME Good, NEW z \in Zones, FallbackScan(z)
  PROVE  Good'
<1>1. PICK obs \in Stored(z) : Commit(z, Post(Frame(z), Report(ClassifyMoisture(obs, obs.at))))
  BY DEF FallbackScan
<1> DEFINE m == Report(ClassifyMoisture(obs, obs.at))
<1>2. obs \in Reports
  <2> DEFINE c == zone[z]
  <2>1. c.obs \in Reports /\ c.inbox \in Seq(Messages)
    BY FrameSafe DEF Controllers
  <2>2. ASSUME NEW n \in DOMAIN c.inbox, c.inbox[n].kind = "MoistureReport"
        PROVE  c.inbox[n].obs \in Reports
    <3>1. c.inbox[n] \in Messages
      BY <2>1, ElementOfSeq, LenProperties
    <3>2. c.inbox[n] \in Events
      BY <2>2, <3>1 DEF Messages, Posted
    <3> QED BY <2>2, <3>2 DEF Events, PlainKinds
  <2> HIDE DEF c
  <2>3. obs = c.obs
          \/ \E n \in DOMAIN c.inbox : c.inbox[n].kind = "MoistureReport" /\ obs = c.inbox[n].obs
    BY <1>1 DEF Stored, c
  <2> QED BY <2>1, <2>2, <2>3
<1>3. UNCHANGED <<now, water, view, latent>>
  BY DEF FallbackScan
<1>4. m \in Messages /\ Plain(m)
  <2>1. obs.class \in Classes /\ obs.value \in Int /\ obs.at \in Int
    BY <1>2 DEF Reports
  <2>2. ClassifyMoisture(obs, obs.at) \in Reports
    BY <2>1, ClassifyTyped
  <2> QED BY <2>2, PlainMessages
<1> HIDE DEF m
<1> QED BY <1>1, <1>3, <1>4, PlainPosted DEF m

(* If the Store may fail, nobody disables a zone or clears its fault. *)
FaultsStand ==
    StoreMayFail => \A e \in Commands : e.kind \notin {"DisableRequested", "ClearFaultRequested"}

(* UserRequests *)
LEMMA UserRequestsGood ==
  ASSUME Good, FaultsStand, NEW z \in Zones, UserRequests(z)
  PROVE  Good'
<1>1. PICK e \in Commands : Commit(z, Post(Frame(z), e))
  BY DEF UserRequests
<1>2. UNCHANGED <<now, water, view, latent>>
  BY DEF UserRequests
<1>3. e \in Events /\ e.kind \notin {"ExternalActuatorOff", "OnConfirmed",
                                     "OffConfirmed", "OffNotConfirmed"}
  BY InputAssumption DEF Events, PlainKinds
<1>4. StoreMayFail => e.kind \notin {"DisableRequested", "ClearFaultRequested"}
  BY DEF FaultsStand
<1>5. e.kind \notin {"FinalGate", "CommandCommit", "ActuatorChange"}
  BY <1>3 DEF Events, PlainKinds
<1>6. e \in Messages /\ Plain(e)
  BY <1>3, <1>4, <1>5 DEF Messages, Posted, Plain, OfTask, TaskKinds, OffChange
<1> QED BY <1>1, <1>2, <1>6, PlainPosted

(* What Home Assistant shows of a valve. *)
LEMMA AssessTyped ==
  ASSUME NEW w, NEW v
  PROVE  /\ Assess(w, v) \in Actuators /\ IsTerminalOn(w, v) \in BOOLEAN
         /\ Assess(w, v).provenOff => Reported(w, v) = "off" /\ w = "closed"
<1> DEFINE x == v # "gone"
           y == v = "settled" /\ w = "closed"
           o == v = "partial" \/ (v = "settled" /\ w # "closed")
<1>1. x \in BOOLEAN /\ y \in BOOLEAN /\ o \in BOOLEAN
  OBVIOUS
<1>2. Assess(w, v) = [available |-> x, provenOff |-> y, observedOn |-> o]
  BY DEF Assess
<1>3. y => Reported(w, v) = "off" /\ w = "closed"
  BY DEF Reported
<1>4. IsTerminalOn(w, v) \in BOOLEAN
  BY DEF IsTerminalOn
<1> HIDE DEF x, y, o
<1>5. Assess(w, v) \in Actuators /\ Assess(w, v).provenOff = y
  BY <1>1, <1>2 DEF Actuators
<1> QED BY <1>3, <1>4, <1>5

(* Water flows less, or the same. *)
LEMMA SafeWithLess ==
  ASSUME NEW z, NEW c, NEW s, NEW w, NEW l, Safe(z, c, s, w, l),
         NEW x, NEW k, Flows(x, k) => Flows(w, l), k => l
  PROVE  Safe(z, c, s, x, k)
BY DEF Safe, Fenced, Offered, TaskKnown, Evident

(* The controller d has noted what c saw of its actuator. *)
Notes(c, d, m) ==
    /\ d \in Controllers /\ d.inbox = Append(c.inbox, m)
    /\ d.state = c.state /\ d.session = c.session /\ d.slotTask = c.slotTask
    /\ d.sessionTask = c.sessionTask /\ d.offOperation = c.offOperation
    /\ d.inflightOn.at = c.inflightOn.at
    /\ \/ d.offRun.phase = c.offRun.phase
       \/ d.offRun.phase = "woken" /\ c.offRun.phase = "wait"

(* A report that the valve is off comes when nothing flows any more. *)
LEMMA NotedSafe ==
  ASSUME NEW z, NEW c \in Controllers, NEW s, NEW w, NEW l, Safe(z, c, s, w, l),
         NEW m \in Messages, m.kind = "ActuatorChange",
         Flows(w, l) => ~OffChange(m),
         NEW d, Notes(c, d, m)
  PROVE  Safe(z, d, s, w, l)
<1> DEFINE q == Append(c.inbox, m)
           k == Len(c.inbox) + 1
<1>1. /\ DOMAIN q = DOMAIN c.inbox \cup {k} /\ k \notin DOMAIN c.inbox
      /\ q[k] = m
      /\ \A n \in DOMAIN c.inbox : q[n] = c.inbox[n] /\ n < k
  BY AppendInbox DEF Controllers
<1>2. d.inbox = q
  BY DEF Notes
<1> HIDE DEF q, k
<1>3. ~OfTask(m) /\ m.kind # "OffConfirmed"
  BY DEF OfTask, TaskKinds
<1>4. \A n \in DOMAIN q : OfTask(q[n]) => n \in DOMAIN c.inbox /\ q[n] = c.inbox[n]
  BY <1>1, <1>3
<1>5. Fenced(z, d, s, w, l) /\ Offered(z, d, s) /\ TaskKnown(d, l)
  BY DEF Safe, Fenced, Offered, TaskKnown, Commanding, Notes
<1>6. MessagesAwaited(d)
  BY <1>2, <1>4 DEF Safe, MessagesAwaited, AwaitsIt, Notes
<1>7. Evident(d, w, l)
  <2>1. Flows(w, l) => \A n \in DOMAIN q :
          OffChange(q[n]) => n \in DOMAIN c.inbox /\ q[n] = c.inbox[n]
    BY <1>1
  <2>2. \A n \in DOMAIN q : q[n].kind = "OffConfirmed" => n \in DOMAIN c.inbox /\ q[n] = c.inbox[n]
    BY <1>1, <1>3
  <2> QED BY <1>2, <1>4, <2>1, <2>2 DEF Safe, Evident, Commanding, Notes
<1> QED BY <1>5, <1>6, <1>7 DEF Safe

(* The callback notes that the valve was seen closed. *)
LEMMA ProofNoted ==
  ASSUME NEW b \in Controllers, NEW at \in Int, NEW d, d = [b EXCEPT !.offProvenAt = at]
  PROVE  /\ d \in Controllers /\ d.inbox = b.inbox /\ d.state = b.state
         /\ d.session = b.session /\ d.slotTask = b.slotTask
         /\ d.sessionTask = b.sessionTask /\ d.offRun = b.offRun
         /\ d.offOperation = b.offOperation /\ d.inflightOn = b.inflightOn
BY DEF Controllers

(* It wakes the OFF operation. *)
LEMMA PhaseNoted ==
  ASSUME NEW b \in Controllers, NEW p \in {"idle", "call", "wait", "woken", "reporting"},
         NEW d, d = [b EXCEPT !.offRun.phase = p]
  PROVE  /\ d \in Controllers /\ d.inbox = b.inbox /\ d.state = b.state
         /\ d.session = b.session /\ d.slotTask = b.slotTask
         /\ d.sessionTask = b.sessionTask /\ d.offRun.phase = p
         /\ d.offOperation = b.offOperation /\ d.inflightOn = b.inflightOn
BY SMTT(20) DEF Controllers, Runs

(* It marks its own ON as seen. *)
LEMMA OwnNoted ==
  ASSUME NEW b \in Controllers, NEW k \in Markers, k.at = b.inflightOn.at,
         NEW d, d = [b EXCEPT !.inflightOn = k]
  PROVE  /\ d \in Controllers /\ d.inbox = b.inbox /\ d.state = b.state
         /\ d.session = b.session /\ d.slotTask = b.slotTask
         /\ d.sessionTask = b.sessionTask /\ d.offRun = b.offRun
         /\ d.offOperation = b.offOperation /\ d.inflightOn.at = b.inflightOn.at
BY ZenonT(40) DEF Controllers

(* _on_actuator_event, when the reported state changes. *)
LEMMA CallbackNotes ==
  ASSUME NEW c \in Controllers, NEW m \in Messages, NEW at \in Int, NEW seen \in Int,
         NEW p \in {"idle", "call", "wait", "woken", "reporting"},
         p = c.offRun.phase \/ (p = "woken" /\ c.offRun.phase = "wait")
  PROVE  Notes(c, [Send(c, m) EXCEPT !.offProvenAt = at, !.offRun.phase = p,
                                     !.inflightOn.seen = seen], m)
<1> DEFINE q == Append(c.inbox, m)
           b == [c EXCEPT !.inbox = q]
           b1 == [b EXCEPT !.offProvenAt = at]
           b2 == [b1 EXCEPT !.offRun.phase = p]
           k == [b2.inflightOn EXCEPT !.seen = seen]
           d == [b2 EXCEPT !.inflightOn = k]
<1>1. q \in Seq(Messages)
  BY AppendInbox DEF Controllers
<1>2. d = [Send(c, m) EXCEPT !.offProvenAt = at, !.offRun.phase = p, !.inflightOn.seen = seen]
  BY DEF Send
<1>3. d = [b2 EXCEPT !.inflightOn = k]
  OBVIOUS
<1>4. b2 = [b1 EXCEPT !.offRun.phase = p]
  OBVIOUS
<1>5. b1 = [b EXCEPT !.offProvenAt = at]
  OBVIOUS
<1>6. b = [c EXCEPT !.inbox = q]
  OBVIOUS
<1>7. k = [b2.inflightOn EXCEPT !.seen = seen]
  OBVIOUS
<1> HIDE DEF q, b, b1, b2, k, d
<1>8. /\ b \in Controllers /\ b.inbox = q /\ b.state = c.state
      /\ b.session = c.session /\ b.slotTask = c.slotTask
      /\ b.sessionTask = c.sessionTask /\ b.offRun = c.offRun
      /\ b.offOperation = c.offOperation /\ b.inflightOn = c.inflightOn
  BY ZenonT(40), <1>1, <1>6 DEF Controllers
<1>9. /\ b1 \in Controllers /\ b1.inbox = b.inbox /\ b1.state = b.state
      /\ b1.session = b.session /\ b1.slotTask = b.slotTask
      /\ b1.sessionTask = b.sessionTask /\ b1.offRun = b.offRun
      /\ b1.offOperation = b.offOperation /\ b1.inflightOn = b.inflightOn
  BY <1>5, <1>8, ProofNoted
<1>10. /\ b2 \in Controllers /\ b2.inbox = b1.inbox /\ b2.state = b1.state
      /\ b2.session = b1.session /\ b2.slotTask = b1.slotTask
      /\ b2.sessionTask = b1.sessionTask /\ b2.offRun.phase = p
      /\ b2.offOperation = b1.offOperation /\ b2.inflightOn = b1.inflightOn
  BY <1>4, <1>9, PhaseNoted
<1>11. k \in Markers /\ k.at = b2.inflightOn.at
  BY <1>10, <1>7 DEF Controllers, Markers
<1>12. /\ d \in Controllers /\ d.inbox = b2.inbox /\ d.state = b2.state
       /\ d.session = b2.session /\ d.slotTask = b2.slotTask
       /\ d.sessionTask = b2.sessionTask /\ d.offRun = b2.offRun
       /\ d.offOperation = b2.offOperation /\ d.inflightOn.at = b2.inflightOn.at
  BY <1>3, <1>10, <1>11, OwnNoted
<1>13. Notes(c, d, m)
  BY <1>8, <1>9, <1>10, <1>12 DEF Notes, q
<1> QED BY <1>2, <1>13

(* ... and whether it changes or not. *)
LEMMA CallbackSafe ==
  ASSUME Good, NEW z \in Zones, NEW w \in Waters, NEW v \in Views, NEW own \in BOOLEAN,
         NEW l \in BOOLEAN, l = (latent[z] /\ ~own /\ Reported(w, v) # "off"),
         Flows(w, l) => Flows(water[z], latent[z])
  PROVE  LET d == OnActuatorEvent(zone[z], z, w, v, own) IN
         d \in Controllers /\ Safe(z, d, slots, w, l)
<1> DEFINE c == zone[z]
           d == OnActuatorEvent(c, z, w, v, own)
           m == Changed(Assessment(z), Assess(w, v), IsTerminalOn(w, v))
           cur == Assess(w, v)
           at == IF cur.provenOff THEN now ELSE c.offProvenAt
           p == IF c.offRun.phase = "wait" /\ cur.provenOff THEN "woken" ELSE c.offRun.phase
           seen == IF own /\ IsTerminalOn(w, v) /\ c.inflightOn # NoMarker
                   THEN now ELSE c.inflightOn.seen
<1>1. c \in Controllers /\ Safe(z, c, slots, water[z], latent[z])
  BY FrameSafe
<1>2. Safe(z, c, slots, w, l)
  BY <1>1, SafeWithLess
<1>3. \/ d = c
      \/ d = [Send(c, m) EXCEPT !.offProvenAt = at, !.offRun.phase = p, !.inflightOn.seen = seen]
  BY DEF OnActuatorEvent, Send
<1>4. now \in Int /\ at \in Int /\ seen \in Int
  BY <1>1, ControllerAssumption DEF Good, Controllers, Markers
<1>5. /\ p \in {"idle", "call", "wait", "woken", "reporting"}
      /\ p = c.offRun.phase \/ (p = "woken" /\ c.offRun.phase = "wait")
  BY <1>1 DEF Controllers, Runs
<1>6. m \in Messages /\ m.kind = "ActuatorChange" /\ m.cur = cur
  <2> DEFINE a == Assessment(z)
             t == IsTerminalOn(w, v)
  <2>1. a \in Actuators /\ cur \in Actuators /\ t \in BOOLEAN
    BY AssessTyped DEF Assessment
  <2> HIDE DEF a, t, cur
  <2>2. Changed(a, cur, t) \in Messages
    BY <1>4, <2>1 DEF Changed, Messages
  <2>3. Changed(a, cur, t).kind = "ActuatorChange" /\ Changed(a, cur, t).cur = cur
    BY DEF Changed
  <2> QED BY <2>2, <2>3 DEF a, cur, t
<1>7. cur.provenOff => ~Flows(w, l)
  BY AssessTyped DEF Flows
<1>8. Flows(w, l) => ~OffChange(m)
  BY <1>6, <1>7 DEF OffChange
<1> HIDE DEF c, d, m, cur, at, p, seen
<1>9. ASSUME d = c
      PROVE  d \in Controllers /\ Safe(z, d, slots, w, l)
  BY <1>1, <1>2, <1>9
<1>10. ASSUME d = [Send(c, m) EXCEPT !.offProvenAt = at, !.offRun.phase = p,
                                     !.inflightOn.seen = seen]
       PROVE  d \in Controllers /\ Safe(z, d, slots, w, l)
  <2>1. Notes(c, d, m)
    BY <1>1, <1>4, <1>5, <1>6, <1>10, CallbackNotes
  <2>2. d \in Controllers
    BY <2>1 DEF Notes
  <2>3. Safe(z, d, slots, w, l)
    BY <1>1, <1>2, <1>6, <1>8, <2>1, NotedSafe
  <2> QED BY <2>2, <2>3
<1> QED BY <1>3, <1>9, <1>10 DEF d, c

(* The device changes: water that was not under way does not start.  *)
LEMMA DeviceGood ==
  ASSUME Good, NEW z \in Zones, NEW w \in Waters, NEW v \in Views, NEW own \in BOOLEAN,
         Device(z, w, v, own), w = "ours" => Flows(water[z], latent[z])
  PROVE  Good'
<1> DEFINE l == latent[z] /\ ~own /\ Reported(w, v) # "off"
           d == OnActuatorEvent(zone[z], z, w, v, own)
<1>1. l \in BOOLEAN /\ latent[z] \in BOOLEAN
  BY FrameSafe
<1>2. Flows(w, l) => Flows(water[z], latent[z])
  BY DEF Flows
<1>3. /\ zone' = [zone EXCEPT ![z] = d] /\ slots' = slots /\ now' = now
      /\ water' = [water EXCEPT ![z] = w] /\ view' = [view EXCEPT ![z] = v]
      /\ latent' = [latent EXCEPT ![z] = l]
  BY DEF Device
<1>4. l = (latent[z] /\ ~own /\ Reported(w, v) # "off")
  BY <1>1
<1> HIDE DEF l, d
<1>5. d \in Controllers /\ Safe(z, d, slots, w, l)
  BY <1>1, <1>2, <1>4, CallbackSafe DEF d
<1>6. Becomes(z, d, slots, w, v, l) /\ slots \in Slots /\ Moved(slots, slots, z)
  BY <1>3, NotMoved DEF Becomes, Good
<1> QED BY <1>1, <1>5, <1>6, ZoneMoves

(* OnLands, OffLands, Settles *)
LEMMA DeviceStepsGood ==
  ASSUME Good, NEW z \in Zones, OnLands(z) \/ OffLands(z) \/ Settles(z)
  PROVE  Good'
<1>1. /\ Visibly(z) \in Views /\ {"settled"} \subseteq Views
      /\ "closed" \in Waters /\ "ours" \in Waters /\ water[z] \in Waters
  BY FrameSafe DEF Visibly, Views, Waters
<1>2. CASE OnLands(z)
  BY <1>1, <1>2, DeviceGood DEF OnLands, Flows
<1>3. CASE OffLands(z)
  BY <1>1, <1>3, DeviceGood DEF OffLands
<1>4. CASE Settles(z)
  BY <1>1, <1>4, DeviceGood DEF Settles, Flows
<1> QED BY <1>2, <1>3, <1>4

(* Disturb *)
LEMMA DisturbGood ==
  ASSUME Good, NEW z \in Zones, Disturb(z)
  PROVE  Good'
<1>1. /\ Visibly(z) \in Views /\ {"gone", "moving", "partial"} \subseteq Views
      /\ "closed" \in Waters /\ "theirs" \in Waters /\ water[z] \in Waters
      /\ water[z] = "ours" => Flows(water[z], latent[z])
  BY FrameSafe DEF Visibly, Views, Waters, Flows
<1>2. \/ Device(z, "theirs", Visibly(z), FALSE)
      \/ Device(z, "closed", Visibly(z), FALSE)
      \/ Device(z, water[z], "gone", FALSE)
      \/ \E v \in {"moving", "partial"} : Device(z, water[z], v, FALSE)
  BY DEF Disturb
<1> QED BY <1>1, <1>2, DeviceGood

(* Reconcile: closing the barrier takes the slot from nobody. *)
LEMMA ReconcileGood ==
  ASSUME Good, Reconcile
  PROVE  Good'
<1>1. PICK flags \in SUBSET Flags : slots' = SetBarrier(slots, flags)
  BY DEF Reconcile, Flags
<1>2. UNCHANGED <<now, zone, water, view, latent>>
  BY DEF Reconcile
<1> DEFINE b == [slots EXCEPT !.barrier = flags]
<1>3. slots \in Slots /\ b \in Slots /\ Gives(slots, b)
      /\ b.blockers = slots.blockers /\ b.owner = slots.owner
  BY DEF Good, Slots, Gives
<1> DEFINE t == TryGrant(b)
<1>4. slots' = t
  BY <1>1 DEF SetBarrier
<1> HIDE DEF b
<1>5. /\ t \in Slots /\ Gives(b, t) /\ t.blockers = b.blockers
      /\ b.owner # NoZone => t.owner = b.owner
  BY <1>3, TryGrantGives
<1> HIDE DEF t
<1>6. /\ t \in Slots /\ Gives(slots, t) /\ t.blockers = slots.blockers
      /\ slots.owner # NoZone => t.owner = slots.owner
  BY <1>3, <1>5, GivesThrough
<1>7. ASSUME NEW z \in Zones
      PROVE  Safe(z, zone[z], t, water[z], latent[z])
  <2>1. Safe(z, zone[z], slots, water[z], latent[z])
    BY DEF Good
  <2>2. slots.owner = z => t.owner = z
    BY <1>6, NoZoneAssumption
  <2> QED BY <1>3, <1>6, <2>1, <2>2, SafeWithSlots
<1> QED BY <1>2, <1>6, <1>7, <1>4 DEF Good

(* Tick *)
LEMMA TickGood ==
  ASSUME Good, Tick
  PROVE  Good'
<1>1. now' \in 0 .. MaxTime
  BY ControllerAssumption DEF Good, Tick
<1>2. UNCHANGED <<zone, slots, water, view, latent>>
  BY DEF Tick
<1> QED BY <1>1, <1>2 DEF Good

-----------------------------------------------------------------------------
(* The invariant. *)

(* A controller as setup leaves it. *)
LEMMA FreshTyped == Fresh \in Controllers
<1> DEFINE none == << >>
           session == NoSession
           fault == NoFault
           reason == NoReason
           obs == [class |-> "UNAVAILABLE", value |-> 0, at |-> NoTime]
           token == NoToken
           timers == {}
           run == NoOffRun
           marker == NoMarker
           never == NoTime
           zero == 0
           yes == TRUE
           no == FALSE
<1>1. none \in Seq(Messages) /\ session \in Sessions /\ fault \in FaultOrNone
      /\ reason \in ReasonOrNone /\ timers \in SUBSET (TimerKinds \X Int)
      /\ zero \in Int /\ never \in Int /\ yes \in BOOLEAN /\ no \in BOOLEAN
  BY Constants, EmptySeq DEF Sessions, FaultOrNone, ReasonOrNone
<1>2. obs \in Reports
  BY Constants DEF Reports, Classes
<1>3. token \in Tokens /\ marker \in Markers /\ run \in Runs
  BY Constants DEF NoToken, Token, Tokens, NoMarker, Markers, NoOffRun, Runs
<1>4. Fresh =
        [state |-> "IDLE", enabled |-> yes, session |-> session, fault |-> fault,
         externalOn |-> no, daily |-> zero, lastEnd |-> never, summary |-> reason,
         obs |-> obs, armedWatchdog |-> token, watchdog |-> token, timers |-> timers,
         onRequested |-> no, offRequested |-> no, offOperation |-> "none",
         offProvenAt |-> never, offRun |-> run, sessionTask |-> "resting",
         inflightOn |-> marker, slotTask |-> "none", pendingManual |-> zero,
         persistFailed |-> no, eligible |-> yes, inbox |-> none]
  BY DEF Fresh
<1> HIDE DEF none, session, fault, reason, obs, token, timers, run, marker, never, zero, yes, no
<1> QED BY <1>1, <1>2, <1>3, <1>4 DEF Controllers, States

(* Nothing flows, and no message is under way. *)
LEMMA FreshSafe ==
  ASSUME NEW z, NEW s
  PROVE  Safe(z, Fresh, s, "closed", FALSE)
<1> DEFINE c == Fresh
<1>1. /\ c.state = "IDLE" /\ c.slotTask = "none" /\ c.sessionTask = "resting"
      /\ c.offRun.phase = "idle" /\ c.inbox = << >>
  BY DEF Fresh, NoOffRun
<1> HIDE DEF c
<1>2. DOMAIN c.inbox = {}
  BY <1>1
<1>3. ~Flows("closed", FALSE)
  BY DEF Flows
<1>4. Safe(z, c, s, "closed", FALSE)
  BY <1>1, <1>2, <1>3 DEF Safe, Fenced, Offered, MessagesAwaited, TaskKnown, Evident,
                          Commanding, Owning
<1> QED BY <1>4 DEF c

(* Setup leaves every zone safe. *)
LEMMA InitGood == Init => Good
<1> SUFFICES ASSUME Init
             PROVE  Good
  OBVIOUS
<1>1. PICK unseen \in SUBSET Zones :
        /\ now = 0
        /\ zone = [z \in Zones |-> Fresh]
        /\ slots = [InitialSlots EXCEPT
                      !.grantsEnabled = TRUE,
                      !.blockers = {<<z, "actuator_not_proven_off">> : z \in unseen}]
        /\ water = [z \in Zones |-> "closed"]
        /\ view = [z \in Zones |-> IF z \in unseen THEN "gone" ELSE "settled"]
        /\ latent = [z \in Zones |-> FALSE]
  BY DEF Init
<1>2. now \in 0 .. MaxTime
  BY <1>1, ControllerAssumption
<1>3. water \in [Zones -> Waters] /\ view \in [Zones -> Views] /\ latent \in [Zones -> BOOLEAN]
  BY <1>1 DEF Waters, Views
<1>4. zone \in [Zones -> Controllers]
  BY <1>1, FreshTyped
<1>5. slots \in Slots
  <2> DEFINE keys == {<<z, "actuator_not_proven_off">> : z \in unseen}
             yes == TRUE
             queue == << >>
             saved == {}
             future == [z \in Zones |-> "none"]
             flags == {}
  <2>1. /\ keys \in SUBSET Keys /\ yes \in BOOLEAN /\ queue \in Seq(Zones)
        /\ saved \in SUBSET Keys /\ future \in [Zones -> Futures] /\ flags \in SUBSET Flags
    BY EmptySeq DEF Keys, Futures
  <2>2. slots = [owner |-> NoZone, queue |-> queue, future |-> future, blockers |-> keys,
                 unpersisted |-> saved, grantsEnabled |-> yes, barrier |-> flags]
    BY <1>1 DEF InitialSlots
  <2> HIDE DEF keys, yes, queue, saved, future, flags
  <2> QED BY <2>1, <2>2 DEF Slots
<1>6. ASSUME NEW z \in Zones
      PROVE  Safe(z, zone[z], slots, water[z], latent[z])
  <2>1. zone[z] = Fresh /\ water[z] = "closed" /\ latent[z] = FALSE
    BY <1>1
  <2> QED BY <2>1, FreshSafe
<1> QED BY <1>2, <1>3, <1>4, <1>5, <1>6 DEF Good

(* One step of the system. *)
LEMMA StepGood ==
  ASSUME Good, FaultsStand, [Next]_vars
  PROVE  Good'
<1>1. ASSUME NEW z \in Zones, ZoneStep(z)
      PROVE  Good'
  BY <1>1, DeliverGood, RunSessionGood, OnReturnsGood, OffReturnsGood, OffWakesGood,
     SlotOfferedGood, TimerFiresGood, WatchdogFiresGood DEF ZoneStep
<1>2. ASSUME NEW z \in Zones, WorldStep(z)
      PROVE  Good'
  BY <1>2, DeviceStepsGood, DisturbGood, SensorReportsGood, FallbackScanGood,
     UserRequestsGood DEF WorldStep
<1>3. CASE Reconcile
  BY <1>3, ReconcileGood
<1>4. CASE Tick
  BY <1>4, TickGood
<1>5. CASE TimeIsUp \/ UNCHANGED vars
  <2>1. UNCHANGED <<now, zone, slots, water, view, latent>>
    BY <1>5 DEF TimeIsUp, vars
  <2> QED BY <2>1 DEF Good
<1> QED BY <1>1, <1>2, <1>3, <1>4, <1>5 DEF Next

(* The invariant holds of every behaviour. *)
THEOREM Invariance == FaultsStand => (Spec => []Good)
<1> SUFFICES ASSUME FaultsStand
             PROVE  Spec => []Good
  OBVIOUS
<1>1. Good /\ [Next]_vars => Good'
  BY StepGood
<1> QED BY <1>1, InitGood, PTL DEF Spec

(* Every controller, its messages and the slot keep their types. *)
THEOREM TypeCorrect == FaultsStand => (Spec => []TypeOK)
<1> SUFFICES ASSUME FaultsStand
             PROVE  Spec => []TypeOK
  OBVIOUS
<1>1. Good => TypeOK
  BY SMTT(20) DEF Good, TypeOK, Waters, Slots, Controllers, Runs, Sessions, OpenSessions,
         FaultOrNone, ReasonOrNone
<1> QED BY <1>1, Invariance, PTL

(* Water that this integration turned on is always fenced. *)
THEOREM WaterIsFenced == FaultsStand => (Spec => []FlowFenced)
<1> SUFFICES ASSUME FaultsStand
             PROVE  Spec => []FlowFenced
  OBVIOUS
<1>1. Good => FlowFenced
  BY DEF Good, FlowFenced, Safe, Fenced, Flows, OffKey, Unconfirmed
<1> QED BY <1>1, Invariance, PTL

(* I17: accounting is closed only once the water is off for good. *)
THEOREM ClosedIsOff == FaultsStand => (Spec => []ClosedMeansOff)
<1> SUFFICES ASSUME FaultsStand
             PROVE  Spec => []ClosedMeansOff
  OBVIOUS
<1>1. Good => ClosedMeansOff
  BY DEF Good, ClosedMeansOff, Safe, Fenced, Flows
<1> QED BY <1>1, Invariance, PTL

-----------------------------------------------------------------------------
(* One zone at a time. *)

(* What flows, or may flow, flowed before or starts with the slot. *)
StartsAlone ==
    \A z \in Zones : Flows(water[z], latent[z])' =>
      Flows(water[z], latent[z]) \/ (slots.owner = z /\ slots.blockers = {})

(* A change of the device starts no water of ours that was not under way. *)
LEMMA DeviceStarts ==
  ASSUME Good, NEW z \in Zones, NEW w \in Waters, NEW v, NEW own,
         Device(z, w, v, own), w = "ours" => Flows(water[z], latent[z])
  PROVE  StartsAlone
<1> SUFFICES ASSUME NEW y \in Zones, Flows(water'[y], latent'[y])
             PROVE  Flows(water[y], latent[y])
  BY DEF StartsAlone
<1>1. /\ water' = [water EXCEPT ![z] = w]
      /\ latent' = [latent EXCEPT ![z] = latent[z] /\ ~own /\ Reported(w, v) # "off"]
  BY DEF Device
<1>2. CASE y = z
  BY <1>1, <1>2 DEF Good, Flows
<1>3. CASE y # z
  BY <1>1, <1>3 DEF Good, Flows
<1> QED BY <1>2, <1>3

(* Every step. *)
LEMMA StepStarts ==
  ASSUME Good, [Next]_vars
  PROVE  StartsAlone
<1>1. CASE UNCHANGED <<water, latent>>
  BY <1>1 DEF StartsAlone
<1>2. ASSUME NEW z \in Zones, Deliver(z)
      PROVE  StartsAlone
  <2>1. PICK k \in BOOLEAN :
          /\ latent' = [latent EXCEPT ![z] = latent[z] \/ k]
          /\ k => slots.owner = z /\ slots.blockers = {}
    BY <1>2, DeliverGood
  <2>2. water' = water
    BY <1>2 DEF Deliver
  <2> QED BY <2>1, <2>2 DEF StartsAlone, Flows, Good
<1>3. ASSUME NEW z \in Zones, OffReturns(z)
      PROVE  StartsAlone
  BY <1>3 DEF OffReturns, StartsAlone, Flows, Good
<1>4. ASSUME NEW z \in Zones, OnLands(z) \/ OffLands(z) \/ Settles(z) \/ Disturb(z)
      PROVE  StartsAlone
  <2>1. /\ "closed" \in Waters /\ "ours" \in Waters /\ "theirs" \in Waters
        /\ water[z] \in Waters
        /\ water[z] = "ours" => Flows(water[z], latent[z])
        /\ latent[z] => Flows(water[z], latent[z])
    BY DEF Good, Waters, Flows
  <2>2. CASE OnLands(z)
    BY <2>1, <2>2, DeviceStarts DEF OnLands
  <2>3. CASE OffLands(z)
    BY <2>1, <2>3, DeviceStarts DEF OffLands
  <2>4. CASE Settles(z)
    BY <2>1, <2>4, DeviceStarts DEF Settles
  <2>5. CASE Disturb(z)
    <3>1. PICK w \in Waters, v \in Views :
            Device(z, w, v, FALSE) /\ (w = "ours" => Flows(water[z], latent[z]))
      <4>1. Visibly(z) \in Views /\ {"gone", "moving", "partial"} \subseteq Views
        BY DEF Visibly, Views
      <4>2. \/ Device(z, "theirs", Visibly(z), FALSE)
            \/ Device(z, "closed", Visibly(z), FALSE)
            \/ Device(z, water[z], "gone", FALSE)
            \/ Device(z, water[z], "moving", FALSE)
            \/ Device(z, water[z], "partial", FALSE)
        BY <2>5 DEF Disturb
      <4> QED BY <2>1, <4>1, <4>2
    <3> QED BY <3>1, DeviceStarts
  <2> QED BY <1>4, <2>2, <2>3, <2>4, <2>5
<1>5. ASSUME NEW z \in Zones, ZoneStep(z)
      PROVE  StartsAlone
  BY <1>1, <1>2, <1>3, <1>5 DEF ZoneStep, RunSession, OnReturns, OffWakes, SlotOffered,
     TimerFires, WatchdogFires, OnlyZone
<1>6. ASSUME NEW z \in Zones, WorldStep(z)
      PROVE  StartsAlone
  BY <1>1, <1>4, <1>6 DEF WorldStep, SensorReports, FallbackScan, UserRequests, OnlyZone
<1>7. CASE Reconcile \/ Tick \/ TimeIsUp \/ UNCHANGED vars
  BY <1>1, <1>7 DEF Reconcile, Tick, TimeIsUp, vars
<1> QED BY <1>5, <1>6, <1>7 DEF Next

(* Two zones never water together: while the water of one flows, or an ON  *)
(* command of one may still reach its valve, no other one's does.          *)
OneZoneWaters ==
    \A y, z \in Zones :
      (water[y] = "ours" \/ latent[y]) /\ (water[z] = "ours" \/ latent[z]) => y = z

(* I19: the ON authority asks for the slot and for the absence of all      *)
(* blockers, and every other zone's flow holds one of them.                *)
LEMMA StaysAlone ==
  ASSUME Good, OneZoneWaters, StartsAlone
  PROVE  OneZoneWaters'
<1>1. ASSUME NEW z \in Zones, Flows(water[z], latent[z])
      PROVE  slots.owner = z \/ slots.blockers # {}
  BY <1>1 DEF Good, Safe, Fenced
<1>2. ASSUME NEW y \in Zones, NEW z \in Zones,
             Flows(water'[y], latent'[y]), Flows(water'[z], latent'[z])
      PROVE  y = z
  <2>1. CASE Flows(water[y], latent[y]) /\ Flows(water[z], latent[z])
    BY <2>1 DEF OneZoneWaters, Flows
  <2>2. CASE ~(Flows(water[y], latent[y]) /\ Flows(water[z], latent[z]))
    BY <1>1, <1>2, <2>2 DEF StartsAlone
  <2> QED BY <2>1, <2>2
<1> QED BY <1>2 DEF OneZoneWaters, Flows

(* I19: two zones never water together, whatever is done to the valves. *)
THEOREM OneAtATime == FaultsStand => (Spec => []OneZoneWaters)
<1> SUFFICES ASSUME FaultsStand
             PROVE  Spec => []OneZoneWaters
  OBVIOUS
<1>1. Init => Good /\ OneZoneWaters
  BY InitGood DEF Init, OneZoneWaters
<1>2. (Good /\ OneZoneWaters) /\ [Next]_vars => (Good /\ OneZoneWaters)'
  BY StepGood, StepStarts, StaysAlone
<1> QED BY <1>1, <1>2, PTL DEF Spec

-----------------------------------------------------------------------------
(* The first reason wins. *)

(* A session that was left open has its blocker, or its zone's fault       *)
(* stands after a failed write; a soak is given up only for interference.  *)
Held(z, c, s) ==
    /\ LeftOpen(c.state, c.session) =>
         OffKey(z) \in s.blockers \/ (c.state = "FAULT" /\ StoreMayFail)
    /\ SoakReason(c.state, c.session)

Reasoned(c) == c.session # NoSession /\ c.session.pending # NoReason

(* d ends the session of c with the reason that c had committed, or keeps  *)
(* that reason unless an actuator fault replaces it.                       *)
Follows(c, d) ==
    Reasoned(c) =>
      IF d.session = NoSession THEN d.summary = c.session.pending
      ELSE d.session.pending \in {c.session.pending, "ACTUATOR_FAULT"}

(* d keeps the session of c. *)
Adheres(c, d) ==
    /\ d.summary = c.summary /\ (d.session = NoSession) = (c.session = NoSession)
    /\ Reasoned(c) => d.session.pending \in {c.session.pending, "ACTUATOR_FAULT"}

(* Nothing that reasons depend on is lost from f to g. *)
Stays(z, f, g) ==
    /\ g.c.state = f.c.state /\ g.c.summary = f.c.summary
    /\ (g.c.session = NoSession) = (f.c.session = NoSession)
    /\ f.c.session # NoSession => g.c.session.pending = f.c.session.pending
    /\ OffKey(z) \in f.s.blockers => OffKey(z) \in g.s.blockers

(* From f, a zone that is held, to g with the reason, or with the session. *)
Right(z, f, g) == Held(z, g.c, g.s) /\ Follows(f.c, g.c)
Abides(z, f, g) == Held(z, g.c, g.s) /\ Adheres(f.c, g.c)

(* Keeping everything is one way to keep the session. *)
LEMMA StaysAbides ==
  ASSUME NEW z, NEW f, NEW g, Stays(z, f, g), Held(z, f.c, f.s),
         f.c.state = "SOAKING" => f.c.session # NoSession
  PROVE  Abides(z, f, g)
BY DEF Stays, Abides, Held, Adheres, Reasoned, LeftOpen, SoakReason

(* Keeping the session is one way to keep the reason. *)
LEMMA AbidesRight ==
  ASSUME NEW z, NEW f, NEW g, Abides(z, f, g)
  PROVE  Right(z, f, g)
BY DEF Right, Abides, Follows, Adheres, Reasoned

(* What follows after everything was kept. *)
LEMMA StaysThenRight ==
  ASSUME NEW z, NEW f, NEW g, NEW h, Stays(z, f, g), Right(z, g, h)
  PROVE  Right(z, f, h)
BY DEF Stays, Right, Follows, Reasoned

(* Once the reason was followed, the session is kept as it is. *)
LEMMA RightThenAbides ==
  ASSUME NEW z, NEW f, NEW g, NEW h, Right(z, f, g), Abides(z, g, h)
  PROVE  Right(z, f, h)
BY DEF Right, Abides, Follows, Adheres, Reasoned, NoReason

(* The same, when g keeps everything. *)
LEMMA RightThenStays ==
  ASSUME NEW z, NEW f, NEW g, NEW h, Right(z, f, g), Stays(z, g, h),
         g.c.state = "SOAKING" => g.c.session # NoSession
  PROVE  Right(z, f, h)
BY StaysAbides, RightThenAbides DEF Right

(* A zone that takes no step stays held while its blocker stays. *)
LEMMA HeldElsewhere ==
  ASSUME NEW z \in Zones, NEW y \in Zones, y # z, NEW s, NEW t, Moved(s, t, z),
         NEW c, Held(y, c, s)
  PROVE  Held(y, c, t)
BY DEF Moved, Held

(* A decision follows the committed reason and fences what it leaves open. *)
LEMMA DecideRight ==
  ASSUME World, NEW z \in Zones, NEW f \in Frames, NEW e \in Events,
         Owning(f.c.state, f.c.session), Held(z, f.c, f.s),
         StoreMayFail => e.kind \notin {"DisableRequested", "ClearFaultRequested"},
         NEW o \in DecideAndApply(z, f, e)
  PROVE  Right(z, f, o[1])
<1> DEFINE i == Input(z, f)
           d == Decide(i, e)
           g == o[1]
<1>1. Decided(z, f, d, g)
  BY OutcomesDecided
<1>2. /\ i \in Situations /\ Owning(i.state, i.session)
      /\ i.state = f.c.state /\ i.session = f.c.session
      /\ i.blockersEmpty = (f.s.blockers = {})
  BY InputTyped
<1> HIDE DEF i
<1>3. Upright(i)
  BY <1>2 DEF Upright, Held, LeftOpen
<1>4. Committed(i, e, d)
  BY <1>2, <1>3, ReasonsCommitted
<1> HIDE DEF d, g
<1>5. Held(z, g.c, g.s)
  <2>1. CASE StoreMayFail /\ g.c.state = "FAULT"
    BY <2>1 DEF Held, SoakReason
  <2>2. CASE /\ g.c.state = d.state /\ g.c.session = d.session
             /\ Has(d, AddBlocker(Unconfirmed)) =>
                  Has(d, RemoveBlocker(Unconfirmed)) \/ OffKey(z) \in g.s.blockers
    <3>1. SoakReason(g.c.state, g.c.session)
      BY <1>4, <2>2 DEF Committed
    <3>2. ASSUME LeftOpen(g.c.state, g.c.session)
          PROVE  OffKey(z) \in g.s.blockers \/ (g.c.state = "FAULT" /\ StoreMayFail)
      <4>1. /\ ~Has(d, RemoveBlocker(Unconfirmed))
            /\ \/ Has(d, AddBlocker(Unconfirmed))
               \/ /\ LeftOpen(i.state, i.session)
                  /\ i.state = "FAULT" =>
                       d.state = "FAULT" \/ e.kind \in {"DisableRequested", "ClearFaultRequested"}
        BY <1>4, <2>2, <3>2 DEF Committed, Fence
      <4>2. OffKey(z) \in f.s.blockers => OffKey(z) \in g.s.blockers
        BY <1>1, <4>1 DEF Decided
      <4> QED BY <1>2, <2>2, <4>1, <4>2 DEF Held
    <3> QED BY <3>1, <3>2 DEF Held
  <2> QED BY <1>1, <2>1, <2>2 DEF Decided
<1>6. Follows(f.c, g.c)
  <2> SUFFICES ASSUME Reasoned(f.c)
               PROVE  IF g.c.session = NoSession THEN g.c.summary = f.c.session.pending
                      ELSE g.c.session.pending \in {f.c.session.pending, "ACTUATOR_FAULT"}
    BY DEF Follows
  <2>1. IF d.session = NoSession THEN d.closed # NoSession /\ d.reason = f.c.session.pending
        ELSE d.session.pending \in {f.c.session.pending, "ACTUATOR_FAULT"}
    BY <1>2, <1>4 DEF Committed, Follow, Reasoned
  <2>2. CASE d.session = NoSession
    BY <1>1, <2>1, <2>2 DEF Decided
  <2>3. CASE d.session # NoSession
    <3>1. d.session.pending # NoReason
      BY <2>1, <2>3 DEF Reasoned, NoReason
    <3> QED BY <1>1, <2>1, <2>3, <3>1 DEF Decided
  <2> QED BY <2>2, <2>3
<1> QED BY <1>5, <1>6 DEF Right, g

(* The bookkeeping of a controller's tasks. *)
LEMMA TasksStay ==
  ASSUME NEW z, NEW f \in Frames
  PROVE  /\ Stays(z, f, Quiesce(f)) /\ Stays(z, f, Finish(f))
         /\ Stays(z, f, BeginOffOperation(z, f))
         /\ \A result : Stays(z, f, EndOffOperation(f, result))
         /\ \A task : /\ Stays(z, f, [f EXCEPT !.c.sessionTask = task])
                      /\ Stays(z, f, [f EXCEPT !.c.slotTask = task])
         /\ \A on : /\ Stays(z, f, [f EXCEPT !.c.enabled = on])
                    /\ Stays(z, f, [f EXCEPT !.c.offRequested = on])
         /\ \A obs : Stays(z, f, [f EXCEPT !.c.obs = obs])
<1>1. \A g : g.s = f.s /\ g.c.state = f.c.state /\ g.c.session = f.c.session
             /\ g.c.summary = f.c.summary => Stays(z, f, g)
  BY DEF Stays
<1>2. Stays(z, f, Quiesce(f))
  BY <1>1 DEF Quiesce, Frames, Controllers
<1>3. Stays(z, f, Finish(f))
  BY <1>1 DEF Finish, Frames, Controllers
<1>4. Stays(z, f, BeginOffOperation(z, f))
  BY <1>1 DEF BeginOffOperation, Frames, Controllers
<1>5. \A result : Stays(z, f, EndOffOperation(f, result))
  BY <1>1 DEF EndOffOperation, Frames, Controllers
<1>6. \A task : /\ Stays(z, f, [f EXCEPT !.c.sessionTask = task])
                /\ Stays(z, f, [f EXCEPT !.c.slotTask = task])
  BY <1>1 DEF Frames, Controllers
<1>7. \A on : /\ Stays(z, f, [f EXCEPT !.c.enabled = on])
              /\ Stays(z, f, [f EXCEPT !.c.offRequested = on])
  BY <1>1 DEF Frames, Controllers
<1>8. \A obs : Stays(z, f, [f EXCEPT !.c.obs = obs])
  BY <1>1 DEF Frames, Controllers
<1> QED BY <1>2, <1>3, <1>4, <1>5, <1>6, <1>7, <1>8

(* The compensation of a withdrawn command keeps the zone's session. *)
LEMMA CompensateAbides ==
  ASSUME World, NEW z \in Zones, NEW f \in Frames, NEW w, NEW l, Safe(z, f.c, f.s, w, l),
         Commanding(f.c), Held(z, f.c, f.s), NEW configurationChanged, NEW serviceFailed
  PROVE  Abides(z, f, Compensate(z, f, configurationChanged, serviceFailed))
<1> DEFINE i == Input(z, f)
           e == CompensationEvent(f, configurationChanged, serviceFailed)
           d == Decide(i, e)
           g == [f EXCEPT !.c.state = d.state, !.c.fault = d.fault,
                          !.c.session = IF d.session # NoSession THEN d.session ELSE @]
           h == [g EXCEPT !.c.offRequested = FALSE]
           k == BeginOffOperation(z, h)
<1>1. /\ f.c.session # NoSession
      /\ f.c.state = "WATERING" \/ f.c.state = "FAULT"
      /\ Owning(f.c.state, f.c.session)
  BY DEF Safe, TaskKnown, Commanding
<1>2. /\ e \in Events
      /\ e.kind \in {"ConfigChangedPrepare", "OnConfirmTimeout", "WatchdogFired",
                     "MoistureReport"}
      /\ e.kind = "WatchdogFired" => f.c.session.freshUntil <= now
      /\ e.kind = "MoistureReport" => e.obs.class # "VALID"
  BY <1>1, CompensationTyped
<1>3. /\ i \in Situations /\ Owning(i.state, i.session)
      /\ i.state = f.c.state /\ i.session = f.c.session /\ i.now = now
      /\ i.blockersEmpty = (f.s.blockers = {})
  BY <1>1, InputTyped
<1> HIDE DEF i, e
<1>4. Upright(i)
  BY <1>3 DEF Upright, Held, LeftOpen
<1>5. Typed(d) /\ Justified(i, e, d) /\ Committed(i, e, d)
  BY <1>2, <1>3, <1>4, DecisionsJustified, ReasonsCommitted
<1>6. \A n \in DOMAIN d.actions : d.actions[n] \in {Persist, ExecuteOff}
  BY <1>1, <1>2, <1>3, OnlyOff
<1> HIDE DEF d
<1>7. d.state = f.c.state /\ d.session # NoSession
  BY <1>1, <1>2, <1>3, <1>5
     DEF Justified, StaysWatering, StaysFaulty, EndsOnEvidence, OffSeen
<1>8. Compensate(z, f, configurationChanged, serviceFailed) = k
  BY <1>1, <1>6 DEF Compensate, AdoptTermination, i, e, d
<1>9. /\ g \in Frames /\ g.s = f.s /\ g.c.state = f.c.state /\ g.c.session = d.session
      /\ g.c.summary = f.c.summary
  <2>1. g = [f EXCEPT !.c.state = d.state, !.c.fault = d.fault, !.c.session = d.session]
    BY <1>7
  <2> HIDE DEF g
  <2> QED BY <1>5, <1>7, <2>1 DEF Frames, Controllers, Typed
<1> HIDE DEF g
<1>10. h \in Frames /\ Stays(z, g, h)
  BY ZenonT(40), <1>9, TasksStay DEF Frames, Controllers
<1> HIDE DEF h
<1>11. Stays(z, h, k)
  BY <1>10, TasksStay
<1> HIDE DEF k
<1>12. Stays(z, g, k)
  BY <1>10, <1>11 DEF Stays
<1>13. Abides(z, f, g)
  <2>1. Held(z, g.c, g.s)
    BY <1>1, <1>7, <1>9 DEF Held, LeftOpen, SoakReason
  <2>2. Reasoned(f.c) => d.session.pending \in {f.c.session.pending, "ACTUATOR_FAULT"}
    BY <1>3, <1>5, <1>7 DEF Committed, Follow, Reasoned
  <2> QED BY <1>1, <1>7, <1>9, <2>1, <2>2 DEF Abides, Adheres
<1>14. k.c.state = f.c.state /\ Held(z, k.c, k.s)
  BY <1>1, <1>9, <1>12, <1>13 DEF Stays, Abides, Held, LeftOpen, SoakReason
<1>15. Adheres(f.c, k.c)
  BY <1>7, <1>9, <1>12, <1>13 DEF Abides, Adheres, Stays
<1> QED BY <1>8, <1>14, <1>15 DEF Abides

(* A failed write faults the zone and commits a reason only where none is. *)
LEMMA PersistFailureAbides ==
  ASSUME NEW z, NEW f \in Frames, StoreMayFail
  PROVE  Abides(z, f, HandlePersistFailure(z, f))
<1> DEFINE g == HandlePersistFailure(z, f)
<1>1. g.c.state = "FAULT" /\ SessionStands(f, g) /\ g.c.summary = f.c.summary
  BY PersistFailureFaults
<1> HIDE DEF g
<1>2. Abides(z, f, g)
  BY <1>1 DEF Abides, Held, SoakReason, Adheres, Reasoned, SessionStands
<1> QED BY <1>2 DEF g

(* A zone that owns its session, and is held. *)
Ready(z, f) == Owning(f.c.state, f.c.session) /\ Held(z, f.c, f.s)

(* Keeping everything keeps a zone ready, and the reason. *)
LEMMA StaysReady ==
  ASSUME NEW z, NEW f, NEW g, Stays(z, f, g), Ready(z, f)
  PROVE  Ready(z, g) /\ Right(z, f, g)
<1>1. Abides(z, f, g)
  BY StaysAbides DEF Ready, Owning
<1>2. Owning(g.c.state, g.c.session)
  BY DEF Ready, Owning, Stays
<1> QED BY <1>1, <1>2, AbidesRight DEF Ready, Abides

(* A decision in a frame that keeps everything. *)
LEMMA StaysThenDecides ==
  ASSUME World, NEW z \in Zones, NEW f, NEW g \in Frames, Stays(z, f, g), Ready(z, f),
         NEW e \in Events,
         StoreMayFail => e.kind \notin {"DisableRequested", "ClearFaultRequested"},
         NEW o \in DecideAndApply(z, g, e)
  PROVE  Right(z, f, o[1])
<1>1. Ready(z, g)
  BY StaysReady
<1>2. Right(z, g, o[1])
  BY <1>1, DecideRight DEF Ready
<1> QED BY <1>2, StaysThenRight

(* A controller gives up, if it must, and compensates. *)
LEMMA WithdrawRight ==
  ASSUME World, NEW z \in Zones, NEW f, NEW g \in Frames, Right(z, f, g), NEW w, NEW l,
         Safe(z, g.c, g.s, w, l), Commanding(g.c),
         NEW configurationChanged, NEW serviceFailed
  PROVE  Right(z, f, Compensate(z, Quiesce(g), configurationChanged, serviceFailed))
<1> DEFINE h == Quiesce(g)
           k == Compensate(z, h, configurationChanged, serviceFailed)
<1>1. h \in Frames /\ h.s = g.s /\ Alike(g.c, h.c) /\ Stays(z, g, h)
  BY QuiesceAlike, TasksStay
<1> HIDE DEF h
<1>2. Safe(z, h.c, h.s, w, l) /\ Commanding(h.c)
  BY <1>1, AlikeSafe DEF Alike, SameTask, Commanding
<1>3. Right(z, f, h)
  BY <1>1, RightThenStays DEF Safe, TaskKnown, Owning
<1>4. Abides(z, h, k)
  BY <1>1, <1>2, <1>3, CompensateAbides DEF Right
<1> HIDE DEF k
<1>5. Right(z, f, k)
  BY <1>3, <1>4, RightThenAbides
<1> QED BY <1>5 DEF k, h

(* The final gate. *)
LEMMA FinalGateRight ==
  ASSUME World, NEW z \in Zones, NEW f \in Frames, Ready(z, f), NEW o \in FinalGate(z, f)
  PROVE  Right(z, f, o[1])
<1> DEFINE back == [f EXCEPT !.c.sessionTask = "resting"]
           marker == [at |-> now, seen |-> NoTime, mine |-> TRUE]
           g == [f EXCEPT !.c.sessionTask = "call", !.c.inflightOn = marker]
           quiet == Quiesce(back)
           watchdog == Watchdog(f.c.armedWatchdog)
           refusal == RefusalEvent(z, f)
<1>1. \/ o = <<back, 0>>
      \/ o \in DecideAndApply(z, back, watchdog)
      \/ o \in DecideAndApply(z, quiet, refusal)
      \/ o = <<g, 0>>
  BY DEF FinalGate, Quiet
<1>2. watchdog \in Events /\ watchdog.kind = "WatchdogFired"
  BY DEF Watchdog, Events, Frames, Controllers
<1>3. /\ refusal \in Events
      /\ StoreMayFail => refusal.kind \notin {"DisableRequested", "ClearFaultRequested"}
  BY RefusalTyped DEF Fits
<1>4. Stays(z, f, back) /\ back \in Frames
  BY TasksStay DEF Frames, Controllers
<1>5. Stays(z, f, g)
  BY DEF Stays, Frames, Controllers
<1> HIDE DEF back, g, watchdog, refusal
<1>6. quiet \in Frames /\ Stays(z, back, quiet)
  BY <1>4, QuiesceAlike, TasksStay
<1> HIDE DEF quiet
<1>7. Stays(z, f, quiet)
  BY <1>4, <1>6 DEF Stays
<1>8. CASE o = <<back, 0>> \/ o = <<g, 0>>
  BY <1>4, <1>5, <1>8, StaysReady
<1>9. CASE o \in DecideAndApply(z, back, watchdog)
  BY <1>2, <1>4, <1>9, StaysThenDecides
<1>10. CASE o \in DecideAndApply(z, quiet, refusal)
  BY <1>3, <1>6, <1>7, <1>10, StaysThenDecides
<1> QED BY <1>1, <1>8, <1>9, <1>10

(* The commit of a command. *)
LEMMA CommandCommitRight ==
  ASSUME World, NEW z \in Zones, NEW f \in Frames, Held(z, f.c, f.s), NEW w, NEW l,
         Safe(z, f.c, f.s, w, l), Clean(f.c, w, l), f.c.sessionTask = "commit",
         NEW o \in CommandCommit(z, f)
  PROVE  Right(z, f, o[1])
<1> DEFINE e == Acknowledgement(f)
<1>1. Ready(z, f) /\ Commanding(f.c)
  BY DEF Ready, Safe, TaskKnown, Commanding
<1>2. \/ o[1] = Withdrawn(z, f) \/ o[1] = Finish(f)
      \/ \E p \in DecideAndApply(z, f, e) : o[1] = Finish(p[1]) \/ o[1] = Withdrawn(z, p[1])
      \/ StoreMayFail /\ o[1] = Unsaved(z, f)
  BY CommandCommitOutcomes
<1>3. ASSUME NEW g \in Frames, Right(z, f, g), Safe(z, g.c, g.s, w, l), Commanding(g.c)
      PROVE  Right(z, f, Finish(g)) /\ Right(z, f, Withdrawn(z, g))
  <2>1. Stays(z, g, Finish(g)) /\ Owning(g.c.state, g.c.session)
    BY <1>3, TasksStay DEF Safe, TaskKnown
  <2>2. Right(z, f, Finish(g))
    BY <1>3, <2>1, RightThenStays DEF Owning
  <2>3. Right(z, f, Withdrawn(z, g))
    BY <1>3, WithdrawRight DEF Withdrawn
  <2> QED BY <2>2, <2>3
<1>4. CASE o[1] = Withdrawn(z, f) \/ o[1] = Finish(f)
  <2>1. Stays(z, f, f)
    BY DEF Stays
  <2>2. Right(z, f, f)
    BY <1>1, <2>1, StaysReady
  <2> QED BY <1>1, <1>3, <1>4, <2>2
<1>5. ASSUME NEW p \in DecideAndApply(z, f, e), o[1] = Finish(p[1]) \/ o[1] = Withdrawn(z, p[1])
      PROVE  Right(z, f, o[1])
  <2>1. e \in Events /\ e.kind = "OnConfirmed"
    <3>1. f.c.inflightOn.seen \in Int
      BY DEF Frames, Controllers, Markers
    <3> QED BY <3>1, AcknowledgedTyped DEF Acknowledgement
  <2> HIDE DEF e
  <2>2. Fits(f.c, e, w, l)
    BY <2>1 DEF Fits, OffSeen
  <2>3. Leads(z, f, p[1], w, l)
    BY <1>5, <2>1, <2>2, DecideSafe
  <2>4. Right(z, f, p[1])
    BY <1>1, <1>5, <2>1, DecideRight DEF Ready
  <2>5. p[1] \in Frames /\ Safe(z, p[1].c, p[1].s, w, l) /\ Commanding(p[1].c)
    BY <1>1, <2>3 DEF Leads, SameTask, Commanding
  <2> QED BY <1>3, <1>5, <2>4, <2>5
<1>6. CASE StoreMayFail /\ o[1] = Unsaved(z, f)
  <2> DEFINE g == HandlePersistFailure(z, f)
  <2>1. g \in Frames /\ Safe(z, g.c, g.s, w, l) /\ Commanding(g.c)
    BY <1>1, <1>6, PersistFailureSafe DEF Clean
  <2>2. Abides(z, f, g)
    BY <1>6, PersistFailureAbides
  <2> HIDE DEF g
  <2>3. Abides(z, g, Compensate(z, g, FALSE, TRUE))
    BY <2>1, <2>2, CompensateAbides DEF Abides
  <2>4. Right(z, f, Compensate(z, g, FALSE, TRUE))
    BY <2>2, <2>3, AbidesRight, RightThenAbides
  <2> QED BY <1>6, <2>4 DEF Unsaved, g
<1> QED BY <1>2, <1>4, <1>5, <1>6

(* A change of the actuator. *)
LEMMA ActuatorChangeRight ==
  ASSUME World, NEW z \in Zones, NEW f \in Frames, Ready(z, f), NEW m \in Changes,
         NEW o \in ActuatorChange(z, f, m)
  PROVE  Right(z, f, o[1])
<1> DEFINE key == <<z, "actuator_not_proven_off">>
           t == BlockerGone(f.s, key)
           g == [f EXCEPT !.s = t]
           off == At("ExternalActuatorOff", m.at)
           on == At("OnConfirmed", m.at)
           gone == Event("ActuatorBecameUnavailable")
           theirs == Event("ExternalActuatorOn")
           Harms(e) == e.kind \in {"DisableRequested", "ClearFaultRequested"}
<1>1. \/ o = <<f, 0>> \/ o = <<f, 1>> \/ o = <<g, 0>>
      \/ o \in DecideAndApply(z, f, gone) \/ o \in DecideAndApply(z, f, theirs)
      \/ o \in DecideAndApply(z, f, on) \/ o \in DecideAndApply(z, g, off)
  BY DEF ActuatorChange, Quiet
<1>2. off \in Events /\ on \in Events /\ ~Harms(off) /\ ~Harms(on)
  <2>1. m.at \in Int
    BY DEF Changes
  <2> QED BY <2>1, AcknowledgedTyped
<1>3. gone \in Events /\ theirs \in Events /\ ~Harms(gone) /\ ~Harms(theirs)
  BY DEF Event, Events, PlainKinds
<1>4. g \in Frames /\ Stays(z, f, g)
  <2>1. key \in KeysOf(z) /\ key # OffKey(z) /\ f.s \in Slots
    BY KeysTyped DEF KeyReasons, OffKey, Unconfirmed, Frames
  <2> HIDE DEF key
  <2>2. t \in Slots /\ t.blockers = f.s.blockers \ {key}
    BY <2>1, BlockerMoves
  <2>3. g = [f EXCEPT !.s = t]
    OBVIOUS
  <2> HIDE DEF t, g
  <2>4. g \in Frames /\ g.c = f.c /\ g.s = t
    BY <2>2, <2>3 DEF Frames
  <2> QED BY <2>1, <2>2, <2>4 DEF Stays
<1>5. Stays(z, f, f)
  BY DEF Stays
<1> HIDE DEF off, on, gone, theirs, g
<1>6. CASE o = <<f, 0>> \/ o = <<f, 1>> \/ o = <<g, 0>>
  BY <1>4, <1>5, <1>6, StaysReady
<1>7. CASE \/ o \in DecideAndApply(z, f, gone) \/ o \in DecideAndApply(z, f, theirs)
           \/ o \in DecideAndApply(z, f, on)
  BY <1>2, <1>3, <1>5, <1>7, StaysThenDecides
<1>8. CASE o \in DecideAndApply(z, g, off)
  BY <1>2, <1>4, <1>8, StaysThenDecides
<1> QED BY <1>1, <1>6, <1>7, <1>8

(* A reading of the sensor. *)
LEMMA MoistureRight ==
  ASSUME World, NEW z \in Zones, NEW f \in Frames, Ready(z, f),
         NEW m \in Events, m.kind = "MoistureReport", NEW o \in Moisture(z, f, m)
  PROVE  Right(z, f, o[1])
<1> DEFINE g == [f EXCEPT !.c.obs = m.obs]
<1>1. o = <<g, 0>> \/ o \in DecideAndApply(z, g, m)
  BY DEF Moisture, Quiet
<1>2. g \in Frames /\ Stays(z, f, g)
  <2>1. m.obs \in Reports
    BY DEF Events, PlainKinds
  <2>2. g \in Frames
    BY <2>1 DEF Frames, Controllers
  <2> QED BY <2>2, TasksStay
<1> HIDE DEF g
<1> QED BY <1>1, <1>2, StaysReady, StaysThenDecides

(* After a decision the zone owns its session, so its tasks may go on. *)
LEMMA DecidesThenStays ==
  ASSUME World, NEW z \in Zones, NEW f \in Frames, Held(z, f.c, f.s), NEW w, NEW l,
         Safe(z, f.c, f.s, w, l), NEW e \in Events, Fits(f.c, e, w, l),
         NEW p \in DecideAndApply(z, f, e), NEW h, Stays(z, p[1], h)
  PROVE  Right(z, f, h)
<1>1. Right(z, f, p[1])
  BY DecideRight DEF Safe, TaskKnown, Fits
<1>2. Owning(p[1].c.state, p[1].c.session)
  BY ZenonT(40), DecideSafe DEF Leads, Safe, TaskKnown
<1> QED BY <1>1, <1>2, RightThenStays DEF Owning

(* Every handler follows the committed reason. *)
LEMMA HandlerRight ==
  ASSUME World, NEW z \in Zones, NEW f \in Frames, Held(z, f.c, f.s), NEW w, NEW l \in BOOLEAN,
         Safe(z, f.c, f.s, w, l), NEW m \in Messages,
         OfTask(m) => Clean(f.c, w, l) /\ AwaitsIt(f.c, m),
         Flows(w, l) => Harmless(f.c, m),
         NEW o \in Handle(z, f, m)
  PROVE  Right(z, f, o[1])
<1>1. Ready(z, f)
  BY DEF Ready, Safe, TaskKnown
<1>2. CASE m.kind = "FinalGate"
  <2>1. o \in FinalGate(z, f)
    BY <1>2 DEF Handle
  <2> QED BY <1>1, <2>1, FinalGateRight
<1>3. CASE m.kind = "CommandCommit"
  <2>1. o \in CommandCommit(z, f)
    BY <1>3 DEF Handle
  <2>2. Clean(f.c, w, l) /\ f.c.sessionTask = "commit"
    BY <1>3 DEF OfTask, TaskKinds, AwaitsIt
  <2> QED BY <2>1, <2>2, CommandCommitRight
<1>4. CASE m.kind = "ActuatorChange"
  <2>1. o \in ActuatorChange(z, f, m) /\ m \in Changes
    BY <1>4, MessageKinds DEF Handle
  <2> QED BY <1>1, <2>1, ActuatorChangeRight
<1>5. CASE m.kind = "SlotOffer"
  <2>1. PICK p \in DecideAndApply(z, f, m.event) :
           o = <<[p[1] EXCEPT !.c.slotTask = "none"], p[2]>>
    BY <1>5 DEF Handle, Then
  <2>2. m.event \in Events /\ Fits(f.c, m.event, w, l)
    BY <1>5, MessageKinds DEF Offers, Fits, OffSeen
  <2>3. p[1] \in Frames
    BY <2>2, DecideSafe DEF Leads
  <2>4. Stays(z, p[1], o[1])
    BY <2>1, <2>3, TasksStay
  <2> QED BY <2>2, <2>4, DecidesThenStays
<1>6. CASE m.kind \in {"OffConfirmed", "OffNotConfirmed"}
  <2>1. PICK p \in DecideAndApply(z, f, m), result \in {"proven", "failed"} :
           o = <<EndOffOperation(p[1], result), p[2]>>
    BY <1>6 DEF Handle, Then
  <2>2. m \in Events /\ f.c.sessionTask = "off"
    BY <1>6, MessageKinds DEF Posted, OfTask, TaskKinds, AwaitsIt, Safe, TaskKnown
  <2>3. Fits(f.c, m, w, l)
    BY <1>6, <2>2 DEF Fits, OffSeen, Commanding, Harmless
  <2>4. p[1] \in Frames
    BY <2>2, <2>3, DecideSafe DEF Leads
  <2>5. Stays(z, p[1], o[1])
    BY <2>1, <2>4, TasksStay
  <2> QED BY <2>2, <2>3, <2>5, DecidesThenStays
<1>7. CASE m.kind \notin {"FinalGate", "CommandCommit", "ActuatorChange", "SlotOffer",
                          "OffConfirmed", "OffNotConfirmed"}
  <2>1. m \in Events /\ Fits(f.c, m, w, l)
    BY <1>7, MessageKinds, PostedFits
  <2>2. CASE m.kind = "MoistureReport"
    <3>1. o \in Moisture(z, f, m)
      BY <2>2 DEF Handle
    <3> QED BY <1>1, <2>1, <2>2, <3>1, MoistureRight
  <2>3. CASE m.kind \in {"EnableRequested", "DisableRequested"}
    <3>1. PICK enabled \in BOOLEAN : o \in DecideAndApply(z, [f EXCEPT !.c.enabled = enabled], m)
      BY <2>3 DEF Handle
    <3> DEFINE g == [f EXCEPT !.c.enabled = enabled]
    <3>2. g \in Frames /\ Stays(z, f, g)
      BY ZenonT(40), TasksStay DEF Frames, Controllers
    <3> HIDE DEF g
    <3> QED BY <1>1, <2>1, <3>1, <3>2, StaysThenDecides DEF Fits, g
  <2>4. CASE m.kind \notin {"MoistureReport", "EnableRequested", "DisableRequested"}
    <3>1. o \in DecideAndApply(z, f, m)
      BY <1>7, <2>4 DEF Handle
    <3> QED BY <1>1, <2>1, <3>1, DecideRight DEF Ready, Fits
  <2> QED BY <2>2, <2>3, <2>4
<1> QED BY <1>2, <1>3, <1>4, <1>5, <1>6, <1>7

(* The ON call is over: its anchor is no reason. *)
LEMMA AfterOnCallRight ==
  ASSUME World, NEW z \in Zones, NEW f \in Frames, Held(z, f.c, f.s), NEW w, NEW l,
         Safe(z, f.c, f.s, w, l), f.c.sessionTask = "call", NEW serviceFailed \in BOOLEAN
  PROVE  Right(z, f, AfterOnCall(z, f, serviceFailed))
<1> DEFINE g == [f EXCEPT !.c = RecordPossibleCommand(f.c)]
           m == Event("CommandCommit")
           h == [Post(g, m) EXCEPT !.c.sessionTask = "commit"]
           changed == ~RecheckConfiguration(g)
<1>1. \/ AfterOnCall(z, f, serviceFailed) = Compensate(z, Quiesce(g), changed, serviceFailed)
      \/ AfterOnCall(z, f, serviceFailed) = h
  BY DEF AfterOnCall
<1>2. Commanding(f.c) /\ f.c.session # NoSession /\ Ready(z, f)
  BY DEF Commanding, Safe, TaskKnown, Ready
<1>3. g \in Frames /\ g.s = f.s /\ Alike(f.c, g.c)
  BY <1>2, RecordedAlike
<1>4. Stays(z, f, g)
  <2>1. g.c.summary = f.c.summary /\ g.c.session.pending = f.c.session.pending
    <3>1. f.c.session \in OpenSessions
      BY <1>2 DEF Frames, Controllers, Sessions
    <3> QED BY <3>1 DEF RecordPossibleCommand, Frames, Controllers, OpenSessions
  <2> HIDE DEF g
  <2> QED BY <1>3, <2>1 DEF Stays, Alike
<1> HIDE DEF g, changed
<1>5. Right(z, f, g) /\ Ready(z, g)
  BY <1>2, <1>4, StaysReady
<1>6. Right(z, f, Compensate(z, Quiesce(g), changed, serviceFailed))
  <2>1. Safe(z, g.c, g.s, w, l) /\ Commanding(g.c)
    BY <1>2, <1>3, AlikeSafe DEF Alike, SameTask, Commanding
  <2> QED BY <1>3, <1>5, <2>1, WithdrawRight
<1>7. Right(z, f, h)
  <2>1. Stays(z, g, h)
    BY <1>3 DEF Post, Send, Stays, Frames, Controllers
  <2> HIDE DEF h
  <2> QED BY <1>5, <2>1, RightThenStays DEF Ready, Owning
<1> QED BY <1>1, <1>6, <1>7

(* Every zone is held. *)
HeldAll == \A z \in Zones : Held(z, zone[z], slots)

(* What a step does to the zones' reasons. *)
Lawful == HeldAll' /\ \A z \in Zones : Follows(zone[z], zone'[z])

(* A zone's step that is lawful for itself. *)
LEMMA RightLawful ==
  ASSUME Good, HeldAll, NEW z \in Zones, NEW g, Commit(z, g), Moved(slots, g.s, z),
         Held(z, g.c, g.s), Follows(zone[z], g.c)
  PROVE  Lawful
<1>1. ASSUME NEW y \in Zones
      PROVE  Held(y, zone'[y], slots') /\ Follows(zone[y], zone'[y])
  <2>1. CASE y = z
    <3>1. zone'[y] = g.c /\ slots' = g.s
      BY <2>1 DEF Commit, Good
    <3> QED BY <2>1, <3>1
  <2>2. CASE y # z
    <3>1. zone'[y] = zone[y] /\ slots' = g.s
      BY <2>2 DEF Commit, Good
    <3>2. Held(y, zone[y], g.s)
      BY <2>2, HeldElsewhere DEF HeldAll
    <3>3. Follows(zone[y], zone[y])
      BY DEF Follows, Reasoned
    <3> QED BY <3>1, <3>2, <3>3
  <2> QED BY <2>1, <2>2
<1> QED BY <1>1 DEF Lawful, HeldAll

(* No zone changes its state, its session or its summary. *)
Calm ==
    /\ slots.blockers \subseteq slots'.blockers
    /\ \A z \in Zones :
         /\ zone'[z].state = zone[z].state /\ zone'[z].session = zone[z].session
         /\ zone'[z].summary = zone[z].summary

(* Then there is nothing to follow. *)
LEMMA CalmLawful ==
  ASSUME HeldAll, Calm
  PROVE  Lawful
BY DEF HeldAll, Calm, Lawful, Held, Follows, Reasoned, LeftOpen, SoakReason

(* One zone's step that changes none of these. *)
LEMMA CommitCalm ==
  ASSUME Good, NEW z \in Zones, NEW g, Commit(z, g), slots.blockers \subseteq g.s.blockers,
         g.c.state = zone[z].state, g.c.session = zone[z].session,
         g.c.summary = zone[z].summary
  PROVE  Calm
<1>1. ASSUME NEW y \in Zones
      PROVE  /\ zone'[y].state = zone[y].state /\ zone'[y].session = zone[y].session
             /\ zone'[y].summary = zone[y].summary
  BY DEF Commit, Good
<1> QED BY <1>1 DEF Commit, Calm

(* Deliver *)
LEMMA DeliverLawful ==
  ASSUME Good, HeldAll, NEW z \in Zones, Deliver(z)
  PROVE  Lawful
<1> DEFINE w == water[z]
           l == latent[z]
<1>1. PICK f \in Frames, m \in Messages : \E o \in Handle(z, f, m) :
        /\ f.s = slots /\ Safe(z, f.c, f.s, w, l)
        /\ f.c.state = zone[z].state /\ f.c.session = zone[z].session
        /\ f.c.slotTask = "waiting" => f.s.future[z] # "granted"
        /\ OfTask(m) => Clean(f.c, w, l) /\ AwaitsIt(f.c, m)
        /\ Flows(w, l) => Harmless(f.c, m)
        /\ Commit(z, o[1])
  BY DeliverHandles
<1>2. PICK o \in Handle(z, f, m) : Commit(z, o[1])
  BY <1>1
<1>3. l \in BOOLEAN /\ World
  BY FrameSafe, GoodWorld
<1>4. Held(z, f.c, f.s)
  BY <1>1 DEF HeldAll, Held
<1> HIDE DEF w, l
<1>5. Right(z, f, o[1])
  BY <1>1, <1>3, <1>4, HandlerRight
<1>6. Moved(slots, o[1].s, z)
  BY <1>1, <1>3, HandlerReaches DEF Reaches
<1>7. Held(z, o[1].c, o[1].s) /\ Follows(zone[z], o[1].c)
  BY <1>1, <1>5 DEF Right, Follows, Reasoned
<1> QED BY <1>2, <1>6, <1>7, RightLawful

(* OnReturns *)
LEMMA OnReturnsLawful ==
  ASSUME Good, HeldAll, NEW z \in Zones, OnReturns(z)
  PROVE  Lawful
<1> DEFINE f == Frame(z)
<1>1. PICK serviceFailed \in BOOLEAN : Commit(z, AfterOnCall(z, f, serviceFailed))
  BY DEF OnReturns
<1>2. /\ f \in Frames /\ Safe(z, f.c, f.s, water[z], latent[z]) /\ f.c.sessionTask = "call"
      /\ f.c = zone[z] /\ f.s = slots /\ World
  BY FrameSafe, GoodWorld DEF OnReturns
<1>3. Held(z, f.c, f.s)
  BY <1>2 DEF HeldAll
<1> HIDE DEF f
<1> DEFINE g == AfterOnCall(z, f, serviceFailed)
<1>4. Right(z, f, g)
  BY <1>2, <1>3, AfterOnCallRight
<1>5. Moved(slots, g.s, z)
  BY <1>2, AfterOnCallReaches DEF Reaches
<1>6. Held(z, g.c, g.s) /\ Follows(zone[z], g.c)
  BY <1>2, <1>4 DEF Right
<1> QED BY <1>1, <1>5, <1>6, RightLawful

(* The zone's other steps. *)
LEMMA ZoneStepLawful ==
  ASSUME Good, HeldAll, NEW z \in Zones, ZoneStep(z)
  PROVE  Lawful
<1>1. /\ Frame(z) \in Frames /\ Frame(z).c = zone[z] /\ Frame(z).s = slots
      /\ zone[z] \in Controllers
  BY FrameSafe
<1>2. ASSUME NEW g, Commit(z, g), slots.blockers \subseteq g.s.blockers,
             g.c.state = zone[z].state, g.c.session = zone[z].session,
             g.c.summary = zone[z].summary
      PROVE  Lawful
  BY <1>2, CommitCalm, CalmLawful
<1>3. ASSUME NEW d, Commit(z, [Frame(z) EXCEPT !.c = d]),
             d.state = zone[z].state, d.session = zone[z].session,
             d.summary = zone[z].summary
      PROVE  Lawful
  <2> DEFINE g == [Frame(z) EXCEPT !.c = d]
  <2>1. g.c = d /\ g.s = slots
    BY <1>1 DEF Frames
  <2> HIDE DEF g
  <2> QED BY <1>2, <1>3, <2>1 DEF g
<1>4. LET d == OffAttemptEnds(z, zone[z]) IN
      d.state = zone[z].state /\ d.session = zone[z].session /\ d.summary = zone[z].summary
  BY <1>1 DEF OffAttemptEnds, Send, Controllers
<1>5. CASE RunSession(z)
  <2> DEFINE f == Frame(z)
             g == [Post(f, Event("FinalGate")) EXCEPT !.c.onRequested = FALSE,
                                                      !.c.sessionTask = "gate"]
             h == [f EXCEPT !.c.offRequested = FALSE]
             k == BeginOffOperation(z, h)
  <2>1. Commit(z, g) \/ Commit(z, k)
    BY <1>5 DEF RunSession
  <2> HIDE DEF f
  <2>2. f \in Frames /\ f.c = zone[z] /\ f.s = slots
    BY <1>1 DEF f
  <2>3. /\ g.s = slots /\ g.c.state = zone[z].state /\ g.c.session = zone[z].session
        /\ g.c.summary = zone[z].summary
    BY <2>2 DEF Post, Send, Frames, Controllers
  <2>4. /\ h \in Frames /\ h.s = slots /\ h.c.state = zone[z].state
        /\ h.c.session = zone[z].session /\ h.c.summary = zone[z].summary
    BY ZenonT(40), <2>2 DEF Frames, Controllers
  <2> HIDE DEF g, h
  <2>5. /\ k.s = slots /\ k.c.state = zone[z].state /\ k.c.session = zone[z].session
        /\ k.c.summary = zone[z].summary
    BY <2>4 DEF BeginOffOperation, Frames, Controllers
  <2> QED BY <1>2, <2>1, <2>3, <2>5
<1>6. CASE OffReturns(z)
  <2> DEFINE c == zone[z]
             until == now + ActuatorConfirmTimeout
             wait == [c EXCEPT !.offRun.phase = "wait", !.offRun.deadline = until]
             d == IF Assessment(z).provenOff THEN OffAttemptEnds(z, c) ELSE wait
  <2>1. Commit(z, [Frame(z) EXCEPT !.c = d])
    BY <1>6 DEF OffReturns
  <2>2. wait.state = c.state /\ wait.session = c.session /\ wait.summary = c.summary
    BY <1>1 DEF Controllers
  <2> HIDE DEF wait
  <2>3. d.state = c.state /\ d.session = c.session /\ d.summary = c.summary
    BY <1>4, <2>2
  <2> HIDE DEF d
  <2> QED BY <1>3, <2>1, <2>3
<1>7. CASE OffWakes(z)
  BY <1>3, <1>4, <1>7 DEF OffWakes
<1>8. CASE SlotOffered(z)
  <2> DEFINE f == Frame(z)
             event == IF f.c.pendingManual = 0 THEN Event("SlotGranted")
                      ELSE Manual(f.c.pendingManual)
             m == [kind |-> "SlotOffer", event |-> event]
             g == [Post(f, m) EXCEPT !.c.slotTask = "offering", !.c.pendingManual = 0]
             t == Release(f.s, z)
             h == [f EXCEPT !.c.slotTask = "none", !.s = t]
  <2>1. Commit(z, g) \/ Commit(z, h)
    BY <1>8 DEF SlotOffered
  <2> HIDE DEF f, m
  <2>2. f \in Frames /\ f.c = zone[z] /\ f.s = slots /\ slots \in Slots
    BY <1>1 DEF f, Good
  <2>3. /\ g.s = slots /\ g.c.state = zone[z].state /\ g.c.session = zone[z].session
        /\ g.c.summary = zone[z].summary
    BY <2>2 DEF Post, Send, Frames, Controllers
  <2>4. t.blockers = slots.blockers
    BY <2>2, ReleaseMoves
  <2> HIDE DEF g, t
  <2>5. /\ h.s = t /\ h.c.state = zone[z].state /\ h.c.session = zone[z].session
        /\ h.c.summary = zone[z].summary
    BY <2>2 DEF Frames, Controllers
  <2> HIDE DEF h
  <2> QED BY <1>2, <2>1, <2>3, <2>4, <2>5
<1>9. CASE TimerFires(z)
  <2>1. PICK t \in zone[z].timers :
          Commit(z, [Post(Frame(z), Event(TimerEvents[t[1]])) EXCEPT !.c.timers = @ \ {t}])
    BY <1>9 DEF TimerFires
  <2> DEFINE f == Frame(z)
             m == Event(TimerEvents[t[1]])
             g == [Post(f, m) EXCEPT !.c.timers = @ \ {t}]
  <2> HIDE DEF f, m
  <2>2. f \in Frames /\ f.c = zone[z] /\ f.s = slots
    BY <1>1 DEF f
  <2>3. /\ g.s = slots /\ g.c.state = zone[z].state /\ g.c.session = zone[z].session
        /\ g.c.summary = zone[z].summary
    BY <2>2 DEF Post, Send, Frames, Controllers
  <2>4. Commit(z, g)
    BY <2>1 DEF f, m
  <2> HIDE DEF g
  <2> QED BY <1>2, <2>3, <2>4
<1>10. CASE WatchdogFires(z)
  <2> DEFINE f == Frame(z)
             m == Watchdog(zone[z].watchdog)
             g == [Post(f, m) EXCEPT !.c.watchdog = NoToken]
  <2>1. Commit(z, g)
    BY <1>10 DEF WatchdogFires
  <2> HIDE DEF f, m
  <2>2. f \in Frames /\ f.c = zone[z] /\ f.s = slots
    BY <1>1 DEF f
  <2>3. /\ g.s = slots /\ g.c.state = zone[z].state /\ g.c.session = zone[z].session
        /\ g.c.summary = zone[z].summary
    BY <2>2 DEF Post, Send, Frames, Controllers
  <2> HIDE DEF g
  <2> QED BY <1>2, <2>1, <2>3
<1> QED BY <1>5, <1>6, <1>7, <1>8, <1>9, <1>10, DeliverLawful, OnReturnsLawful DEF ZoneStep

(* OnLands, OffLands, Settles, Disturb: the callback of the actuator only  *)
(* notes what it saw.                                                      *)
LEMMA DeviceCalm ==
  ASSUME Good, NEW z \in Zones, NEW w, NEW v, NEW own, Device(z, w, v, own)
  PROVE  Calm
<1> DEFINE c == zone[z]
           d == OnActuatorEvent(c, z, w, v, own)
<1>1. c \in Controllers
  BY FrameSafe
<1>2. zone' = [zone EXCEPT ![z] = d] /\ slots' = slots
  BY DEF Device
<1> HIDE DEF c
<1>3. d.state = c.state /\ d.session = c.session /\ d.summary = c.summary
  BY <1>1 DEF OnActuatorEvent, Send, Controllers
<1> HIDE DEF d
<1>4. ASSUME NEW y \in Zones
      PROVE  /\ zone'[y].state = zone[y].state /\ zone'[y].session = zone[y].session
             /\ zone'[y].summary = zone[y].summary
  BY <1>2, <1>3 DEF Good, c
<1> QED BY <1>2, <1>4 DEF Calm

(* What the world does to a zone. *)
LEMMA WorldStepLawful ==
  ASSUME Good, HeldAll, NEW z \in Zones, WorldStep(z)
  PROVE  Lawful
<1>1. ASSUME NEW m, Commit(z, Post(Frame(z), m))
      PROVE  Calm
  <2> DEFINE f == Frame(z)
             g == Post(f, m)
  <2>1. f \in Frames /\ f.c = zone[z] /\ f.s = slots
    BY FrameSafe
  <2> HIDE DEF f
  <2>2. /\ g.s = slots /\ g.c.state = zone[z].state /\ g.c.session = zone[z].session
        /\ g.c.summary = zone[z].summary
    BY <2>1 DEF Post, Send, Frames, Controllers
  <2>3. Commit(z, g)
    BY <1>1 DEF f
  <2> HIDE DEF g
  <2> QED BY <2>2, <2>3, CommitCalm
<1>2. CASE OnLands(z) \/ OffLands(z) \/ Settles(z) \/ Disturb(z)
  BY <1>2, DeviceCalm, CalmLawful DEF OnLands, OffLands, Settles, Disturb
<1>3. CASE SensorReports(z) \/ FallbackScan(z) \/ UserRequests(z)
  BY <1>1, <1>3, CalmLawful DEF SensorReports, FallbackScan, UserRequests
<1> QED BY <1>2, <1>3 DEF WorldStep

(* Reconcile *)
LEMMA ReconcileCalm ==
  ASSUME Good, Reconcile
  PROVE  Calm
<1>1. PICK flags \in SUBSET Flags : slots' = SetBarrier(slots, flags)
  BY DEF Reconcile, Flags
<1> DEFINE b == [slots EXCEPT !.barrier = flags]
<1>2. b \in Slots /\ b.blockers = slots.blockers
  BY DEF Good, Slots
<1>3. slots' = TryGrant(b)
  BY <1>1 DEF SetBarrier
<1> HIDE DEF b
<1>4. TryGrant(b).blockers = b.blockers
  BY <1>2, TryGrantGives
<1> QED BY <1>2, <1>3, <1>4 DEF Calm, Reconcile

(* One step of the system keeps every zone held, and every reason. *)
LEMMA StepLawful ==
  ASSUME Good, HeldAll, [Next]_vars
  PROVE  Lawful
<1>1. CASE \E z \in Zones : ZoneStep(z) \/ WorldStep(z)
  BY <1>1, ZoneStepLawful, WorldStepLawful
<1>2. CASE Reconcile
  BY <1>2, ReconcileCalm, CalmLawful
<1>3. CASE Tick \/ TimeIsUp \/ UNCHANGED vars
  <2>1. UNCHANGED <<zone, slots>>
    BY <1>3 DEF Tick, TimeIsUp, vars
  <2> QED BY <2>1, CalmLawful DEF Calm
<1> QED BY <1>1, <1>2, <1>3 DEF Next

(* Setup leaves no session. *)
LEMMA InitHeld == Init => HeldAll
<1> SUFFICES ASSUME Init, NEW z \in Zones
             PROVE  Held(z, zone[z], slots)
  BY DEF HeldAll
<1>1. zone[z].state = "IDLE" /\ zone[z].session = NoSession
  BY DEF Init, Fresh
<1> QED BY <1>1 DEF Held, LeftOpen, SoakReason

(* I22: the first terminal request owns the reason; only an actuator that  *)
(* cannot be proven off supersedes it.  However the zones' tasks           *)
(* interleave with failed writes, interrupted soaks and late service       *)
(* calls, a session is closed with the reason that was committed first.    *)
THEOREM FirstReason == FaultsStand => (Spec => FirstReasonWins)
<1> SUFFICES ASSUME FaultsStand
             PROVE  Spec => FirstReasonWins
  OBVIOUS
<1> DEFINE OwnsReason ==
             \A z \in Zones :
               LET was == zone[z].session
                   is == zone'[z].session
               IN  was # NoSession /\ was.pending # NoReason =>
                     IF is = NoSession THEN zone'[z].summary = was.pending
                     ELSE is.pending \in {was.pending, "ACTUATOR_FAULT"}
<1>1. Init => Good /\ HeldAll
  BY InitGood, InitHeld
<1>2. (Good /\ HeldAll) /\ [Next]_vars => (Good /\ HeldAll)'
  BY StepGood, StepLawful DEF Lawful
<1>3. (Good /\ HeldAll) /\ [Next]_vars => [OwnsReason]_vars
  BY StepLawful DEF Lawful, Follows, Reasoned
<1> HIDE DEF OwnsReason
<1>4. Spec => [][OwnsReason]_vars
  BY <1>1, <1>2, <1>3, PTL DEF Spec
<1> QED BY <1>4 DEF FirstReasonWins, OwnsReason

-----------------------------------------------------------------------------
(* Water has an end in sight. *)

(* The timer that ends the phase k, or its event, is still to come. *)
Coming(c, k) ==
    Armed(c, k) \/ \E n \in DOMAIN c.inbox : c.inbox[n] = Event(EndOfPhase[k])

(* Somebody will end what a WATERING zone does: OFF is asked for or under  *)
(* way, or nobody has ended the phase yet and its timer will.              *)
Attended(c) ==
    c.state = "WATERING" =>
      \/ c.offRequested \/ c.sessionTask = "off"
      \/ c.session.pending = NoReason /\ Coming(c, Phase(c.session))

(* The same of a zone that is about to decide upon e. *)
Heeded(c, e) ==
    c.state = "WATERING" =>
      \/ c.offRequested \/ c.sessionTask = "off"
      \/ /\ c.session.pending = NoReason
         /\ \/ Coming(c, Phase(c.session))
            \/ e.kind \in {EndOfPhase[Phase(c.session)], "ConfigChangedPrepare"}

(* A session task that waits for its turn has its message in the inbox. *)
Due(c) ==
    /\ c.sessionTask = "gate" => \E n \in DOMAIN c.inbox : c.inbox[n].kind = "FinalGate"
    /\ c.sessionTask = "commit" => \E n \in DOMAIN c.inbox : c.inbox[n].kind = "CommandCommit"

Tended(c) == Attended(c) /\ Due(c)

(* The messages of p are also in q. *)
Holds(p, q) == \A n \in DOMAIN p : \E k \in DOMAIN q : q[k] = p[n]

(* Where a session task waits for no message of its own. *)
Unasked == {"resting", "call", "off"}

(* d still has all that attends to the water of c. *)
Minds(c, d) ==
    /\ d.state = c.state /\ Holds(c.inbox, d.inbox)
    /\ c.state = "WATERING" =>
         d.session.pending = c.session.pending /\ Phase(d.session) = Phase(c.session)
    /\ c.offRequested => d.offRequested
    /\ c.sessionTask = "off" => d.sessionTask = "off"
    /\ \A k : Armed(c, k) => Armed(d, k)

(* The two names of the timers' events. *)
LEMMA PhaseTimers ==
  ASSUME NEW s
  PROVE  Phase(s) \in TimerKinds /\ EndOfPhase[Phase(s)] = TimerEvents[Phase(s)]
BY DEF Phase, EndOfPhase, TimerEvents, TimerKinds

(* What attended to the water goes on. *)
LEMMA MindsAttends ==
  ASSUME NEW c, NEW d, Minds(c, d)
  PROVE  /\ Attended(c) => Attended(d)
         /\ \A e : Heeded(c, e) => Heeded(d, e)
<1>1. \A k : Coming(c, k) => Coming(d, k)
  BY DEF Minds, Coming, Holds
<1> QED BY <1>1 DEF Minds, Attended, Heeded

(* The task goes on waiting, or waits no longer. *)
LEMMA StaysDue ==
  ASSUME NEW c, NEW d,
         \/ d.sessionTask \in Unasked
         \/ d.sessionTask = c.sessionTask /\ Holds(c.inbox, d.inbox) /\ Due(c)
  PROVE  Due(d)
<1>1. CASE d.sessionTask \in Unasked
  BY <1>1 DEF Due, Unasked
<1>2. CASE d.sessionTask = c.sessionTask /\ Holds(c.inbox, d.inbox) /\ Due(c)
  BY <1>2 DEF Due, Holds
<1> QED BY <1>1, <1>2

(* An attended zone is attended whatever it decides upon. *)
LEMMA AttendedHeeds ==
  ASSUME NEW c, Attended(c), NEW e
  PROVE  Heeded(c, e)
BY DEF Attended, Heeded

(* An inbox that grew, or that got one message more. *)
LEMMA GrownHolds ==
  ASSUME NEW p, NEW q, Grown(p, q)
  PROVE  Holds(p, q)
BY DEF Grown, Holds

LEMMA AppendHolds ==
  ASSUME NEW p \in Seq(Messages), NEW m
  PROVE  Holds(p, Append(p, m)) /\ \E n \in DOMAIN Append(p, m) : Append(p, m)[n] = m
<1>1. Len(p) \in Nat /\ DOMAIN p = 1 .. Len(p)
  BY LenProperties
<1>2. p \in Seq(Messages \cup {m})
  BY <1>1
<1>3. /\ Append(p, m) \in Seq(Messages \cup {m}) /\ Len(Append(p, m)) = Len(p) + 1
      /\ \A n \in 1 .. Len(p) : Append(p, m)[n] = p[n]
      /\ Append(p, m)[Len(p) + 1] = m
  BY <1>2, AppendProperties
<1>4. DOMAIN Append(p, m) = 1 .. Len(p) + 1
  BY <1>3, LenProperties
<1>5. DOMAIN p \subseteq DOMAIN Append(p, m) /\ Len(p) + 1 \in DOMAIN Append(p, m)
  BY <1>1, <1>4
<1> QED BY <1>1, <1>3, <1>5 DEF Holds

(* A decision leaves the water attended, whoever runs in between. *)
LEMMA DecideAttends ==
  ASSUME World, NEW z \in Zones, NEW f \in Frames, NEW e \in Events,
         Owning(f.c.state, f.c.session), Heeded(f.c, e),
         e.kind = "OnConfirmed" => e.at # NoTime \/ f.c.session.confirmed = NoTime,
         NEW o \in DecideAndApply(z, f, e)
  PROVE  /\ Attended(o[1].c) /\ o[1].c.sessionTask = f.c.sessionTask
         /\ Due(f.c) => Due(o[1].c)
<1> DEFINE i == Input(z, f)
           d == Decide(i, e)
           c == f.c
           b == o[1].c
<1>1. Decided(z, f, d, o[1])
  BY OutcomesDecided
<1>2. /\ i \in Situations /\ Owning(i.state, i.session)
      /\ i.state = c.state /\ i.session = c.session
  BY InputTyped
<1> HIDE DEF i
<1>3. Attends(i, e, d)
  BY <1>2, DecisionsAttend
<1> HIDE DEF d
<1>4. b.sessionTask = c.sessionTask /\ Holds(c.inbox, b.inbox)
  BY <1>1, GrownHolds DEF Decided, SameTask
<1> SUFFICES ASSUME b.state = "WATERING"
             PROVE  \/ b.offRequested \/ b.sessionTask = "off"
                    \/ b.session.pending = NoReason /\ Coming(b, Phase(b.session))
  BY <1>4, StaysDue DEF Attended
<1>5. /\ d.state = "WATERING" /\ b.session = d.session
      /\ RunsOn(c, d, b) /\ \A n \in DOMAIN d.actions : Urges(d.actions[n], b)
  BY <1>1 DEF Decided
<1>6. CASE Has(d, ExecuteOff)
  BY <1>5, <1>6 DEF Has, ExecuteOff, Urges
<1>7. CASE d.session.pending = NoReason /\ Arms(d, Phase(d.session))
  BY <1>5, <1>7 DEF Arms, Urges, Coming
<1>8. CASE /\ i.state = "WATERING" /\ d.session.pending = i.session.pending
           /\ d.session.pending = NoReason =>
                /\ Phase(d.session) = Phase(i.session)
                /\ e.kind \notin {EndOfPhase[Phase(i.session)], "ConfigChangedPrepare"}
  <2>1. CASE c.offRequested \/ c.sessionTask = "off"
    BY <1>4, <1>5, <2>1 DEF RunsOn
  <2>2. CASE ~(c.offRequested \/ c.sessionTask = "off")
    <3>1. c.session.pending = NoReason /\ d.session.pending = NoReason
      BY <1>2, <1>8, <2>2 DEF Heeded
    <3>2. Coming(c, Phase(c.session)) /\ Phase(d.session) = Phase(c.session)
      BY <1>2, <1>8, <2>2, <3>1 DEF Heeded
    <3>3. Phase(d.session) = "ON_CONFIRM_TIMEOUT" => d.session.confirmed = NoTime
      BY DEF Phase
    <3>4. Armed(c, Phase(c.session)) => Armed(b, Phase(c.session))
      BY <1>2, <1>5, <1>8, <3>2, <3>3 DEF RunsOn
    <3>5. Coming(b, Phase(c.session))
      BY <1>4, <3>2, <3>4 DEF Coming, Holds
    <3> QED BY <1>5, <3>1, <3>2, <3>5
  <2> QED BY <2>1, <2>2
<1> QED BY <1>3, <1>5, <1>6, <1>7, <1>8 DEF Attends

(* Nothing but bookkeeping: the fields that attend to water stay. *)
LEMMA SameMinds ==
  ASSUME NEW c, NEW d, d.state = c.state, Holds(c.inbox, d.inbox),
         d.session = c.session, d.offRequested = c.offRequested, d.timers = c.timers,
         c.sessionTask = "off" => d.sessionTask = "off"
  PROVE  Minds(c, d)
BY DEF Minds, Armed

LEMMA HoldsSame ==
  ASSUME NEW p
  PROVE  Holds(p, p)
BY DEF Holds

(* A field that nothing here depends on is set. *)
Retuned(f, g) ==
    \/ \E on : g = [f EXCEPT !.c.enabled = on]
    \/ \E obs : g = [f EXCEPT !.c.obs = obs]
    \/ \E task : g = [f EXCEPT !.c.slotTask = task]

(* The bookkeeping of a controller's tasks. *)
LEMMA TasksMind ==
  ASSUME NEW f \in Frames
  PROVE  /\ f.c.sessionTask # "off" => Minds(f.c, Finish(f).c)
         /\ Finish(f).c.sessionTask = "resting"
         /\ \A g : Retuned(f, g) => Minds(f.c, g.c) /\ g.c.sessionTask = f.c.sessionTask
<1>1. ASSUME NEW g, g.c.inbox = f.c.inbox, g.c.state = f.c.state, g.c.session = f.c.session,
             g.c.offRequested = f.c.offRequested, g.c.timers = f.c.timers,
             f.c.sessionTask = "off" => g.c.sessionTask = "off"
      PROVE  Minds(f.c, g.c)
  BY <1>1, HoldsSame, SameMinds
<1>2. /\ f.c.sessionTask # "off" => Minds(f.c, Finish(f).c)
      /\ Finish(f).c.sessionTask = "resting"
  BY <1>1 DEF Finish, Frames, Controllers
<1>3. ASSUME NEW on, NEW g, g = [f EXCEPT !.c.enabled = on]
      PROVE  Minds(f.c, g.c) /\ g.c.sessionTask = f.c.sessionTask
  BY <1>1, <1>3 DEF Frames, Controllers
<1>4. ASSUME NEW obs, NEW g, g = [f EXCEPT !.c.obs = obs]
      PROVE  Minds(f.c, g.c) /\ g.c.sessionTask = f.c.sessionTask
  BY <1>1, <1>4 DEF Frames, Controllers
<1>5. ASSUME NEW task, NEW g, g = [f EXCEPT !.c.slotTask = task]
      PROVE  Minds(f.c, g.c) /\ g.c.sessionTask = f.c.sessionTask
  BY <1>1, <1>5 DEF Frames, Controllers
<1> QED BY <1>2, <1>3, <1>4, <1>5 DEF Retuned

(* An OFF operation begins unless one has already come to its end. *)
LEMMA BeginAttends ==
  ASSUME NEW z, NEW f \in Frames
  PROVE  LET g == BeginOffOperation(z, f) IN
         /\ g.c.state = f.c.state /\ g.c.sessionTask \in {"resting", "off"}
         /\ f.c.offOperation \in {"none", "running"} => g.c.sessionTask = "off"
BY DEF BeginOffOperation, Frames, Controllers

(* With OFF under way the zone is tended. *)
LEMMA OffTends ==
  ASSUME NEW c, c.sessionTask = "off"
  PROVE  Tended(c)
BY DEF Tended, Attended, Due

(* The compensation of a withdrawn command turns the water off. *)
LEMMA CompensateTends ==
  ASSUME World, NEW z \in Zones, NEW f \in Frames, NEW w, NEW l, Safe(z, f.c, f.s, w, l),
         Commanding(f.c), NEW configurationChanged, NEW serviceFailed
  PROVE  Tended(Compensate(z, f, configurationChanged, serviceFailed).c)
<1> DEFINE i == Input(z, f)
           e == CompensationEvent(f, configurationChanged, serviceFailed)
           d == Decide(i, e)
           g == [f EXCEPT !.c.state = d.state, !.c.fault = d.fault,
                          !.c.session = IF d.session # NoSession THEN d.session ELSE @]
           h == [g EXCEPT !.c.offRequested = FALSE]
           k == BeginOffOperation(z, h)
<1>1. /\ f.c.session # NoSession /\ f.c.offOperation = "none"
      /\ f.c.state = "WATERING" \/ f.c.state = "FAULT"
      /\ Owning(f.c.state, f.c.session)
  BY DEF Safe, TaskKnown, Commanding
<1>2. /\ e \in Events
      /\ e.kind \in {"ConfigChangedPrepare", "OnConfirmTimeout", "WatchdogFired",
                     "MoistureReport"}
      /\ e.kind = "WatchdogFired" => f.c.session.freshUntil <= now
      /\ e.kind = "MoistureReport" => e.obs.class # "VALID"
  BY <1>1, CompensationTyped
<1>3. /\ i \in Situations /\ Owning(i.state, i.session)
      /\ i.state = f.c.state /\ i.session = f.c.session /\ i.now = now
  BY <1>1, InputTyped
<1> HIDE DEF i, e
<1>4. Typed(d)
  BY <1>2, <1>3, DecisionsJustified
<1>5. \A n \in DOMAIN d.actions : d.actions[n] \in {Persist, ExecuteOff}
  BY <1>1, <1>2, <1>3, OnlyOff
<1> HIDE DEF d
<1>6. Compensate(z, f, configurationChanged, serviceFailed) = k
  BY <1>1, <1>5 DEF Compensate, AdoptTermination, i, e, d
<1>7. g \in Frames /\ g.c.offOperation = "none"
  <2> DEFINE session == IF d.session # NoSession THEN d.session ELSE f.c.session
  <2>1. g = [f EXCEPT !.c.state = d.state, !.c.fault = d.fault, !.c.session = session]
    BY DEF Frames
  <2>2. session \in Sessions
    BY <1>4 DEF Typed, Frames, Controllers
  <2> HIDE DEF g, session
  <2> QED BY <1>1, <1>4, <2>1, <2>2 DEF Frames, Controllers, Typed
<1> HIDE DEF g
<1>8. h \in Frames /\ h.c.offOperation = "none"
  BY ZenonT(40), <1>7 DEF Frames, Controllers
<1> HIDE DEF h
<1>9. k.c.sessionTask = "off"
  BY <1>8, BeginAttends
<1> QED BY <1>6, <1>9, OffTends

(* A controller gives up, if it must, and compensates. *)
LEMMA WithdrawTends ==
  ASSUME World, NEW z \in Zones, NEW f \in Frames, NEW w, NEW l, Safe(z, f.c, f.s, w, l),
         Commanding(f.c), NEW configurationChanged, NEW serviceFailed
  PROVE  Tended(Compensate(z, Quiesce(f), configurationChanged, serviceFailed).c)
<1>1. Quiesce(f) \in Frames /\ Quiesce(f).s = f.s /\ Alike(f.c, Quiesce(f).c)
  BY QuiesceAlike
<1>2. Safe(z, Quiesce(f).c, Quiesce(f).s, w, l) /\ Commanding(Quiesce(f).c)
  BY <1>1, AlikeSafe DEF Alike, SameTask, Commanding
<1> QED BY <1>1, <1>2, CompensateTends

(* A controller that gives up its timers is about to turn its water off. *)
LEMMA QuiesceAttends ==
  ASSUME NEW z, NEW f \in Frames, Attended(f.c), f.c.sessionTask = "gate",
         NEW b, b = [f EXCEPT !.c.sessionTask = "resting"]
  PROVE  Heeded(Quiesce(b).c, RefusalEvent(z, f))
<1> DEFINE timers == {}
           token == NoToken
           pending == 0
           g == Quiesce(b)
<1>1. CASE f.c.eligible /\ ~f.c.persistFailed
  <2>1. g = b
    BY <1>1 DEF Quiesce, Frames, Controllers
  <2>2. Minds(f.c, b.c)
    BY HoldsSame, SameMinds DEF Frames, Controllers
  <2> QED BY <2>1, <2>2, AttendedHeeds, MindsAttends
<1>2. CASE ~(f.c.eligible /\ ~f.c.persistFailed)
  <2>1. RefusalEvent(z, f) = Event("ConfigChangedPrepare")
    BY <1>2 DEF RefusalEvent, ConfigurationAuthority
  <2>2. g = [b EXCEPT !.c.eligible = FALSE, !.c.pendingManual = pending,
                      !.c.timers = timers, !.c.watchdog = token]
    BY <1>2 DEF Quiesce, Frames, Controllers
  <2> HIDE DEF g, timers, token, pending
  <2>3. /\ g.c.state = f.c.state /\ g.c.session = f.c.session
        /\ g.c.offRequested = f.c.offRequested
    BY <2>2 DEF Frames, Controllers
  <2>4. Event("ConfigChangedPrepare").kind = "ConfigChangedPrepare"
    BY DEF Event
  <2> QED BY <2>1, <2>3, <2>4 DEF Attended, Heeded, g
<1> QED BY <1>1, <1>2

(* _final_gate *)
LEMMA FinalGateTends ==
  ASSUME World, NEW z \in Zones, NEW f \in Frames, NEW w, NEW l, Safe(z, f.c, f.s, w, l),
         f.c.sessionTask = "gate", Attended(f.c), NEW o \in FinalGate(z, f)
  PROVE  Tended(o[1].c)
<1> DEFINE back == [f EXCEPT !.c.sessionTask = "resting"]
           marker == [at |-> now, seen |-> NoTime, mine |-> TRUE]
           g == [f EXCEPT !.c.sessionTask = "call", !.c.inflightOn = marker]
           quiet == Quiesce(back)
           watchdog == Watchdog(f.c.armedWatchdog)
           refusal == RefusalEvent(z, f)
<1>1. \/ o = <<back, 0>>
      \/ o \in DecideAndApply(z, back, watchdog)
      \/ o \in DecideAndApply(z, quiet, refusal)
      \/ o = <<g, 0>>
  BY DEF FinalGate, Quiet
<1>2. watchdog \in Events /\ watchdog.kind # "OnConfirmed"
  BY DEF Watchdog, Events, Frames, Controllers
<1>3. refusal \in Events /\ refusal.kind # "OnConfirmed"
  <2>1. refusal \in Events
    BY RefusalTyped
  <2>2. \A k : Event(k).kind = k
    BY DEF Event
  <2>3. \A t : Watchdog(t).kind = "WatchdogFired"
    BY DEF Watchdog
  <2>4. \A obs : Report(obs).kind = "MoistureReport"
    BY DEF Report
  <2> QED BY <2>1, <2>2, <2>3, <2>4 DEF RefusalEvent
<1>4. /\ back \in Frames /\ Minds(f.c, back.c) /\ back.c.sessionTask = "resting"
      /\ Owning(back.c.state, back.c.session)
  <2>1. /\ back \in Frames /\ back.c.sessionTask = "resting" /\ back.c.inbox = f.c.inbox
        /\ back.c.state = f.c.state /\ back.c.session = f.c.session
        /\ back.c.offRequested = f.c.offRequested /\ back.c.timers = f.c.timers
    BY DEF Frames, Controllers
  <2> HIDE DEF back
  <2> QED BY <2>1, HoldsSame, SameMinds DEF Safe, TaskKnown
<1>5. Heeded(quiet.c, refusal)
  BY QuiesceAttends
<1>6. Minds(f.c, g.c) /\ g.c.sessionTask = "call"
  <2>1. /\ g.c.sessionTask = "call" /\ g.c.inbox = f.c.inbox
        /\ g.c.state = f.c.state /\ g.c.session = f.c.session
        /\ g.c.offRequested = f.c.offRequested /\ g.c.timers = f.c.timers
    BY DEF Frames, Controllers
  <2> HIDE DEF g
  <2> QED BY <2>1, HoldsSame, SameMinds
<1> HIDE DEF back, g, marker, watchdog, refusal
<1>7. /\ quiet \in Frames /\ quiet.c.sessionTask = "resting"
      /\ Owning(quiet.c.state, quiet.c.session)
  <2>1. quiet \in Frames /\ Alike(back.c, quiet.c)
    BY <1>4, QuiesceAlike
  <2> QED BY <1>4, <2>1 DEF Alike, SameTask, Owning
<1> HIDE DEF quiet
<1>8. ASSUME NEW b \in Frames, b.c.sessionTask = "resting", Owning(b.c.state, b.c.session),
             NEW e \in Events, e.kind # "OnConfirmed", Heeded(b.c, e),
             o \in DecideAndApply(z, b, e)
      PROVE  Tended(o[1].c)
  <2>1. Due(b.c)
    BY <1>8 DEF Due
  <2> QED BY <1>8, <2>1, DecideAttends DEF Tended
<1>9. Attended(back.c) /\ Attended(g.c) /\ Due(back.c) /\ Due(g.c)
  BY <1>4, <1>6, MindsAttends DEF Due
<1>10. CASE o = <<back, 0>> \/ o = <<g, 0>>
  BY <1>9, <1>10 DEF Tended
<1>11. CASE o \in DecideAndApply(z, back, watchdog)
  BY <1>2, <1>4, <1>8, <1>9, <1>11, AttendedHeeds
<1>12. CASE o \in DecideAndApply(z, quiet, refusal)
  BY <1>3, <1>5, <1>7, <1>8, <1>12
<1> QED BY <1>1, <1>10, <1>11, <1>12

(* command_commit *)
LEMMA CommandCommitTends ==
  ASSUME World, NEW z \in Zones, NEW f \in Frames, NEW w, NEW l, Safe(z, f.c, f.s, w, l),
         Clean(f.c, w, l), f.c.sessionTask = "commit", Attended(f.c),
         NEW o \in CommandCommit(z, f)
  PROVE  Tended(o[1].c)
<1> DEFINE e == Acknowledgement(f)
<1>1. \/ o[1] = Withdrawn(z, f) \/ o[1] = Finish(f)
      \/ \E p \in DecideAndApply(z, f, e) :
           /\ f.c.inflightOn.seen # NoTime
           /\ o[1] = Finish(p[1]) \/ o[1] = Withdrawn(z, p[1])
      \/ StoreMayFail /\ o[1] = Unsaved(z, f)
  BY CommandCommitOutcomes
<1>2. Commanding(f.c) /\ Owning(f.c.state, f.c.session)
  BY DEF Commanding, Safe, TaskKnown
<1>3. ASSUME NEW g \in Frames, Attended(g.c), Safe(z, g.c, g.s, w, l), g.c.sessionTask = "commit"
      PROVE  Tended(Finish(g).c) /\ Tended(Withdrawn(z, g).c)
  <2>1. Attended(Finish(g).c) /\ Due(Finish(g).c)
    BY <1>3, TasksMind, MindsAttends DEF Due
  <2>2. Tended(Withdrawn(z, g).c)
    BY <1>3, WithdrawTends DEF Commanding, Withdrawn
  <2> QED BY <2>1, <2>2 DEF Tended
<1>4. CASE o[1] = Withdrawn(z, f) \/ o[1] = Finish(f)
  BY <1>3, <1>4
<1>5. ASSUME NEW p \in DecideAndApply(z, f, e), f.c.inflightOn.seen # NoTime,
             o[1] = Finish(p[1]) \/ o[1] = Withdrawn(z, p[1])
      PROVE  Tended(o[1].c)
  <2>1. e \in Events /\ e.kind = "OnConfirmed" /\ e.at # NoTime
    <3>1. f.c.inflightOn.seen \in Int
      BY DEF Frames, Controllers, Markers
    <3>2. \A t : At("OnConfirmed", t).at = t
      BY DEF At
    <3> QED BY <1>5, <3>1, <3>2, AcknowledgedTyped DEF Acknowledgement
  <2> HIDE DEF e
  <2>2. Leads(z, f, p[1], w, l)
    BY <1>5, <2>1, DecideSafe DEF Fits, OffSeen
  <2>3. Attended(p[1].c)
    BY <1>2, <1>5, <2>1, AttendedHeeds, DecideAttends
  <2>4. p[1] \in Frames /\ Safe(z, p[1].c, p[1].s, w, l) /\ p[1].c.sessionTask = "commit"
    BY <2>2 DEF Leads, SameTask
  <2> QED BY <1>3, <1>5, <2>3, <2>4
<1>6. CASE StoreMayFail /\ o[1] = Unsaved(z, f)
  <2> DEFINE g == HandlePersistFailure(z, f)
  <2>1. g \in Frames /\ Safe(z, g.c, g.s, w, l) /\ Commanding(g.c)
    BY <1>2, <1>6, PersistFailureSafe DEF Clean
  <2> HIDE DEF g
  <2>2. Tended(Compensate(z, g, FALSE, TRUE).c)
    BY <2>1, CompensateTends
  <2> QED BY <1>6, <2>2 DEF Unsaved, g
<1> QED BY <1>1, <1>4, <1>5, <1>6

(* _async_actuator_change: our ON is acknowledged only once. *)
LEMMA ActuatorChangeTends ==
  ASSUME World, NEW z \in Zones, NEW f \in Frames, Owning(f.c.state, f.c.session), Tended(f.c),
         NEW m \in Changes, NEW o \in ActuatorChange(z, f, m)
  PROVE  Tended(o[1].c)
<1> DEFINE key == <<z, "actuator_not_proven_off">>
           t == BlockerGone(f.s, key)
           g == [f EXCEPT !.s = t]
           off == At("ExternalActuatorOff", m.at)
           on == At("OnConfirmed", m.at)
           gone == Event("ActuatorBecameUnavailable")
           theirs == Event("ExternalActuatorOn")
<1>1. \/ o = <<f, 0>> \/ o = <<f, 1>> \/ o = <<g, 0>>
      \/ o \in DecideAndApply(z, f, gone) \/ o \in DecideAndApply(z, f, theirs)
      \/ o \in DecideAndApply(z, f, on) /\ f.c.session.confirmed = NoTime
      \/ o \in DecideAndApply(z, g, off)
  BY DEF ActuatorChange, Quiet
<1>2. off \in Events /\ on \in Events /\ off.kind # "OnConfirmed"
  <2>1. m.at \in Int
    BY DEF Changes
  <2> QED BY <2>1, AcknowledgedTyped
<1>3. /\ gone \in Events /\ theirs \in Events
      /\ gone.kind # "OnConfirmed" /\ theirs.kind # "OnConfirmed"
  BY DEF Event, Events, PlainKinds
<1>4. g \in Frames /\ g.c = f.c
  <2>1. key \in KeysOf(z) /\ f.s \in Slots
    BY KeysTyped DEF KeyReasons, Frames
  <2> HIDE DEF key
  <2>2. t \in Slots
    BY <2>1, BlockerMoves
  <2>3. g = [f EXCEPT !.s = t]
    OBVIOUS
  <2> HIDE DEF t, g
  <2> QED BY <2>2, <2>3 DEF Frames
<1> HIDE DEF off, on, gone, theirs, g
<1>5. Attended(f.c) /\ Due(f.c) /\ \A e : Heeded(f.c, e)
  BY AttendedHeeds DEF Tended
<1>6. CASE o = <<f, 0>> \/ o = <<f, 1>> \/ o = <<g, 0>>
  BY <1>4, <1>6
<1>7. CASE o \in DecideAndApply(z, f, gone) \/ o \in DecideAndApply(z, f, theirs)
  BY <1>3, <1>5, <1>7, DecideAttends DEF Tended
<1>8. CASE o \in DecideAndApply(z, f, on) /\ f.c.session.confirmed = NoTime
  BY <1>2, <1>5, <1>8, DecideAttends DEF Tended
<1>9. CASE o \in DecideAndApply(z, g, off)
  BY <1>2, <1>4, <1>5, <1>9, DecideAttends DEF Tended
<1> QED BY <1>1, <1>6, <1>7, <1>8, <1>9

(* The message m was taken from the inbox of c and is about to be handled. *)
Taken(c, m) == Heeded(c, m) /\ (m.kind \in {"FinalGate", "CommandCommit"} \/ Due(c))

(* Every handler leaves the zone tended. *)
LEMMA HandlerTends ==
  ASSUME World, NEW z \in Zones, NEW f \in Frames, NEW w, NEW l, Safe(z, f.c, f.s, w, l),
         NEW m \in Messages, OfTask(m) => Clean(f.c, w, l) /\ AwaitsIt(f.c, m),
         Flows(w, l) => Harmless(f.c, m), Taken(f.c, m), NEW o \in Handle(z, f, m)
  PROVE  Tended(o[1].c)
<1>1. Owning(f.c.state, f.c.session)
  BY DEF Safe, TaskKnown
<1>2. m.kind \in {"FinalGate", "CommandCommit", "ActuatorChange", "SlotOffer"} => Attended(f.c)
  <2>1. \A s : EndOfPhase[Phase(s)] \in {"PulseDeadlineReached", "ManualDeadlineReached",
                                         "OnConfirmTimeout"}
    BY DEF Phase, EndOfPhase
  <2> QED BY <2>1 DEF Taken, Heeded, Attended
<1>3. m.kind \notin {"FinalGate", "CommandCommit"} => Due(f.c)
  BY DEF Taken
<1>4. CASE m.kind = "FinalGate"
  <2>1. o \in FinalGate(z, f) /\ f.c.sessionTask = "gate"
    BY <1>4 DEF Handle, OfTask, TaskKinds, AwaitsIt
  <2> QED BY <1>2, <1>4, <2>1, FinalGateTends
<1>5. CASE m.kind = "CommandCommit"
  <2>1. o \in CommandCommit(z, f) /\ Clean(f.c, w, l) /\ f.c.sessionTask = "commit"
    BY <1>5 DEF Handle, OfTask, TaskKinds, AwaitsIt
  <2> QED BY <1>2, <1>5, <2>1, CommandCommitTends
<1>6. CASE m.kind = "ActuatorChange"
  <2>1. o \in ActuatorChange(z, f, m) /\ m \in Changes /\ Tended(f.c)
    BY <1>2, <1>3, <1>6, MessageKinds DEF Handle, Tended
  <2> QED BY <1>1, <2>1, ActuatorChangeTends
<1>7. CASE m.kind = "SlotOffer"
  <2>1. PICK p \in DecideAndApply(z, f, m.event) :
           o = <<[p[1] EXCEPT !.c.slotTask = "none"], p[2]>>
    BY <1>7 DEF Handle, Then
  <2>2. m.event \in Events /\ m.event.kind # "OnConfirmed" /\ Fits(f.c, m.event, w, l)
    BY <1>7, MessageKinds DEF Offers, Fits, OffSeen
  <2>3. p[1] \in Frames
    BY <2>2, DecideSafe DEF Leads
  <2>4. Tended(p[1].c)
    BY <1>1, <1>2, <1>3, <1>7, <2>2, AttendedHeeds, DecideAttends DEF Tended
  <2>5. /\ Minds(p[1].c, o[1].c) /\ o[1].c.sessionTask = p[1].c.sessionTask
    <3> DEFINE q == o[1]
    <3>1. Retuned(p[1], q)
      BY <2>1 DEF Retuned
    <3> HIDE DEF q
    <3>2. Minds(p[1].c, q.c) /\ q.c.sessionTask = p[1].c.sessionTask
      BY <2>3, <3>1, TasksMind
    <3> QED BY <3>2 DEF q
  <2> QED BY <2>4, <2>5, MindsAttends, StaysDue DEF Tended, Minds
<1>8. CASE m.kind \in {"OffConfirmed", "OffNotConfirmed"}
  <2>1. PICK p \in DecideAndApply(z, f, m), result \in {"proven", "failed"} :
           o = <<EndOffOperation(p[1], result), p[2]>>
    BY <1>8 DEF Handle, Then
  <2>2. m \in Events /\ f.c.sessionTask = "off"
    BY <1>8, MessageKinds DEF Posted, OfTask, TaskKinds, AwaitsIt, Safe, TaskKnown
  <2>3. Fits(f.c, m, w, l)
    BY <1>8, <2>2 DEF Fits, OffSeen, Commanding, Harmless
  <2>4. p[1] \in Frames /\ p[1].c.state # "WATERING"
    BY <1>8, <2>2, <2>3, DecideSafe DEF Leads
  <2>5. o[1].c.state = p[1].c.state /\ o[1].c.sessionTask = "resting"
    BY <2>1, <2>4 DEF EndOffOperation, Frames, Controllers
  <2> QED BY <2>4, <2>5 DEF Tended, Attended, Due
<1>9. CASE m.kind \notin {"FinalGate", "CommandCommit", "ActuatorChange", "SlotOffer",
                          "OffConfirmed", "OffNotConfirmed"}
  <2>1. m \in Events /\ m.kind # "OnConfirmed" /\ Heeded(f.c, m) /\ Due(f.c)
    BY <1>3, <1>9, MessageKinds DEF Posted, Taken
  <2>2. ASSUME NEW g, g = [f EXCEPT !.c.obs = m.obs]
               \/ g = [f EXCEPT !.c.enabled = m.kind = "EnableRequested"]
        PROVE  /\ Heeded(g.c, m) /\ Due(g.c) /\ Owning(g.c.state, g.c.session)
               /\ Attended(f.c) => Attended(g.c)
    <3>1. Minds(f.c, g.c) /\ g.c.sessionTask = f.c.sessionTask
      <4>1. Retuned(f, g)
        BY <2>2 DEF Retuned
      <4> QED BY <4>1, TasksMind
    <3>2. Owning(g.c.state, g.c.session)
      BY <1>1, <2>2 DEF Frames, Controllers
    <3> QED BY <2>1, <3>1, <3>2, MindsAttends, StaysDue DEF Minds
  <2>3. CASE m.kind = "MoistureReport"
    <3> DEFINE g == [f EXCEPT !.c.obs = m.obs]
    <3>1. o = <<g, 0>> \/ o \in DecideAndApply(z, g, m)
      BY <2>3 DEF Handle, Moisture, Quiet
    <3>2. g \in Frames
      <4>1. m.obs \in Reports
        BY <2>1, <2>3 DEF Events, PlainKinds
      <4> QED BY <4>1 DEF Frames, Controllers
    <3>3. Heeded(g.c, m) /\ Due(g.c) /\ Owning(g.c.state, g.c.session) /\ Attended(g.c)
      <4>1. \A s : EndOfPhase[Phase(s)] # "MoistureReport"
        BY DEF Phase, EndOfPhase
      <4>2. Attended(f.c)
        BY <2>1, <2>3, <4>1 DEF Heeded, Attended
      <4> QED BY <2>2, <4>2
    <3> HIDE DEF g
    <3> QED BY <2>1, <3>1, <3>2, <3>3, DecideAttends DEF Tended
  <2>4. CASE m.kind \in {"EnableRequested", "DisableRequested"}
    <3> DEFINE g == [f EXCEPT !.c.enabled = m.kind = "EnableRequested"]
    <3>1. o \in DecideAndApply(z, g, m)
      BY <2>4 DEF Handle
    <3>2. g \in Frames
      <4>1. (m.kind = "EnableRequested") \in BOOLEAN
        OBVIOUS
      <4> QED BY ZenonT(40), <4>1 DEF Frames, Controllers
    <3>3. Heeded(g.c, m) /\ Due(g.c) /\ Owning(g.c.state, g.c.session)
      BY <2>2
    <3> HIDE DEF g
    <3> QED BY <2>1, <3>1, <3>2, <3>3, DecideAttends DEF Tended
  <2>5. CASE m.kind \notin {"MoistureReport", "EnableRequested", "DisableRequested"}
    <3>1. o \in DecideAndApply(z, f, m)
      BY <1>9, <2>5 DEF Handle
    <3> QED BY <1>1, <2>1, <3>1, DecideAttends DEF Tended
  <2> QED BY <2>3, <2>4, <2>5
<1> QED BY <1>4, <1>5, <1>6, <1>7, <1>8, <1>9

(* A message is posted: what attended to the water goes on. *)
LEMMA PostMinds ==
  ASSUME NEW f \in Frames, NEW m
  PROVE  /\ Minds(f.c, Post(f, m).c) /\ Post(f, m).c.sessionTask = f.c.sessionTask
         /\ \E n \in DOMAIN Post(f, m).c.inbox : Post(f, m).c.inbox[n] = m
<1> DEFINE q == Append(f.c.inbox, m)
           g == Post(f, m)
<1>1. Holds(f.c.inbox, q) /\ \E n \in DOMAIN q : q[n] = m
  BY AppendHolds DEF Frames, Controllers
<1>2. g = [f EXCEPT !.c = [f.c EXCEPT !.inbox = q]]
  BY DEF Post, Send
<1> HIDE DEF q, g
<1>3. /\ g.c.inbox = q /\ g.c.sessionTask = f.c.sessionTask /\ g.c.state = f.c.state
      /\ g.c.session = f.c.session /\ g.c.offRequested = f.c.offRequested
      /\ g.c.timers = f.c.timers
  BY <1>2 DEF Frames, Controllers
<1> QED BY <1>1, <1>3, SameMinds DEF g

(* The ON call is over: the command is committed next, or compensated. *)
LEMMA AfterOnCallTends ==
  ASSUME World, NEW z \in Zones, NEW f \in Frames, NEW w, NEW l, Safe(z, f.c, f.s, w, l),
         f.c.sessionTask = "call", Attended(f.c), NEW serviceFailed \in BOOLEAN
  PROVE  Tended(AfterOnCall(z, f, serviceFailed).c)
<1> DEFINE g == [f EXCEPT !.c = RecordPossibleCommand(f.c)]
           m == Event("CommandCommit")
           p == Post(g, m)
           h == [p EXCEPT !.c.sessionTask = "commit"]
           changed == ~RecheckConfiguration(g)
<1>1. \/ AfterOnCall(z, f, serviceFailed) = Compensate(z, Quiesce(g), changed, serviceFailed)
      \/ AfterOnCall(z, f, serviceFailed) = h
  BY DEF AfterOnCall
<1>2. Commanding(f.c) /\ f.c.session # NoSession
  BY DEF Commanding, Safe, TaskKnown
<1>3. g \in Frames /\ g.s = f.s /\ Alike(f.c, g.c) /\ g.c.inbox = f.c.inbox
  BY <1>2, RecordedAlike
<1>4. Minds(f.c, g.c)
  <2>1. /\ g.c.offRequested = f.c.offRequested /\ g.c.timers = f.c.timers
        /\ g.c.session.pending = f.c.session.pending
        /\ g.c.session.confirmed = f.c.session.confirmed
        /\ g.c.session.mode = f.c.session.mode
    <3>1. f.c.session \in OpenSessions
      BY <1>2 DEF Frames, Controllers, Sessions
    <3> QED BY <3>1 DEF RecordPossibleCommand, Frames, Controllers, OpenSessions
  <2> HIDE DEF g
  <2>2. Phase(g.c.session) = Phase(f.c.session)
    BY <2>1 DEF Phase
  <2> QED BY <1>3, <2>1, <2>2, HoldsSame DEF Minds, Armed, Alike, SameTask
<1> HIDE DEF g, changed
<1>5. Tended(Compensate(z, Quiesce(g), changed, serviceFailed).c)
  <2>1. Safe(z, g.c, g.s, w, l) /\ Commanding(g.c)
    BY <1>2, <1>3, AlikeSafe DEF Alike, SameTask, Commanding
  <2> QED BY <1>3, <2>1, WithdrawTends
<1>6. Tended(h.c)
  <2>1. /\ Minds(g.c, p.c) /\ \E n \in DOMAIN p.c.inbox : p.c.inbox[n] = m
        /\ p.c.sessionTask = g.c.sessionTask /\ g.c.sessionTask = "call"
    BY <1>3, PostMinds DEF Alike, SameTask
  <2>2. m.kind = "CommandCommit" /\ m \in Messages
    BY DEF Event, Messages
  <2> HIDE DEF m
  <2>3. p \in Frames
    BY <1>3, <2>2, PostTyped
  <2> HIDE DEF p
  <2>4. /\ h.c.inbox = p.c.inbox /\ h.c.sessionTask = "commit" /\ h.c.state = p.c.state
        /\ h.c.session = p.c.session /\ h.c.offRequested = p.c.offRequested
        /\ h.c.timers = p.c.timers
    BY <2>3 DEF Frames, Controllers
  <2> HIDE DEF h
  <2>5. Minds(p.c, h.c)
    BY <1>3, <2>1, <2>4, HoldsSame, SameMinds
  <2>6. Due(h.c)
    BY <2>1, <2>2, <2>4 DEF Due
  <2> QED BY <1>4, <2>1, <2>5, <2>6, MindsAttends DEF Tended
<1> QED BY <1>1, <1>5, <1>6

(* Every zone is tended. *)
Cared == \A z \in Zones : Tended(zone[z])

(* One zone moves on, tended. *)
LEMMA CommitTends ==
  ASSUME Good, Cared, NEW z \in Zones, NEW g, Commit(z, g), Tended(g.c)
  PROVE  Cared'
<1>1. ASSUME NEW y \in Zones
      PROVE  Tended(zone'[y])
  <2>1. CASE y = z
    <3>1. zone'[y] = g.c
      BY <2>1 DEF Commit, Good
    <3> QED BY <3>1
  <2>2. CASE y # z
    <3>1. zone'[y] = zone[y]
      BY <2>2 DEF Commit, Good
    <3> QED BY <3>1 DEF Cared
  <2> QED BY <2>1, <2>2
<1> QED BY <1>1 DEF Cared

(* One zone keeps what attends to its water, and its task its message. *)
LEMMA CommitMinds ==
  ASSUME Good, Cared, NEW z \in Zones, NEW g, Commit(z, g), Minds(zone[z], g.c),
         g.c.sessionTask = zone[z].sessionTask
  PROVE  Cared'
<1>1. Attended(zone[z]) /\ Due(zone[z])
  BY DEF Cared, Tended
<1>2. Attended(g.c) /\ Due(g.c)
  BY <1>1, MindsAttends, StaysDue DEF Minds
<1> QED BY <1>2, CommitTends DEF Tended

(* The first message is taken. *)
LEMMA TailTaken ==
  ASSUME NEW c \in Controllers, c.inbox # << >>, Tended(c),
         NEW m, m = Head(c.inbox), NEW d, d = [c EXCEPT !.inbox = Tail(c.inbox)]
  PROVE  Taken(d, m)
<1> DEFINE p == c.inbox
           q == Tail(c.inbox)
<1>1. p \in Seq(Messages)
  BY DEF Controllers
<1>2. Len(p) \in Nat /\ DOMAIN p = 1 .. Len(p) /\ m = p[1]
  <2>1. p # << >> /\ m = Head(p)
    OBVIOUS
  <2> HIDE DEF p
  <2> QED BY <1>1, <2>1, InboxTyped
<1>3. DOMAIN q = 1 .. Len(p) - 1 /\ \A n \in DOMAIN q : q[n] = p[n + 1]
  <2>1. q \in Seq(Messages) /\ Len(q) = Len(p) - 1 /\ \A n \in 1 .. Len(q) : q[n] = p[n + 1]
    BY <1>1, HeadTailProperties
  <2> HIDE DEF q, p
  <2>2. DOMAIN q = 1 .. Len(q)
    BY <2>1, LenProperties
  <2> QED BY <2>1, <2>2
<1> HIDE DEF p, q
<1>4. \A n \in DOMAIN p : p[n] = m \/ \E k \in DOMAIN q : q[k] = p[n]
  <2>1. ASSUME NEW n \in DOMAIN p, n # 1
        PROVE  n - 1 \in DOMAIN q /\ q[n - 1] = p[n]
    BY <1>2, <1>3, <2>1
  <2> QED BY <1>2, <2>1
<1>5. /\ d.inbox = q /\ d.sessionTask = c.sessionTask /\ d.state = c.state
      /\ d.session = c.session /\ d.offRequested = c.offRequested /\ d.timers = c.timers
  BY DEF Controllers, q
<1>6. Heeded(d, m)
  <2>1. \A k : Event(k).kind = k
    BY DEF Event
  <2>2. \A k : Coming(c, k) => Coming(d, k) \/ m.kind = EndOfPhase[k]
    BY <1>4, <1>5, <2>1 DEF Coming, Armed, p
  <2> QED BY <1>5, <2>2 DEF Tended, Attended, Heeded
<1>7. m.kind \in {"FinalGate", "CommandCommit"} \/ Due(d)
  BY <1>4, <1>5 DEF Tended, Due, p
<1> QED BY <1>6, <1>7 DEF Taken

(* Deliver *)
LEMMA DeliverCares ==
  ASSUME Good, Cared, NEW z \in Zones, Deliver(z)
  PROVE  Cared'
<1>1. PICK f \in Frames, m \in Messages : \E o \in Handle(z, f, m) :
        /\ Safe(z, f.c, f.s, water[z], latent[z])
        /\ zone[z].inbox # << >> /\ m = Head(zone[z].inbox)
        /\ f.c = [zone[z] EXCEPT !.inbox = Tail(zone[z].inbox)]
        /\ OfTask(m) => Clean(f.c, water[z], latent[z]) /\ AwaitsIt(f.c, m)
        /\ Flows(water[z], latent[z]) => Harmless(f.c, m)
        /\ Commit(z, o[1])
  BY DeliverHandles
<1>2. PICK o \in Handle(z, f, m) : Commit(z, o[1])
  BY <1>1
<1>3. Taken(f.c, m)
  BY <1>1, FrameSafe, TailTaken DEF Cared
<1>4. Tended(o[1].c)
  BY <1>1, <1>3, GoodWorld, HandlerTends
<1> QED BY <1>2, <1>4, CommitTends

(* RunSession: OFF begins, for no operation has ended while WATERING. *)
LEMMA RunSessionCares ==
  ASSUME Good, Cared, NEW z \in Zones, RunSession(z)
  PROVE  Cared'
<1> DEFINE f == Frame(z)
           m == Event("FinalGate")
           p == Post(f, m)
           g == [p EXCEPT !.c.onRequested = FALSE, !.c.sessionTask = "gate"]
           h == [f EXCEPT !.c.offRequested = FALSE]
           k == BeginOffOperation(z, h)
<1>1. /\ Commit(z, g) \/ Commit(z, k)
      /\ f.c.sessionTask = "resting"
  BY DEF RunSession
<1>2. /\ f \in Frames /\ f.c = zone[z] /\ Safe(z, f.c, f.s, water[z], latent[z])
      /\ Tended(f.c)
  BY FrameSafe DEF Cared
<1> HIDE DEF f
<1>3. Tended(g.c)
  <2>1. /\ Minds(f.c, p.c) /\ \E n \in DOMAIN p.c.inbox : p.c.inbox[n] = m
        /\ p.c.sessionTask = f.c.sessionTask
    BY <1>2, PostMinds
  <2>2. m.kind = "FinalGate" /\ m \in Messages
    BY DEF Event, Messages
  <2> HIDE DEF m
  <2>3. p \in Frames
    BY <1>2, <2>2, PostTyped
  <2> HIDE DEF p
  <2>4. /\ g.c.inbox = p.c.inbox /\ g.c.sessionTask = "gate" /\ g.c.state = p.c.state
        /\ g.c.session = p.c.session /\ g.c.offRequested = p.c.offRequested
        /\ g.c.timers = p.c.timers
    BY <2>3 DEF Frames, Controllers
  <2> HIDE DEF g
  <2>5. Minds(p.c, g.c)
    BY <1>1, <2>1, <2>4, HoldsSame, SameMinds
  <2>6. Due(g.c)
    BY <2>1, <2>2, <2>4 DEF Due
  <2> QED BY <1>2, <2>1, <2>5, <2>6, MindsAttends DEF Tended
<1>4. Tended(k.c)
  <2>1. h \in Frames /\ h.c.state = f.c.state /\ h.c.offOperation = f.c.offOperation
    BY ZenonT(40), <1>2 DEF Frames, Controllers
  <2> HIDE DEF h
  <2>2. /\ k.c.state = h.c.state /\ k.c.sessionTask \in {"resting", "off"}
        /\ h.c.offOperation \in {"none", "running"} => k.c.sessionTask = "off"
    BY <2>1, BeginAttends
  <2> HIDE DEF k
  <2> QED BY <1>2, <2>1, <2>2 DEF Safe, TaskKnown, Tended, Attended, Due
<1> QED BY <1>1, <1>3, <1>4, CommitTends

(* OnReturns *)
LEMMA OnReturnsCares ==
  ASSUME Good, Cared, NEW z \in Zones, OnReturns(z)
  PROVE  Cared'
<1> DEFINE f == Frame(z)
<1>1. PICK serviceFailed \in BOOLEAN : Commit(z, AfterOnCall(z, f, serviceFailed))
  BY DEF OnReturns
<1>2. /\ f \in Frames /\ Safe(z, f.c, f.s, water[z], latent[z]) /\ f.c.sessionTask = "call"
      /\ Attended(f.c) /\ World
  BY FrameSafe, GoodWorld DEF OnReturns, Cared, Tended
<1> HIDE DEF f
<1>3. Tended(AfterOnCall(z, f, serviceFailed).c)
  BY <1>2, AfterOnCallTends
<1> QED BY <1>1, <1>3, CommitTends

(* OffReturns, OffWakes: the session task goes on waiting for its result. *)
LEMMA OffCares ==
  ASSUME Good, Cared, NEW z \in Zones, OffReturns(z) \/ OffWakes(z)
  PROVE  Cared'
<1> DEFINE c == zone[z]
           e == OffAttemptEnds(z, c)
           until == now + ActuatorConfirmTimeout
           wait == [c EXCEPT !.offRun.phase = "wait", !.offRun.deadline = until]
           d == IF Assessment(z).provenOff THEN e ELSE wait
<1>1. Frame(z) \in Frames /\ Frame(z).c = c /\ c \in Controllers
  BY FrameSafe
<1>2. ASSUME NEW x, Commit(z, [Frame(z) EXCEPT !.c = x]), Minds(c, x),
             x.sessionTask = c.sessionTask
      PROVE  Cared'
  <2> DEFINE g == [Frame(z) EXCEPT !.c = x]
  <2>1. g.c = x
    BY <1>1 DEF Frames
  <2> HIDE DEF g
  <2> QED BY <1>2, <2>1, CommitMinds DEF g
<1>3. Commit(z, [Frame(z) EXCEPT !.c = d]) \/ Commit(z, [Frame(z) EXCEPT !.c = e])
  BY DEF OffReturns, OffWakes
<1>4. ASSUME NEW x, x.inbox = c.inbox \/ \E m : x.inbox = Append(c.inbox, m),
             x.sessionTask = c.sessionTask, x.state = c.state, x.session = c.session,
             x.offRequested = c.offRequested, x.timers = c.timers
      PROVE  Minds(c, x)
  <2>1. c.inbox \in Seq(Messages)
    BY <1>1 DEF Controllers
  <2>2. Holds(c.inbox, c.inbox) /\ \A m : Holds(c.inbox, Append(c.inbox, m))
    BY <2>1, HoldsSame, AppendHolds
  <2>3. Holds(c.inbox, x.inbox)
    BY <1>4, <2>2
  <2> QED BY <1>4, <2>3, SameMinds
<1>5. Minds(c, e) /\ e.sessionTask = c.sessionTask
  <2>1. /\ e.inbox = c.inbox \/ \E m : e.inbox = Append(c.inbox, m)
        /\ e.sessionTask = c.sessionTask /\ e.state = c.state /\ e.session = c.session
        /\ e.offRequested = c.offRequested /\ e.timers = c.timers
    <3> DEFINE again == [c EXCEPT !.offRun = [phase |-> "call", attempt |-> @.attempt + 1,
                                              deadline |-> NoTime]]
               post(m) == [Send(c, m) EXCEPT !.offRun.phase = "reporting"]
    <3>1. e = again \/ \E m : e = post(m)
      BY DEF OffAttemptEnds
    <3>2. ASSUME NEW m
          PROVE  /\ post(m).inbox = Append(c.inbox, m)
                 /\ post(m).sessionTask = c.sessionTask /\ post(m).state = c.state
                 /\ post(m).session = c.session /\ post(m).offRequested = c.offRequested
                 /\ post(m).timers = c.timers
      BY <1>1 DEF Send, Controllers
    <3>3. /\ again.inbox = c.inbox /\ again.sessionTask = c.sessionTask
          /\ again.state = c.state /\ again.session = c.session
          /\ again.offRequested = c.offRequested /\ again.timers = c.timers
      BY <1>1 DEF Controllers
    <3> HIDE DEF again, post, e
    <3> QED BY <3>1, <3>2, <3>3
  <2> HIDE DEF e
  <2> QED BY <1>4, <2>1
<1>6. Minds(c, wait) /\ wait.sessionTask = c.sessionTask
  <2>1. /\ wait.inbox = c.inbox /\ wait.sessionTask = c.sessionTask
        /\ wait.state = c.state /\ wait.session = c.session
        /\ wait.offRequested = c.offRequested /\ wait.timers = c.timers
    BY <1>1 DEF Controllers
  <2> HIDE DEF wait
  <2> QED BY <1>4, <2>1
<1> HIDE DEF e, wait
<1>7. Minds(c, d) /\ d.sessionTask = c.sessionTask
  BY <1>5, <1>6
<1> HIDE DEF c, d
<1> QED BY <1>2, <1>3, <1>5, <1>7

(* SlotOffered *)
LEMMA SlotOfferedCares ==
  ASSUME Good, Cared, NEW z \in Zones, SlotOffered(z)
  PROVE  Cared'
<1> DEFINE f == Frame(z)
           event == IF f.c.pendingManual = 0 THEN Event("SlotGranted")
                    ELSE Manual(f.c.pendingManual)
           m == [kind |-> "SlotOffer", event |-> event]
           p == Post(f, m)
           g == [p EXCEPT !.c.slotTask = "offering", !.c.pendingManual = 0]
           t == Release(f.s, z)
           h == [f EXCEPT !.c.slotTask = "none", !.s = t]
<1>1. Commit(z, g) \/ Commit(z, h)
  BY DEF SlotOffered
<1>2. f \in Frames /\ f.c = zone[z]
  BY FrameSafe
<1> HIDE DEF f, m, t
<1>3. Minds(f.c, g.c) /\ g.c.sessionTask = f.c.sessionTask
  <2>1. Holds(f.c.inbox, Append(f.c.inbox, m))
    BY <1>2, AppendHolds DEF Frames, Controllers
  <2>2. /\ g.c.inbox = Append(f.c.inbox, m) /\ g.c.sessionTask = f.c.sessionTask
        /\ g.c.state = f.c.state /\ g.c.session = f.c.session
        /\ g.c.offRequested = f.c.offRequested /\ g.c.timers = f.c.timers
    BY <1>2 DEF Post, Send, Frames, Controllers
  <2> HIDE DEF g
  <2> QED BY <2>1, <2>2, SameMinds
<1>4. Minds(f.c, h.c) /\ h.c.sessionTask = f.c.sessionTask
  <2>1. /\ h.c.inbox = f.c.inbox /\ h.c.sessionTask = f.c.sessionTask
        /\ h.c.state = f.c.state /\ h.c.session = f.c.session
        /\ h.c.offRequested = f.c.offRequested /\ h.c.timers = f.c.timers
    BY <1>2 DEF Frames, Controllers
  <2> HIDE DEF h
  <2> QED BY <2>1, HoldsSame, SameMinds
<1> HIDE DEF g, h
<1> QED BY <1>1, <1>2, <1>3, <1>4, CommitMinds

(* TimerFires: the timer goes, its event comes. *)
LEMMA TimerFiresCares ==
  ASSUME Good, Cared, NEW z \in Zones, TimerFires(z)
  PROVE  Cared'
<1>1. PICK t \in zone[z].timers :
        Commit(z, [Post(Frame(z), Event(TimerEvents[t[1]])) EXCEPT !.c.timers = @ \ {t}])
  BY DEF TimerFires
<1> DEFINE f == Frame(z)
           c == f.c
           m == Event(TimerEvents[t[1]])
           g == [Post(f, m) EXCEPT !.c.timers = @ \ {t}]
           d == g.c
<1>2. f \in Frames /\ c = zone[z] /\ Commit(z, g)
  BY <1>1, FrameSafe
<1>3. m = Event(TimerEvents[t[1]])
  OBVIOUS
<1> HIDE DEF f, m
<1>4. Holds(c.inbox, Append(c.inbox, m)) /\
        \E n \in DOMAIN Append(c.inbox, m) : Append(c.inbox, m)[n] = m
  BY <1>2, AppendHolds DEF Frames, Controllers
<1>5. /\ d.inbox = Append(c.inbox, m) /\ d.sessionTask = c.sessionTask
      /\ d.state = c.state /\ d.session = c.session
      /\ d.offRequested = c.offRequested /\ d.timers = c.timers \ {t}
  BY <1>2 DEF Post, Send, Frames, Controllers
<1> HIDE DEF g
<1>6. Tended(c)
  BY <1>2 DEF Cared
<1>7. Due(d)
  BY <1>4, <1>5, <1>6, StaysDue DEF Tended
<1>8. Coming(c, Phase(c.session)) => Coming(d, Phase(c.session))
  <2> DEFINE k == Phase(c.session)
  <2>1. EndOfPhase[k] = TimerEvents[k]
    BY PhaseTimers
  <2> HIDE DEF k
  <2>2. ASSUME \E n \in DOMAIN c.inbox : c.inbox[n] = Event(EndOfPhase[k])
        PROVE  Coming(d, k)
    <3>1. PICK n \in DOMAIN c.inbox : c.inbox[n] = Event(EndOfPhase[k])
      BY <2>2
    <3>2. PICK j \in DOMAIN d.inbox : d.inbox[j] = c.inbox[n]
      BY <1>4, <1>5 DEF Holds
    <3> QED BY <3>1, <3>2 DEF Coming
  <2>3. ASSUME t[1] = k
        PROVE  Coming(d, k)
    <3>1. m = Event(EndOfPhase[k])
      BY <1>3, <2>1, <2>3
    <3> QED BY <1>4, <1>5, <3>1 DEF Coming
  <2>4. ASSUME t[1] # k, Armed(c, k)
        PROVE  Armed(d, k)
    BY <1>5, <2>4 DEF Armed
  <2>5. Coming(c, k) => Coming(d, k)
    BY <2>2, <2>3, <2>4 DEF Coming
  <2> QED BY <2>5 DEF k
<1>9. Attended(d)
  BY <1>5, <1>6, <1>8 DEF Tended, Attended
<1> QED BY <1>2, <1>7, <1>9, CommitTends DEF Tended

(* A post, and a watchdog that goes. *)
LEMMA PostCares ==
  ASSUME Good, Cared, NEW z \in Zones,
         \/ \E m : Commit(z, Post(Frame(z), m))
         \/ WatchdogFires(z)
  PROVE  Cared'
<1>1. Frame(z) \in Frames /\ Frame(z).c = zone[z]
  BY FrameSafe
<1>2. ASSUME NEW m, Commit(z, Post(Frame(z), m))
      PROVE  Cared'
  BY <1>1, <1>2, PostMinds, CommitMinds
<1>3. CASE WatchdogFires(z)
  <2> DEFINE f == Frame(z)
             m == Watchdog(zone[z].watchdog)
             g == [Post(f, m) EXCEPT !.c.watchdog = NoToken]
  <2>1. Commit(z, g)
    BY <1>3 DEF WatchdogFires
  <2> HIDE DEF f, m
  <2>2. f \in Frames /\ f.c = zone[z]
    BY <1>1 DEF f
  <2>3. Holds(f.c.inbox, Append(f.c.inbox, m))
    BY <2>2, AppendHolds DEF Frames, Controllers
  <2>4. /\ g.c.inbox = Append(f.c.inbox, m) /\ g.c.sessionTask = f.c.sessionTask
        /\ g.c.state = f.c.state /\ g.c.session = f.c.session
        /\ g.c.offRequested = f.c.offRequested /\ g.c.timers = f.c.timers
    BY <2>2 DEF Post, Send, Frames, Controllers
  <2> HIDE DEF g
  <2> QED BY <2>1, <2>2, <2>3, <2>4, SameMinds, CommitMinds
<1> QED BY <1>2, <1>3

(* OnLands, OffLands, Settles, Disturb: the callback of the actuator notes *)
(* and posts, and ends nothing.                                            *)
LEMMA DeviceCares ==
  ASSUME Good, Cared, NEW z \in Zones, NEW w, NEW v, NEW own, Device(z, w, v, own)
  PROVE  Cared'
<1> DEFINE c == zone[z]
           d == OnActuatorEvent(c, z, w, v, own)
<1>1. c \in Controllers
  BY FrameSafe
<1>2. zone' = [zone EXCEPT ![z] = d] /\ slots' = slots
  BY DEF Device
<1>3. Tended(c)
  BY DEF Cared
<1> HIDE DEF c
<1>4. /\ d.inbox = c.inbox \/ \E m : d.inbox = Append(c.inbox, m)
      /\ d.sessionTask = c.sessionTask /\ d.state = c.state /\ d.session = c.session
      /\ d.offRequested = c.offRequested /\ d.timers = c.timers
  <2> DEFINE post(m, a, p, s) == [Send(c, m) EXCEPT !.offProvenAt = a, !.offRun.phase = p,
                                                    !.inflightOn.seen = s]
  <2>1. d = c \/ \E m, a, p, s : d = post(m, a, p, s)
    BY DEF OnActuatorEvent
  <2>2. ASSUME NEW m, NEW a, NEW p, NEW s
        PROVE  LET x == post(m, a, p, s)
               IN  /\ x.inbox = Append(c.inbox, m) /\ x.sessionTask = c.sessionTask
                   /\ x.state = c.state /\ x.session = c.session
                   /\ x.offRequested = c.offRequested /\ x.timers = c.timers
    BY <1>1 DEF Send, Controllers
  <2> HIDE DEF d, post
  <2>3. CASE d = c
    BY <2>3
  <2>4. ASSUME NEW m, NEW a, NEW p, NEW s, d = post(m, a, p, s)
        PROVE  /\ d.inbox = Append(c.inbox, m) /\ d.sessionTask = c.sessionTask
               /\ d.state = c.state /\ d.session = c.session
               /\ d.offRequested = c.offRequested /\ d.timers = c.timers
    BY <2>2, <2>4
  <2> QED BY <2>1, <2>3, <2>4
<1> HIDE DEF d
<1>5. Holds(c.inbox, d.inbox)
  <2>1. c.inbox \in Seq(Messages)
    BY <1>1 DEF Controllers
  <2>2. Holds(c.inbox, c.inbox) /\ \A m : Holds(c.inbox, Append(c.inbox, m))
    BY <2>1, HoldsSame, AppendHolds
  <2> QED BY <1>4, <2>2
<1>6. Minds(c, d)
  BY <1>4, <1>5, SameMinds
<1>7. Tended(d)
  BY <1>3, <1>4, <1>6, MindsAttends, StaysDue DEF Tended, Minds
<1>8. ASSUME NEW y \in Zones
      PROVE  Tended(zone'[y])
  BY <1>2, <1>7 DEF Good, Cared
<1> QED BY <1>8 DEF Cared

(* One step of the system keeps every zone tended. *)
LEMMA StepCares ==
  ASSUME Good, Cared, [Next]_vars
  PROVE  Cared'
<1>1. ASSUME NEW z \in Zones, ZoneStep(z)
      PROVE  Cared'
  BY <1>1, DeliverCares, RunSessionCares, OnReturnsCares, OffCares, SlotOfferedCares,
     TimerFiresCares, PostCares DEF ZoneStep
<1>2. ASSUME NEW z \in Zones, WorldStep(z)
      PROVE  Cared'
  <2>1. CASE OnLands(z) \/ OffLands(z) \/ Settles(z) \/ Disturb(z)
    BY <2>1, DeviceCares DEF OnLands, OffLands, Settles, Disturb
  <2>2. CASE SensorReports(z) \/ FallbackScan(z) \/ UserRequests(z)
    BY <2>2, PostCares DEF SensorReports, FallbackScan, UserRequests
  <2> QED BY <1>2, <2>1, <2>2 DEF WorldStep
<1>3. CASE Reconcile \/ Tick \/ TimeIsUp \/ UNCHANGED vars
  <2>1. zone' = zone
    BY <1>3 DEF Reconcile, Tick, TimeIsUp, vars
  <2> QED BY <2>1 DEF Cared
<1> QED BY <1>1, <1>2, <1>3 DEF Next

(* Setup leaves no zone WATERING and no task waiting. *)
LEMMA InitCares == Init => Cared
<1> SUFFICES ASSUME Init, NEW z \in Zones
             PROVE  Tended(zone[z])
  BY DEF Cared
<1>1. zone[z].state = "IDLE" /\ zone[z].sessionTask = "resting"
  BY DEF Init, Fresh
<1> QED BY <1>1 DEF Tended, Attended, Due

(* At rest, the message that a task waits for and the event of a phase     *)
(* would be in an inbox that is empty.                                     *)
LEMMA TendedAtRest ==
  ASSUME Good, Cared
  PROVE  WaterAttended
<1> SUFFICES ASSUME NEW z \in Zones, AtRest(z), zone[z].state = "WATERING"
             PROVE  LET c == zone[z]
                        endOf == IF c.session.confirmed = NoTime THEN {"ON_CONFIRM_TIMEOUT"}
                                 ELSE {"PULSE_END", "MANUAL_END"}
                    IN  \/ c.sessionTask \in {"call", "off"}
                        \/ c.session.pending = NoReason /\ \E t \in c.timers : t[1] \in endOf
  BY DEF WaterAttended
<1> DEFINE c == zone[z]
<1>1. Tended(c) /\ c \in Controllers /\ c.state = "WATERING"
  BY FrameSafe DEF Cared
<1>2. c.inbox = << >> /\ (c.sessionTask = "resting" => ~c.offRequested)
  BY DEF AtRest
<1> HIDE DEF c
<1>3. DOMAIN c.inbox = {}
  BY <1>2
<1>4. c.sessionTask # "gate" /\ c.sessionTask # "commit"
  BY <1>1, <1>3 DEF Tended, Due
<1>5. CASE c.sessionTask \in {"call", "off"}
  BY <1>5 DEF c
<1>6. CASE c.sessionTask = "resting"
  <2>1. c.session.pending = NoReason /\ Coming(c, Phase(c.session))
    BY <1>1, <1>2, <1>6 DEF Tended, Attended
  <2>2. PICK t \in c.timers : t[1] = Phase(c.session)
    BY <1>3, <2>1 DEF Coming, Armed
  <2>3. t[1] \in IF c.session.confirmed = NoTime THEN {"ON_CONFIRM_TIMEOUT"}
                 ELSE {"PULSE_END", "MANUAL_END"}
    BY <2>2 DEF Phase
  <2> QED BY <2>1, <2>2, <2>3 DEF c
<1>7. c.sessionTask \in {"resting", "gate", "call", "commit", "off"}
  BY <1>1 DEF Controllers
<1> QED BY <1>4, <1>5, <1>6, <1>7

(* No zone is left WATERING without an end: a zone that has nothing to do  *)
(* has its ON or its OFF call under way, or no reason to stop yet and the  *)
(* timer armed that ends this phase.  So it is however the messages of its *)
(* lock, the service calls, failed Store writes and interference follow    *)
(* upon one another: _arm_timer, _make_timer_callback and the checks of    *)
(* the session task between its awaits never lose both.                    *)
THEOREM Attendance == FaultsStand => (Spec => []WaterAttended)
<1> SUFFICES ASSUME FaultsStand
             PROVE  Spec => []WaterAttended
  OBVIOUS
<1>1. Init => Good /\ Cared
  BY InitGood, InitCares
<1>2. (Good /\ Cared) /\ [Next]_vars => (Good /\ Cared)'
  BY StepGood, StepCares
<1>3. Good /\ Cared => WaterAttended
  BY TendedAtRest
<1> QED BY <1>1, <1>2, <1>3, PTL DEF Spec
=============================================================================
