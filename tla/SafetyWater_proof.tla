------------------------- MODULE SafetyWater_proof -------------------------
(***************************************************************************)
(* Proofs about the hazard keys and the water in SafetyRecords.            *)
(*                                                                         *)
(* First, hazard keys leave a record only with evidence about its own      *)
(* valve.  The applier looks at valves by the entity ids of its snapshot.  *)
(* The invariant NamesHold says that such a name still means the valve     *)
(* that the record is about: between the snapshot and the last look at the *)
(* valves, no other row has it, the records in use have the snapshot's     *)
(* valves, and a zone's controller has the zone's record.                  *)
(*                                                                         *)
(* Second, water that the integration let flow is an open session of that  *)
(* valve's record, at most one valve gives such water, and a settled entry *)
(* watches every open session.                                             *)
(*                                                                         *)
(* Only a fenced start lets water flow, so the proof is about the fence:   *)
(* after any chain of replacements, deletions, removed rows, crashes and   *)
(* unconfirmed commands, a session whose valve may still be open is seen   *)
(* by what StartWater asks.  It has a controller, or a key of its record   *)
(* is in the slot manager's blockers.  Told says so of a world; every      *)
(* operator, loops included, is shown to keep it.                          *)
(***************************************************************************)
EXTENDS SafetyRecords_proof

(* From Store d to Store e no record gets another valve, and only the      *)
(* records in J may lose keys.                                             *)
Evidence(J, d, e) ==
    \A r \in Exist(d) :
      /\ e.rec[r].valve = d.rec[r].valve
      /\ e.rec[r].active = d.rec[r].active
      /\ e.rec[r].ack = d.rec[r].ack
      /\ r \in J \/ d.rec[r].keys \subseteq e.rec[r].keys

(* The application goes on with the same snapshot, or ends. *)
Steady(k, l) == l.bound = k.bound /\ l.snap = k.snap /\ l.phase \in {k.phase, "idle"}

Follows(J, u, w) == Evidence(J, u.store, w.store) /\ Steady(u.live, w.live)

(* Steps in a row. *)
LEMMA FollowsOn ==
  ASSUME NEW J, NEW u, NEW w, NEW x, Exist(u.store) = Exist(w.store),
         Follows(J, u, w), Follows(J, w, x)
  PROVE  Follows(J, u, x)
BY DEF Follows, Evidence, Steady

(* Fewer records would do. *)
LEMMA FollowsMore ==
  ASSUME NEW I, NEW J, I \subseteq J, NEW u, NEW w, Follows(I, u, w)
  PROVE  Follows(J, u, w)
BY DEF Follows, Evidence

LEMMA FollowsItself ==
  ASSUME NEW J, NEW u
  PROVE  Follows(J, u, u)
BY DEF Follows, Evidence, Steady

(* A change of the runtime alone. *)
LEMMA LiveFollows ==
  ASSUME NEW J, NEW E, NEW u \in Sound(E), NEW l, Steady(u.live, l)
  PROVE  Follows(J, u, [u EXCEPT !.live = l])
<1> DEFINE w == [u EXCEPT !.live = l]
<1>1. w.store = u.store /\ w.live = l
  BY DEF Sound, Worlds
<1> HIDE DEF w
<1>2. Follows(J, u, w)
  BY <1>1 DEF Follows, Evidence
<1> QED BY <1>2 DEF w

(* A change of one record. *)
LEMMA RecordFollows ==
  ASSUME NEW J, NEW E, NEW u \in Sound(E), NEW w, Steady(u.live, w.live), NEW r \in E, NEW rec,
         w.store.rec = [u.store.rec EXCEPT ![r] = rec],
         rec.valve = u.store.rec[r].valve, rec.active = u.store.rec[r].active,
         rec.ack = u.store.rec[r].ack,
         r \in J \/ u.store.rec[r].keys \subseteq rec.keys
  PROVE  Follows(J, u, w)
<1>1. u.store.rec \in RecordMaps /\ E \subseteq Records /\ Exist(u.store) = E
  BY SoundParts
<1>2. w.store.rec[r] = rec /\ \A q \in Records \ {r} : w.store.rec[q] = u.store.rec[q]
  BY <1>1 DEF RecordMaps
<1> QED BY <1>1, <1>2 DEF Follows, Evidence

(* One key more, or one less. *)
LEMMA KeysFollow ==
  ASSUME NEW E, NEW u \in Sound(E), NEW r \in E, NEW k
  PROVE  /\ \A J : Follows(J, u, AddKey(u, r, k))
         /\ \A J : r \in J => Follows(J, u, DropKey(u, r, k))
<1> DEFINE rec == u.store.rec[r]
           Keyed(K, keys, owner) ==
             [u EXCEPT !.live.keys = K,
                       !.store.rec[r] = [rec EXCEPT !.keys = keys, !.owner = owner]]
<1>0. rec \in RecordSet
  BY SoundParts
<1>1. ASSUME NEW J, NEW K, NEW keys, NEW owner, r \in J \/ rec.keys \subseteq keys
      PROVE  Follows(J, u, Keyed(K, keys, owner))
  <2> DEFINE w == Keyed(K, keys, owner)
             new == [rec EXCEPT !.keys = keys, !.owner = owner]
  <2>1. /\ new.valve = rec.valve /\ new.active = rec.active /\ new.ack = rec.ack
        /\ new.keys = keys
    BY <1>0 DEF RecordSet
  <2> HIDE DEF new
  <2>2. w.store.rec = [u.store.rec EXCEPT ![r] = new] /\ Steady(u.live, w.live)
    BY DEF Sound, Worlds, Stores, Runtimes, Steady, new
  <2> HIDE DEF w
  <2>3. Follows(J, u, w)
    BY <1>1, <2>1, <2>2, RecordFollows
  <2> QED BY <2>3 DEF w
<1>2. ASSUME NEW J PROVE Follows(J, u, AddKey(u, r, k))
  <2> DEFINE owner == IF k \in rec.keys THEN rec.owner
                      ELSE IF k = NotProvenOff THEN rec.owner ELSE OwnerOf({k})
  <2>1. CASE <<r, k>> \in u.live.keys
    BY <2>1, FollowsItself DEF AddKey
  <2>2. CASE <<r, k>> \notin u.live.keys
    <3>1. AddKey(u, r, k) = Keyed(u.live.keys \cup {<<r, k>>}, rec.keys \cup {k}, owner)
      BY <2>2 DEF AddKey
    <3> HIDE DEF owner, Keyed
    <3> QED BY <1>1, <3>1
  <2> QED BY <2>1, <2>2
<1>3. ASSUME NEW J, r \in J PROVE Follows(J, u, DropKey(u, r, k))
  <2> DEFINE owner == IF k \in rec.keys THEN OwnerOf(rec.keys \ {k}) ELSE rec.owner
  <2>1. CASE <<r, k>> \notin u.live.keys
    BY <2>1, FollowsItself DEF DropKey
  <2>2. CASE <<r, k>> \in u.live.keys
    <3>1. DropKey(u, r, k) = Keyed(u.live.keys \ {<<r, k>>}, rec.keys \ {k}, owner)
      BY <2>2 DEF DropKey
    <3> HIDE DEF owner, Keyed
    <3> QED BY <1>1, <1>3, <3>1
  <2> QED BY <2>1, <2>2
<1> QED BY <1>2, <1>3

(* The runtime is written. *)
LEMMA PersistFollows ==
  ASSUME NEW J, NEW E, NEW u \in Sound(E), NEW r \in E, NEW session, NEW fault
  PROVE  Follows(J, u, Persist(u, r, session, fault))
<1> DEFINE rec == u.store.rec[r]
           h == rec.history
           w == Persist(u, r, session, fault)
<1>0. rec \in RecordSet
  BY SoundParts
<1>1. PICK owner :
        w = [u EXCEPT !.store.rec[r] = [rec EXCEPT !.fault = fault, !.owner = owner],
                      !.store.hist[h] = [@ EXCEPT !.session = session,
                                                  !.spent = u.live.mem[r].daily]]
  BY DEF Persist
<1> DEFINE new == [rec EXCEPT !.fault = fault, !.owner = owner]
<1>2. /\ new.valve = rec.valve /\ new.active = rec.active /\ new.ack = rec.ack
      /\ new.keys = rec.keys
  BY <1>0 DEF RecordSet
<1> HIDE DEF w
<1>3. w.store.rec = [u.store.rec EXCEPT ![r] = new] /\ Steady(u.live, w.live)
  <2> HIDE DEF h
  <2> QED BY <1>1 DEF Sound, Worlds, Stores, Steady
<1>4. Follows(J, u, w)
  <2> HIDE DEF new
  <2> QED BY <1>2, <1>3, RecordFollows
<1> HIDE DEF rec, h, new
<1> QED BY <1>4 DEF w

(* A session is closed: the key of an unproven OFF goes. *)
LEMMA CloseSessionFollows ==
  ASSUME NEW J, NEW E, NEW u \in Sound(E), NEW r \in E, r \in J
  PROVE  Follows(J, u, CloseSession(u, r))
<1> DEFINE rec == u.store.rec[r]
           charged == [u EXCEPT !.live.mem[r].daily = @ + 1,
                                !.ghost.charged = @ \cup {<<r, rec.zone, Cardinality(@)>>}]
           saved == Persist(charged, r, None, rec.fault)
<1>0. rec \in RecordSet /\ Exist(u.store) = E /\ E \subseteq Records
  BY SoundParts
<1>1. CloseSession(u, r) = DropKey(saved, r, OffUnconfirmed)
  BY DEF CloseSession
<1>2. charged \in Sound(E) /\ charged.store = u.store /\ Steady(u.live, charged.live)
  <2>1. charged.store = u.store /\ Steady(u.live, charged.live)
    BY DEF Sound, Worlds, Runtimes, Steady
  <2>2. charged \in Sound(E)
    BY ChargedSound
  <2> QED BY <2>1, <2>2
<1> HIDE DEF charged
<1>3. Follows(J, u, charged)
  BY <1>2 DEF Follows, Evidence
<1>4. saved \in Sound(E)
  <2>1. rec.fault \in {"none", "OFF_TIMEOUT", "RESTORED"} /\ None \in Optional(Records)
    BY <1>0 DEF RecordSet, Optional
  <2> QED BY <1>2, <2>1, PersistSound
<1>5. Follows(J, charged, saved)
  BY <1>2, PersistFollows
<1> HIDE DEF saved
<1>6. Follows(J, saved, DropKey(saved, r, OffUnconfirmed))
  BY <1>4, KeysFollow
<1>7. Exist(charged.store) = E /\ Exist(saved.store) = E
  BY <1>2, <1>4, SoundParts
<1>8. Follows(J, u, saved)
  BY <1>0, <1>3, <1>5, <1>7, FollowsOn
<1> QED BY <1>0, <1>1, <1>6, <1>7, <1>8, FollowsOn

(* What is known of its valve when a controller closes a session. *)
LEMMA AttachFollows ==
  ASSUME NEW J, NEW E, NEW u \in Sound(E), NEW r \in E,
         Assess(u.store.rec[r].valve) = "off" => r \in J
  PROVE  Follows(J, u, Attach(u, r))
<1> DEFINE rec == u.store.rec[r]
           memory == [home |-> rec.history, daily |-> u.store.hist[rec.history].spent]
           read == [u EXCEPT !.live.mem[r] = memory, !.live.ext = @ \ {r}]
<1>0. Exist(u.store) = E
  <2> HIDE DEF rec, memory, read
  <2> QED BY SoundParts
<1>1. read \in Sound(E)
  BY ReadSound, Zenon
<1>2. read.store = u.store /\ Steady(u.live, read.live)
  BY DEF Sound, Worlds, Runtimes, Steady
<1>3. Follows(J, u, read)
  BY <1>2 DEF Follows, Evidence
<1>4. Attach(u, r) = read \/ (r \in J /\ Attach(u, r) = CloseSession(read, r))
  BY DEF Attach
<1> HIDE DEF read
<1>5. CASE Attach(u, r) = read
  BY <1>3, <1>5
<1>6. CASE r \in J /\ Attach(u, r) = CloseSession(read, r)
  <2>1. Follows(J, read, CloseSession(read, r))
    BY <1>1, <1>6, CloseSessionFollows
  <2> QED BY <1>0, <1>2, <1>3, <1>6, <2>1, FollowsOn
<1> QED BY <1>4, <1>5, <1>6

(* What a controller makes of its valve. *)
LEMMA NoticedFollows ==
  ASSUME NEW J, NEW E, NEW u \in Sound(E), NEW r \in E, NEW a, NEW b, b = "off" => r \in J
  PROVE  Follows(J, u, Noticed(u, r, a, b))
<1> DEFINE open == Session(u.store, r) = r
           faulted == u.store.rec[r].fault # "none"
           proven == DropKey(u, r, NotProvenOff)
           mine == [u EXCEPT !.live.ext = @ \cup {r}]
           freed == [proven EXCEPT !.live.ext = @ \ {r}]
<1>0. Exist(u.store) = E /\ NotProvenOff \in KeyKinds
  BY SoundParts DEF KeyKinds
<1>1. ASSUME NEW w \in Sound(E), NEW X \in SUBSET Records
      PROVE  [w EXCEPT !.live.ext = X] \in Sound(E) /\ Follows(J, w, [w EXCEPT !.live.ext = X])
  <2> DEFINE l == [w.live EXCEPT !.ext = X]
  <2>1. w.live \in Runtimes /\ Attached(w.live) \subseteq E
    BY SoundParts
  <2>2. l \in Runtimes /\ Attached(l) \subseteq E
    BY <2>1, LiveFields
  <2>3. Steady(w.live, l)
    BY <2>1 DEF Steady, Runtimes
  <2> HIDE DEF l
  <2>4. [w EXCEPT !.live = l] \in Sound(E) /\ Follows(J, w, [w EXCEPT !.live = l])
    BY <2>2, <2>3, PutLive, LiveFollows
  <2> QED BY <2>4 DEF l
<1>2. ASSUME NEW w \in Sound(E)
      PROVE  w.live.ext \ {r} \in SUBSET Records /\ w.live.ext \cup {r} \in SUBSET Records
  BY SoundParts DEF Runtimes
<1>3. CASE b = "off"
  <2>1. proven \in Sound(E) /\ Follows(J, u, proven)
    BY <1>0, <1>3, KeysSound, KeysFollow
  <2>2. Noticed(u, r, a, b) \in {CloseSession(proven, r), DropKey(freed, r, ExternalKey), proven}
    <3>1. CASE open
      BY <1>3, <3>1 DEF Noticed
    <3>2. CASE ~open /\ r \in u.live.ext
      BY <1>3, <3>2 DEF Noticed
    <3>3. CASE ~open /\ r \notin u.live.ext
      BY <1>3, <3>3 DEF Noticed
    <3> QED BY <3>1, <3>2, <3>3
  <2> HIDE DEF proven
  <2>3. freed \in Sound(E) /\ Follows(J, proven, freed)
    BY <2>1, <1>1, <1>2
  <2> HIDE DEF freed
  <2>4. Follows(J, proven, CloseSession(proven, r)) /\ Follows(J, freed, DropKey(freed, r, ExternalKey))
    BY <1>3, <2>1, <2>3, CloseSessionFollows, KeysFollow
  <2>5. Exist(proven.store) = E /\ Exist(freed.store) = E
    BY <2>1, <2>3, SoundParts
  <2>6. Follows(J, proven, DropKey(freed, r, ExternalKey))
    BY <2>3, <2>4, <2>5, FollowsOn
  <2>7. \A w \in {CloseSession(proven, r), DropKey(freed, r, ExternalKey)} : Follows(J, u, w)
    BY <1>0, <2>1, <2>4, <2>5, <2>6, FollowsOn
  <2> QED BY <2>1, <2>2, <2>7
<1>4. CASE b # "off"
  <2>1. Noticed(u, r, a, b) \in {AddKey(mine, r, ExternalKey), u}
    <3>1. CASE b = "on" /\ (~open \/ faulted) /\ r \notin u.live.ext
      BY <3>1 DEF Noticed
    <3>2. CASE ~(b = "on" /\ (~open \/ faulted) /\ r \notin u.live.ext)
      BY <1>4, <3>2 DEF Noticed
    <3> QED BY <3>1, <3>2
  <2>2. mine \in Sound(E) /\ Follows(J, u, mine)
    BY <1>1, <1>2
  <2> HIDE DEF mine
  <2>3. Follows(J, mine, AddKey(mine, r, ExternalKey)) /\ Exist(mine.store) = E
    BY <2>2, KeysFollow, SoundParts
  <2>4. Follows(J, u, AddKey(mine, r, ExternalKey))
    BY <1>0, <2>2, <2>3, FollowsOn
  <2> QED BY <2>1, <2>4, FollowsItself
<1> QED BY <1>3, <1>4

(* Worlds that follow u. *)
Followers(J, E, u) == {w \in Sound(E) : Follows(J, u, w)}

LEMMA NoticedByFollows ==
  ASSUME NEW E, NEW u \in Sound(E), NEW R, R \subseteq E, NEW a, NEW b, NEW J,
         b = "off" => R \subseteq J
  PROVE  NoticedBy(u, R, a, b) \in Followers(J, E, u)
<1>1. u \in Followers(J, E, u)
  BY FollowsItself DEF Followers
<1>2. ASSUME NEW w \in Followers(J, E, u), NEW r \in R \cap Records
      PROVE  Noticed(w, r, a, b) \in Followers(J, E, u)
  <2>1. w \in Sound(E) /\ Follows(J, u, w) /\ Exist(u.store) = Exist(w.store)
    BY SoundParts DEF Followers
  <2>2. Noticed(w, r, a, b) \in Sound(E) /\ Follows(J, w, Noticed(w, r, a, b))
    BY <2>1, NoticedSound, NoticedFollows
  <2>3. Follows(J, u, Noticed(w, r, a, b))
    BY <2>1, <2>2, FollowsOn
  <2> QED BY <2>2, <2>3 DEF Followers
<1> QED BY <1>1, <1>2, NoticedByStays

(* Controllers that attach to retained records. *)
LEMMA KeptFollows ==
  ASSUME NEW J, NEW E, NEW u \in Sound(E), NEW r \in E,
         Assess(u.store.rec[r].valve) = "off" => r \in J
  PROVE  LET w == [Attach(u, r) EXCEPT !.live.kept = @ \cup {r}] IN
         w \in Sound(E) /\ Follows(J, u, w)
<1> DEFINE x == Attach(u, r)
           w == [x EXCEPT !.live.kept = @ \cup {r}]
<1>1. x \in Sound(E) /\ Follows(J, u, x)
  BY AttachSound, AttachFollows
<1> HIDE DEF x
<1>2. w \in Sound(E)
  BY <1>1, KeptSound
<1>3. w.store = x.store /\ Steady(x.live, w.live)
  BY <1>1 DEF Sound, Worlds, Runtimes, Steady
<1>4. Follows(J, x, w)
  BY <1>3 DEF Follows, Evidence
<1>5. Exist(u.store) = Exist(x.store)
  BY <1>1, SoundParts
<1> HIDE DEF w
<1>6. Follows(J, u, w)
  BY <1>1, <1>4, <1>5, FollowsOn
<1> QED BY <1>2, <1>6 DEF w, x

(* A detached controller, and the end of an application. *)
LEMMA EndsFollow ==
  ASSUME NEW J, NEW E, NEW u \in Sound(E)
  PROVE  /\ \A gone : Follows(J, u, Detached(u, gone))
         /\ Follows(J, u, Failed(u)) /\ Follows(J, u, Superseded(u))
         /\ Follows(J, u, [u EXCEPT !.live.phase = "idle", !.live.status = "clean"])
<1>1. \A gone : Detached(u, gone).store = u.store /\ Steady(u.live, Detached(u, gone).live)
  BY DEF Detached, Sound, Worlds, Runtimes, Steady
<1>2. /\ Failed(u).store = u.store /\ Steady(u.live, Failed(u).live)
      /\ Superseded(u).store = u.store /\ Steady(u.live, Superseded(u).live)
  BY DEF Failed, Superseded, Sound, Worlds, Runtimes, Steady
<1>3. LET w == [u EXCEPT !.live.phase = "idle", !.live.status = "clean"] IN
      w.store = u.store /\ Steady(u.live, w.live)
  BY DEF Sound, Worlds, Runtimes, Steady
<1> QED BY <1>1, <1>2, <1>3 DEF Follows, Evidence

-----------------------------------------------------------------------------
(* Which records may lose keys: those whose valve is seen OFF, or is gone  *)
(* and certified.                                                          *)

Cleared(rec) == rec.valve \in Valves =>
    Assess(rec.valve) = "off" \/ (registry[rec.valve] = None /\ rec.ack = rec.valve)

ClearedIn(data) == {r \in Exist(data) : Cleared(data.rec[r])}

(* _reconcile_active_record *)
LEMMA ActiveKeys ==
  ASSUME NEW rec \in RecordSet, NEW open, NEW a, NEW certified
  PROVE  LET new == ReconcileActive(rec, open, a, certified) IN
         /\ new.ack = rec.ack
         /\ a = "off" \/ (a = "absent" /\ certified) \/ rec.keys \subseteq new.keys
<1> DEFINE new == ReconcileActive(rec, open, a, certified)
<1>1. CASE a = "off" \/ (a = "absent" /\ certified)
  <2>1. new.ack = rec.ack
    BY <1>1 DEF ReconcileActive, RecordSet
  <2> QED BY <1>1, <2>1
<1>2. CASE ~(a = "off" \/ (a = "absent" /\ certified)) /\ a = "on" /\ ~open
  <2>1. new = [rec EXCEPT !.keys = rec.keys \cup {ExternalKey}, !.owner = "EXTERNAL"]
    BY <1>2 DEF ReconcileActive
  <2> HIDE DEF new
  <2>2. new.ack = rec.ack /\ rec.keys \subseteq new.keys
    BY <2>1 DEF RecordSet
  <2> QED BY <2>2 DEF new
<1>3. CASE ~(a = "off" \/ (a = "absent" /\ certified)) /\ ~(a = "on" /\ ~open)
  <2>1. new = [rec EXCEPT !.keys = rec.keys \cup {NotProvenOff}]
    BY <1>3 DEF ReconcileActive
  <2> HIDE DEF new
  <2>2. new.ack = rec.ack /\ rec.keys \subseteq new.keys
    BY <2>1 DEF RecordSet
  <2> QED BY <2>2 DEF new
<1> QED BY <1>1, <1>2, <1>3

LEMMA AbsentHasNoRow ==
  ASSUME NEW v \in Valves, Assess(v) = "absent"
  PROVE  v # None /\ registry[v] = None
BY Constants DEF Assess, Shows

(* _reconcile_retained_record *)
LEMMA RetainedKeys ==
  ASSUME Rows, NEW rec \in RecordSet, NEW open
  PROVE  LET new == ReconcileRetained(rec, open) IN
         new.ack = rec.ack /\ (Cleared(rec) \/ rec.keys \subseteq new.keys)
<1> DEFINE a == Assess(rec.valve)
           certified == a = "absent" /\ rec.ack # None /\ rec.ack = rec.valve
           judged == ReconcileActive(rec, open, a, certified)
           new == ReconcileRetained(rec, open)
<1>1. /\ judged \in RecordSet /\ judged.ack = rec.ack
      /\ a = "off" \/ (a = "absent" /\ certified) \/ rec.keys \subseteq judged.keys
  <2> HIDE DEF a, certified
  <2> QED BY ReconcileActiveSound, ActiveKeys
<1>2. PICK life :
        new = [(IF a # "absent" THEN [judged EXCEPT !.name = registry[rec.valve]]
                ELSE [judged EXCEPT !.status = "MISSING",
                                    !.incident = IF certified THEN "none" ELSE "missing"])
               EXCEPT !.life = life]
  BY DEF ReconcileRetained
<1> HIDE DEF new, judged
<1>3. new.ack = judged.ack /\ new.keys = judged.keys
  <2>1. CASE a # "absent"
    BY <1>1, <1>2, <2>1 DEF RecordSet
  <2>2. CASE a = "absent"
    BY <1>1, <1>2, <2>2 DEF RecordSet
  <2> QED BY <2>1, <2>2
<1>4. ASSUME a = "off" \/ (a = "absent" /\ certified) PROVE Cleared(rec)
  BY <1>4, AbsentHasNoRow DEF Cleared
<1> QED BY <1>1, <1>3, <1>4 DEF new

(* _refresh_tombstones *)
LEMMA RefreshFollows ==
  ASSUME Rows, NEW E, NEW u \in Sound(E)
  PROVE  Follows(ClearedIn(u.store), u, RefreshTombstones(u))
<1> DEFINE recs == [r \in Records |->
                      IF r \in Exist(u.store) /\ u.store.rec[r].life # "ACTIVE"
                      THEN ReconcileRetained(u.store.rec[r], Session(u.store, r) # None)
                      ELSE u.store.rec[r]]
           data == [u.store EXCEPT !.rec = recs]
           w == [u EXCEPT !.store = data]
           J == ClearedIn(u.store)
<1>0. Exist(u.store) = E /\ E \subseteq Records /\ \A r \in E : u.store.rec[r] \in RecordSet
  BY SoundParts
<1>1. \E done : RefreshTombstones(u) = Detached(w, done)
  BY DEF RefreshTombstones
<1>2. w.store.rec = recs /\ w.live = u.live
  BY DEF Sound, Worlds, Stores
<1>3. \A r \in E : /\ SameIdentity(recs[r], u.store.rec[r])
                   /\ recs[r].ack = u.store.rec[r].ack
                   /\ r \in J \/ u.store.rec[r].keys \subseteq recs[r].keys
  <2> SUFFICES ASSUME NEW r \in E
               PROVE  /\ SameIdentity(recs[r], u.store.rec[r])
                      /\ recs[r].ack = u.store.rec[r].ack
                      /\ r \in J \/ u.store.rec[r].keys \subseteq recs[r].keys
    OBVIOUS
  <2> DEFINE rec == u.store.rec[r]
             open == Session(u.store, r) # None
  <2>1. rec \in RecordSet
    BY <1>0
  <2>2. recs[r] = rec \/ recs[r] = ReconcileRetained(rec, open)
    BY <1>0
  <2>3. Cleared(rec) => r \in J
    BY <1>0 DEF ClearedIn
  <2> HIDE DEF recs, rec, open, J
  <2>4. CASE recs[r] = rec
    BY <2>4 DEF SameIdentity, rec
  <2>5. CASE recs[r] = ReconcileRetained(rec, open)
    <3>1. /\ SameIdentity(ReconcileRetained(rec, open), rec)
          /\ ReconcileRetained(rec, open).ack = rec.ack
          /\ Cleared(rec) \/ rec.keys \subseteq ReconcileRetained(rec, open).keys
      BY <2>1, ReconcileRetainedSound, RetainedKeys
    <3> QED BY <2>3, <2>5, <3>1 DEF rec
  <2> QED BY <2>2, <2>4, <2>5
<1> HIDE DEF recs, w, J
<1>4. \A gone : Detached(w, gone).store = w.store /\ Steady(w.live, Detached(w, gone).live)
  <2>1. w = [store |-> w.store, live |-> u.live, ghost |-> u.ghost] /\ u.live \in Runtimes
    BY SoundParts DEF w, Sound, Worlds
  <2> QED BY <1>2, <2>1 DEF Detached, Runtimes, Steady
<1>5. Follows(J, u, RefreshTombstones(u))
  BY <1>0, <1>1, <1>2, <1>3, <1>4 DEF Follows, Evidence, SameIdentity
<1> QED BY <1>5 DEF J

(* The last look at one zone's actuator. *)
LEMMA RereadFollows ==
  ASSUME NEW J, NEW E, NEW u \in Sound(E), NEW z \in Zones,
         u.live.bound[z] # None /\ AssessName(u.live.snap[z].entity) = "off" => u.live.bound[z] \in J
  PROVE  Follows(J, u, Reread(u, z))
<1> DEFINE r == u.live.bound[z]
           off == AssessName(u.live.snap[z].entity) = "off"
           once == DropKey(u, r, NotProvenOff)
<1>0. Attached(u.live) \subseteq E /\ Exist(u.store) = E
  BY SoundParts
<1>1. CASE r = None
  BY <1>1, FollowsItself DEF Reread
<1>2. CASE r # None
  <2>1. r \in E /\ NotProvenOff \in KeyKinds
    BY <1>0, <1>2 DEF Attached, Bound, KeyKinds
  <2>2. once \in Sound(E)
    BY <2>1, KeysSound
  <2>3. \/ off /\ Reread(u, z) = DropKey(once, r, ExternalKey)
        \/ Reread(u, z) \in {u, AddKey(u, r, NotProvenOff), AddKey(u, r, ExternalKey)}
    BY <1>2 DEF Reread
  <2>4. CASE off /\ Reread(u, z) = DropKey(once, r, ExternalKey)
    <3>1. r \in J
      BY <1>2, <2>4
    <3>2. Follows(J, u, once)
      BY <2>1, <3>1, KeysFollow
    <3> HIDE DEF once, r, off
    <3>3. Follows(J, once, DropKey(once, r, ExternalKey)) /\ Exist(once.store) = E
      BY <2>1, <2>2, <3>1, KeysFollow, SoundParts
    <3> QED BY <1>0, <2>4, <3>2, <3>3, FollowsOn
  <2>5. CASE Reread(u, z) \in {u, AddKey(u, r, NotProvenOff), AddKey(u, r, ExternalKey)}
    <3> HIDE DEF r
    <3> QED BY <2>1, <2>5, KeysFollow, FollowsItself
  <2> QED BY <2>3, <2>4, <2>5
<1> QED BY <1>1, <1>2

-----------------------------------------------------------------------------
(* Names and valves while a snapshot is applied. *)

(* No other row has the name that a zone's valve is looked at by. *)
NamesMean(snap) == \A z \in DOMAIN snap : Named(snap[z].entity) \subseteq {snap[z].valve}

(* A record in use has the valve of its zone. *)
InUse(data, snap) ==
    \A r \in Exist(data) : data.rec[r].active # None =>
      /\ data.rec[r].active \in DOMAIN snap
      /\ data.rec[r].valve = snap[data.rec[r].active].valve

(* A zone's controller has the zone's record. *)
BoundInUse(w) ==
    \A z \in Zones : w.live.bound[z] # None =>
      /\ z \in DOMAIN w.live.snap
      /\ w.store.rec[w.live.bound[z]].active = z

LEMMA NameMeans ==
  ASSUME NEW n, NEW v, Named(n) \subseteq {v}, AssessName(n) = "off"
  PROVE  v \in Valves /\ Assess(v) = "off"
<1> DEFINE x == CHOOSE u \in Named(n) : TRUE
<1>1. Named(n) # {} /\ Assess(x) = "off"
  BY DEF AssessName
<1>2. x \in Named(n)
  BY <1>1
<1> HIDE DEF x
<1>3. x = v /\ x \in Valves
  BY <1>2 DEF Named
<1> QED BY <1>1, <1>3

(* The snapshot's names mean its valves when it is taken. *)
LEMMA SnapshotNames ==
  ASSUME Rows, \A u, v \in Valves : registry[u] # None /\ registry[u] = registry[v] => u = v,
         NEW data \in Stores
  PROVE  NamesMean(BuildSnapshot(data))
<1> SUFFICES ASSUME NEW z \in Configured(config)
             PROVE  Named(Resolve(data, z).entity) \subseteq {Resolve(data, z).valve}
  BY DEF NamesMean, BuildSnapshot
<1> DEFINE n == config[z]
           held == {r \in Exist(data) : /\ data.rec[r].active = z
                                        /\ data.rec[r].applied[2] = n
                                        /\ Assess(data.rec[r].valve) # "absent"}
           v == data.rec[CHOOSE r \in held : TRUE].valve
           u == CHOOSE x \in Named(n) : TRUE
<1>0. n \in Names /\ None \notin Names
  <2> HIDE DEF held, v, u
  <2> QED BY Constants DEF Configured
<1>1. \/ held # {} /\ Resolve(data, z).entity = registry[v] /\ Resolve(data, z).valve = v
      \/ Named(n) # {} /\ Resolve(data, z).entity = n /\ Resolve(data, z).valve = u
      \/ Named(n) = {} /\ Resolve(data, z).entity = n
  <2>1. Resolve(data, z) =
          IF held # {}
          THEN [name |-> n, valve |-> v, entity |-> registry[v], ambiguous |-> Named(n) \ {v} # {}]
          ELSE IF Named(n) # {}
          THEN [name |-> n, valve |-> u, entity |-> n, ambiguous |-> FALSE]
          ELSE [name |-> n, valve |-> None, entity |-> n, ambiguous |-> FALSE]
    BY Zenon DEF Resolve
  <2> HIDE DEF held, v, u
  <2> QED BY <2>1
<1>2. ASSUME held # {} PROVE v \in Valves /\ registry[v] \in Names
  <2>1. PICK r \in held : v = data.rec[r].valve
    BY <1>2
  <2>2. data.rec[r] \in RecordSet /\ Assess(v) # "absent"
    BY <2>1, Existing DEF Stores
  <2>3. v \in Optional(Valves)
    BY <2>1, <2>2 DEF RecordSet
  <2> QED BY <2>2, <2>3, ShownHasRow
<1>3. ASSUME Named(n) # {} PROVE u \in Named(n)
  BY <1>3
<1> HIDE DEF held, v, u
<1> QED BY <1>0, <1>1, <1>2, <1>3 DEF Named

-----------------------------------------------------------------------------
(* The plan. *)

(* A record still has its valve, and then its keys too unless there is     *)
(* evidence; or it is another valve's and in use.                          *)
PlanFollows(data, p) ==
    \A r \in Exist(data) :
      /\ p.rec[r].ack = data.rec[r].ack
      /\ \/ /\ p.rec[r].valve = data.rec[r].valve
            /\ Cleared(data.rec[r]) \/ data.rec[r].keys \subseteq p.rec[r].keys
         \/ p.rec[r].valve # data.rec[r].valve /\ p.rec[r].active # None

PlansAfter(data, snap) ==
    {p \in SoundPlans(Exist(data)) : PlanFollows(data, p) /\ InUse(p, snap)}

(* A plan whose records keep their identity and their keys. *)
LEMMA SamePlan ==
  ASSUME NEW data, NEW snap, NEW p \in PlansAfter(data, snap), NEW q \in SoundPlans(Exist(data)),
         Exist(q) = Exist(p),
         \A r \in Exist(p) : /\ q.rec[r].valve = p.rec[r].valve
                             /\ q.rec[r].active = p.rec[r].active
                             /\ q.rec[r].ack = p.rec[r].ack
                             /\ p.rec[r].keys \subseteq q.rec[r].keys
  PROVE  q \in PlansAfter(data, snap)
<1>1. Exist(data) \subseteq Exist(p) /\ PlanFollows(data, p) /\ InUse(p, snap)
  BY DEF PlansAfter, SoundPlans
<1>2. PlanFollows(data, q)
  BY <1>1 DEF PlanFollows
<1>3. InUse(q, snap)
  BY <1>1 DEF InUse
<1> QED BY <1>2, <1>3 DEF PlansAfter

LEMMA ConflictAfter ==
  ASSUME NEW data, NEW snap, NEW p \in PlansAfter(data, snap),
         NEW marked \in SUBSET Exist(p), NEW kind \in {"none", "conflict"}
  PROVE  Conflict(p, marked, kind) \in PlansAfter(data, snap)
<1> DEFINE q == Conflict(p, marked, kind)
           E == Exist(data)
<1>0. /\ p \in SoundPlans(E) /\ Exist(p) \subseteq Records /\ p.rec \in RecordMaps
      /\ \A r \in Exist(p) : p.rec[r] \in RecordSet
      /\ NoRecord \notin RecordSet
  BY PlanParts DEF PlansAfter
<1>1. q \in SoundPlans(E)
  BY <1>0, ConflictSound
<1>2. \A r \in Records : q.rec[r] = IF r \notin marked THEN p.rec[r]
                         ELSE [p.rec[r] EXCEPT !.incident = kind, !.keys = @ \cup {NotProvenOff}]
  BY <1>0 DEF Conflict, SoundPlans, Plans
<1> HIDE DEF q, E
<1>3. \A r \in Exist(p) : /\ q.rec[r].valve = p.rec[r].valve
                          /\ q.rec[r].active = p.rec[r].active
                          /\ q.rec[r].ack = p.rec[r].ack
                          /\ p.rec[r].keys \subseteq q.rec[r].keys
                          /\ q.rec[r] # NoRecord
  <2> SUFFICES ASSUME NEW r \in Exist(p)
               PROVE  /\ q.rec[r].valve = p.rec[r].valve
                      /\ q.rec[r].active = p.rec[r].active
                      /\ q.rec[r].ack = p.rec[r].ack
                      /\ p.rec[r].keys \subseteq q.rec[r].keys
                      /\ q.rec[r] # NoRecord
    OBVIOUS
  <2>1. CASE r \notin marked
    BY <1>0, <1>2, <2>1 DEF Exist
  <2>2. CASE r \in marked
    <3> DEFINE K == p.rec[r].keys \cup {NotProvenOff}
    <3>1. q.rec[r] = [p.rec[r] EXCEPT !.incident = kind, !.keys = K]
      BY <1>0, <1>2, <2>2
    <3>2. p.rec[r].keys \subseteq K /\ K \in SUBSET KeyKinds
      BY <1>0 DEF RecordSet, KeyKinds
    <3>3. p.rec[r] \in RecordSet
      BY <1>0
    <3> HIDE DEF K
    <3> DEFINE old == p.rec[r]
               new == q.rec[r]
    <3> HIDE DEF old, new
    <3>4. new = [old EXCEPT !.incident = kind, !.keys = K] /\ old \in RecordSet
      BY <3>1, <3>3 DEF old, new
    <3>5. /\ new \in RecordSet /\ new.valve = old.valve /\ new.active = old.active
          /\ new.ack = old.ack /\ new.keys = K
      BY <3>2, <3>4 DEF RecordSet
    <3> QED BY <1>0, <3>2, <3>5 DEF old, new
  <2> QED BY <2>1, <2>2
<1>4. Exist(q) = Exist(p)
  <2>1. \A r \in Records : q.rec[r] # NoRecord => p.rec[r] # NoRecord
    BY <1>2 DEF Exist
  <2> QED BY <1>0, <1>3, <2>1 DEF Exist
<1>5. q \in PlansAfter(data, snap)
  BY <1>1, <1>3, <1>4, SamePlan DEF E
<1> QED BY <1>5 DEF q

(* A record becomes zone z's. *)
LEMMA ActivateAfter ==
  ASSUME NEW data \in Stores, NEW snap, NamesMean(snap), NEW z \in DOMAIN snap \cap Zones,
         NEW p \in PlansAfter(data, snap), NEW hist, NEW r \in Exist(p), NEW h,
         snap[z] \in Identities, h \in Records,
         Activate(p, hist, z, snap[z], r, h) \in SoundPlans(Exist(data)),
         r \in Exist(data) => p.rec[r].valve = snap[z].valve \/ p.rec[r].active = None
  PROVE  Activate(p, hist, z, snap[z], r, h) \in PlansAfter(data, snap)
<1> DEFINE s == snap[z]
           F == IF p.rec[r].history # h THEN p.rec[r].former \cup {p.rec[r].history}
                ELSE p.rec[r].former
           rec == [p.rec[r] EXCEPT
                  !.zone = z, !.active = z, !.life = "ACTIVE",
                  !.applied = <<z, s.name, s.valve>>, !.valve = s.valve, !.name = s.entity,
                  !.status = "CONFIRMED", !.incident = "none",
                  !.former = F, !.history = h]
           open == hist[h].session # None
           a == AssessName(s.entity)
           new == ReconcileActive(rec, open, a, FALSE)
           q == Activate(p, hist, z, s, r, h)
<1>0. /\ p \in SoundPlans(Exist(data)) /\ PlanFollows(data, p) /\ InUse(p, snap)
      /\ p.rec \in RecordMaps /\ Exist(p) \subseteq Records /\ p.rec[r] \in RecordSet
      /\ p.rec[r].history \in Records /\ Exist(data) \subseteq Exist(p)
  BY PlanParts DEF PlansAfter
<1>1. /\ rec \in RecordSet /\ rec.valve = s.valve /\ rec.active = z /\ rec.ack = p.rec[r].ack
      /\ rec.keys = p.rec[r].keys
  <2>1. /\ s.name \in Names /\ s.valve \in Optional(Valves) /\ s.entity \in Optional(Names)
        /\ <<z, s.name, s.valve>> \in Optional(Zones \X Names \X Optional(Valves))
        /\ z \in Optional(Zones)
    BY DEF Identities, Optional
  <2>2. F \in SUBSET Records
    BY <1>0 DEF RecordSet
  <2> HIDE DEF F, s
  <2> QED BY <1>0, <2>1, <2>2 DEF RecordSet
<1>2. q.rec = [p.rec EXCEPT ![r] = new]
  BY <1>0 DEF Activate, SoundPlans, Plans
<1>3. a = "off" => s.valve \in Valves /\ Assess(s.valve) = "off"
  BY NameMeans DEF NamesMean
<1> HIDE DEF rec, open, a, q, s
<1>4. /\ new.valve = s.valve /\ new.active = z /\ new.ack = p.rec[r].ack
      /\ a = "off" \/ p.rec[r].keys \subseteq new.keys
  <2> DEFINE certified == FALSE
             judged == ReconcileActive(rec, open, a, certified)
  <2>1. ~certified /\ new = judged
    OBVIOUS
  <2> HIDE DEF certified
  <2>2. SameIdentity(judged, rec)
    BY <1>1, ReconcileActiveSound
  <2>3. /\ judged.ack = rec.ack
        /\ a = "off" \/ (a = "absent" /\ certified) \/ rec.keys \subseteq judged.keys
    BY <1>1, ActiveKeys
  <2> HIDE DEF judged, new
  <2> QED BY <1>1, <2>1, <2>2, <2>3 DEF SameIdentity
<1> HIDE DEF new
<1>5. q.rec[r] = new /\ \A x \in Records \ {r} : q.rec[x] = p.rec[x]
  BY <1>0, <1>2 DEF RecordMaps
<1>6. z # None /\ Exist(data) \subseteq Records
  BY <1>0, Constants
<1>7. PlanFollows(data, q)
  <2> SUFFICES ASSUME NEW x \in Exist(data)
               PROVE  /\ q.rec[x].ack = data.rec[x].ack
                      /\ \/ /\ q.rec[x].valve = data.rec[x].valve
                            /\ Cleared(data.rec[x]) \/ data.rec[x].keys \subseteq q.rec[x].keys
                         \/ q.rec[x].valve # data.rec[x].valve /\ q.rec[x].active # None
    BY DEF PlanFollows
  <2>1. CASE x # r
    BY <1>0, <1>5, <1>6, <2>1 DEF PlanFollows
  <2>2. CASE x = r
    <3>1. q.rec[r].ack = data.rec[r].ack
      BY <1>0, <1>4, <1>5, <2>2 DEF PlanFollows
    <3>2. CASE s.valve # data.rec[r].valve
      BY <1>4, <1>5, <1>6, <2>2, <3>1, <3>2
    <3>3. CASE s.valve = data.rec[r].valve
      <4>1. p.rec[r].valve = data.rec[r].valve
        BY <1>0, <2>2, <3>3 DEF PlanFollows, s
      <4>2. Cleared(data.rec[r]) \/ data.rec[r].keys \subseteq p.rec[r].keys
        BY <1>0, <2>2, <4>1 DEF PlanFollows
      <4>3. a = "off" => Cleared(data.rec[r])
        BY <1>3, <3>3 DEF Cleared
      <4> QED BY <1>4, <1>5, <2>2, <3>1, <3>3, <4>2, <4>3
    <3> QED BY <3>2, <3>3
  <2> QED BY <2>1, <2>2
<1>8. InUse(q, snap)
  <2> SUFFICES ASSUME NEW x \in Exist(q), q.rec[x].active # None
               PROVE  q.rec[x].active \in DOMAIN snap /\ q.rec[x].valve = snap[q.rec[x].active].valve
    BY DEF InUse
  <2>1. CASE x = r
    BY <1>4, <1>5, <2>1 DEF s
  <2>2. CASE x # r
    <3>1. q.rec[x] = p.rec[x] /\ x \in Exist(p)
      BY <1>5, <2>2 DEF Exist
    <3> QED BY <1>0, <3>1 DEF InUse
  <2> QED BY <2>1, <2>2
<1> QED BY <1>7, <1>8 DEF PlansAfter, q, s

(* Zone z takes record r. *)
LEMMA TakeRecordAfter ==
  ASSUME NEW data \in Stores, NEW snap, NamesMean(snap), NEW z \in DOMAIN snap \cap Zones,
         snap[z] \in Identities, NEW p \in PlansAfter(data, snap), NEW r \in Exist(p),
         NEW prior \in Exist(data) \cup {None},
         \A q \in Exist(p) \ {r} : snap[z].valve = None \/ p.rec[q].valve # snap[z].valve,
         r \in Exist(data) => p.rec[r].valve = snap[z].valve \/ p.rec[r].active = None
  PROVE  TakeRecord(p, data, z, snap[z], r, prior) \in PlansAfter(data, snap)
<1> DEFINE s == snap[z]
           E == Exist(data)
           old == p.rec[r].history
           h == IF prior # None THEN data.rec[prior].history ELSE old
           merges == old # h
           hist == IF merges THEN MergeHistory(p, r, h) ELSE p.hist
           continues == IF prior = None THEN SameActuator(p.rec[r], s)
                        ELSE r = prior /\ SameActuator(data.rec[prior], s)
           taken == TakeRecord(p, data, z, s, r, prior)
           c == Conflict(p, {}, "none")
<1>0. /\ p \in SoundPlans(E) /\ old \in Records
  BY PlanParts DEF PlansAfter
<1>1. h \in Records
  <2>1. \A q \in Exist(data) : data.rec[q] \in RecordSet
    BY Existing DEF Stores
  <2> QED BY <1>0, <2>1 DEF RecordSet
<1>2. taken \in SoundPlans(E)
  BY <1>0, TakeRecordSound
<1>3. c \in PlansAfter(data, snap)
  BY ConflictAfter
<1>4. taken \in {p, c, [c EXCEPT !.hist = hist], Activate(p, hist, z, s, r, h)}
  <2>1. taken =
          IF NoHistory \in {p.hist[h], p.hist[old]} THEN p
          ELSE IF merges /\ p.hist[old].session # None THEN c
          ELSE IF hist[h].session # None /\ ~continues THEN [c EXCEPT !.hist = hist]
          ELSE Activate(p, hist, z, s, r, h)
    BY DEF TakeRecord
  <2> HIDE DEF taken, c, hist, continues, h, old, s
  <2> QED BY <2>1
<1> HIDE DEF taken, c, hist, h, E
<1>5. CASE taken = [c EXCEPT !.hist = hist]
  <2>1. taken.rec = c.rec
    BY <1>3, <1>5 DEF PlansAfter, SoundPlans, Plans
  <2>2. Exist(taken) = Exist(c)
    BY <2>1 DEF Exist
  <2>3. taken \in PlansAfter(data, snap)
    BY <1>2, <1>3, <2>1, <2>2, SamePlan DEF E
  <2> QED BY <2>3 DEF taken
<1>6. CASE taken = Activate(p, hist, z, s, r, h)
  <2>1. Activate(p, hist, z, snap[z], r, h) \in SoundPlans(Exist(data))
    BY <1>2, <1>6 DEF E
  <2>2. Activate(p, hist, z, snap[z], r, h) \in PlansAfter(data, snap)
    BY <1>1, <2>1, ActivateAfter
  <2> QED BY <1>6, <2>2 DEF taken
<1> QED BY <1>3, <1>4, <1>5, <1>6 DEF taken

(* A clean record. *)
LEMMA MintedAfter ==
  ASSUME NEW data, NEW snap, NEW p \in PlansAfter(data, snap), NEW z \in DOMAIN snap \cap Zones,
         snap[z] \in Identities, Exact(p, snap[z]) = {}, Unused(p) # {}
  PROVE  LET r == Fresh(p)
             minted == [p EXCEPT !.rec[r] = NewRecord(z, snap[z], r), !.hist[r] = NewHistory(z)]
         IN  /\ minted \in PlansAfter(data, snap) /\ r \in Exist(minted) \ Exist(data)
             /\ \A q \in Exist(minted) \ {r} : snap[z].valve = None \/ minted.rec[q].valve # snap[z].valve
<1> DEFINE s == snap[z]
           r == Fresh(p)
           new == NewRecord(z, s, r)
           minted == [p EXCEPT !.rec[r] = new, !.hist[r] = NewHistory(z)]
<1>0. /\ p \in SoundPlans(Exist(data)) /\ p.rec \in RecordMaps /\ Exist(data) \subseteq Exist(p)
      /\ PlanFollows(data, p) /\ InUse(p, snap) /\ Exist(p) \subseteq Records
  BY PlanParts DEF PlansAfter
<1>1. /\ minted \in SoundPlans(Exist(data)) /\ r \in Exist(minted)
      /\ \A q \in Exist(minted) \ {r} : s.valve = None \/ minted.rec[q].valve # s.valve
  BY <1>0, MintedSound
<1>2. r \in Unused(p)
  BY FreshIsUnused
<1>3. new.valve = s.valve /\ new.active = z
  BY DEF NewRecord
<1>4. minted.rec = [p.rec EXCEPT ![r] = new]
  BY <1>0 DEF SoundPlans, Plans
<1> HIDE DEF r, new, minted, s
<1>5. minted.rec[r] = new /\ \A q \in Records \ {r} : minted.rec[q] = p.rec[q]
  BY <1>0, <1>2, <1>4 DEF RecordMaps, Unused
<1>6. r \notin Exist(p)
  BY <1>2 DEF Unused, Exist
<1>7. PlanFollows(data, minted)
  <2>1. \A q \in Exist(data) : minted.rec[q] = p.rec[q]
    BY <1>0, <1>5, <1>6
  <2> QED BY <1>0, <2>1 DEF PlanFollows
<1>8. InUse(minted, snap)
  <2> SUFFICES ASSUME NEW x \in Exist(minted), minted.rec[x].active # None
               PROVE  /\ minted.rec[x].active \in DOMAIN snap
                      /\ minted.rec[x].valve = snap[minted.rec[x].active].valve
    BY DEF InUse
  <2>1. CASE x = r
    BY <1>3, <1>5, <2>1 DEF s
  <2>2. CASE x # r
    <3>1. minted.rec[x] = p.rec[x] /\ x \in Exist(p)
      BY <1>5, <2>2 DEF Exist
    <3> QED BY <1>0, <3>1 DEF InUse
  <2> QED BY <2>1, <2>2
<1>9. minted \in PlansAfter(data, snap) /\ r \in Exist(minted) \ Exist(data)
  BY <1>0, <1>1, <1>6, <1>7, <1>8 DEF PlansAfter
<1> QED BY <1>1, <1>9 DEF minted, new, r, s

(* _plan_reconciled_store, one zone. *)
LEMMA PlanZoneAfter ==
  ASSUME NEW data \in Stores, NEW snap, NamesMean(snap), NEW z \in DOMAIN snap \cap Zones,
         snap[z] \in Identities, NEW p \in PlansAfter(data, snap)
  PROVE  PlanZone(p, data, snap, z) \in PlansAfter(data, snap)
<1> DEFINE s == snap[z]
           priors == {r \in Exist(data) : data.rec[r].active = z}
           prior == IF priors = {} THEN None ELSE CHOOSE r \in priors : TRUE
           exact == Exact(p, s)
           textual == {r \in Exist(p) : p.rec[r].name = s.entity
                                          /\ p.rec[r].valve \notin {None, s.valve}}
           claimed == {r \in Exist(p) : p.rec[r].active = z \/ p.rec[r].zone = z}
           chosen == Select(p, z, s)
           r0 == Fresh(p)
           c == CHOOSE r \in chosen : TRUE
           minted == [p EXCEPT !.rec[r0] = NewRecord(z, s, r0), !.hist[r0] = NewHistory(z)]
<1>0. p \in SoundPlans(Exist(data))
  BY DEF PlansAfter
<1>1. PlanZone(p, data, snap, z) =
        IF s.ambiguous THEN Conflict(p, exact \cup claimed, "conflict")
        ELSE IF Cardinality(exact) > 1 \/ textual # {}
        THEN Conflict(p, exact \cup textual, "conflict")
        ELSE IF chosen # {} THEN TakeRecord(p, data, z, s, c, prior)
        ELSE IF Named(s.entity) = {} THEN Conflict(p, {}, "none")
        ELSE IF Unused(p) = {} THEN [p EXCEPT !.full = TRUE]
        ELSE TakeRecord(minted, data, z, s, r0, prior)
  BY DEF PlanZone
<1>2. prior \in Exist(data) \cup {None}
  OBVIOUS
<1>3. exact \cup claimed \in SUBSET Exist(p) /\ exact \cup textual \in SUBSET Exist(p)
  BY DEF Exact
<1>4. /\ Conflict(p, exact \cup claimed, "conflict") \in PlansAfter(data, snap)
      /\ Conflict(p, exact \cup textual, "conflict") \in PlansAfter(data, snap)
      /\ Conflict(p, {}, "none") \in PlansAfter(data, snap)
  <2> HIDE DEF exact, claimed, textual
  <2> QED BY <1>3, ConflictAfter
<1>5. ASSUME chosen # {} PROVE TakeRecord(p, data, z, s, c, prior) \in PlansAfter(data, snap)
  <2>1. c \in chosen
    BY <1>5
  <2>2. CASE exact # {}
    <3>1. c \in Exist(p) /\ s.valve # None /\ p.rec[c].valve = s.valve
      BY <2>1, <2>2 DEF Select, Exact
    <3>2. \A q \in Exist(p) \ {c} : p.rec[q].valve # s.valve
      BY <1>0, <3>1, PlanParts DEF OnePerValve
    <3> HIDE DEF c, prior
    <3> QED BY <1>2, <3>1, <3>2, TakeRecordAfter
  <2>3. CASE exact = {}
    <3>1. c \in Exist(p) /\ p.rec[c].active = None
      BY <2>1, <2>3 DEF Select
    <3>2. \A q \in Exist(p) \ {c} : s.valve = None \/ p.rec[q].valve # s.valve
      BY <2>3 DEF Exact
    <3> HIDE DEF c, prior
    <3> QED BY <1>2, <3>1, <3>2, TakeRecordAfter
  <2> QED BY <2>2, <2>3
<1>6. [p EXCEPT !.full = TRUE] \in PlansAfter(data, snap)
  <2> DEFINE q == [p EXCEPT !.full = TRUE]
  <2>1. q \in Plans /\ q.rec = p.rec /\ Exist(data) \subseteq Exist(p) /\ OnePerValve(p)
    BY <1>0 DEF SoundPlans, Plans
  <2> HIDE DEF q
  <2>2. Exist(q) = Exist(p) /\ q \in SoundPlans(Exist(data))
    BY <2>1 DEF SoundPlans, Exist, OnePerValve
  <2>3. q \in PlansAfter(data, snap)
    BY <2>1, <2>2, SamePlan
  <2> QED BY <2>3 DEF q
<1>7. ASSUME chosen = {}, Unused(p) # {}
      PROVE  TakeRecord(minted, data, z, s, r0, prior) \in PlansAfter(data, snap)
  <2>1. Exact(p, s) = {}
    BY <1>7 DEF Select
  <2>2. /\ minted \in PlansAfter(data, snap) /\ r0 \in Exist(minted) \ Exist(data)
        /\ \A q \in Exist(minted) \ {r0} : s.valve = None \/ minted.rec[q].valve # s.valve
    BY <1>7, <2>1, MintedAfter
  <2> HIDE DEF minted, r0, prior
  <2> QED BY <1>2, <2>2, TakeRecordAfter
<1> HIDE DEF s, prior, exact, textual, claimed, chosen, r0, c, minted
<1> QED BY <1>1, <1>4, <1>5, <1>6, <1>7

(* First the records whose zone is gone or has another valve. *)
LEMMA TombstonedAfter ==
  ASSUME Rows, NEW data \in Stores, Linked(data), OnePerValve(data), NEW snap
  PROVE  Tombstoned(data, snap) \in PlansAfter(data, snap)
<1> DEFINE p == Tombstoned(data, snap)
<1>0. /\ Exist(data) \subseteq Records /\ NoRecord \notin RecordSet
      /\ \A r \in Exist(data) : data.rec[r] \in RecordSet
  BY Existing DEF Stores
<1>1. p \in SoundPlans(Exist(data))
  BY TombstonedSound
<1>2. p.rec = [r \in Records |-> IF r \in Exist(data) THEN Tombstone(data, snap, r) ELSE NoRecord]
  BY DEF Tombstoned
<1> HIDE DEF p
<1>3. Exist(p) \subseteq Exist(data) /\ \A r \in Exist(data) : p.rec[r] = Tombstone(data, snap, r)
  BY <1>0, <1>2 DEF Exist
<1>4. ASSUME NEW r \in Exist(data)
      PROVE  /\ p.rec[r].ack = data.rec[r].ack /\ p.rec[r].valve = data.rec[r].valve
             /\ Cleared(data.rec[r]) \/ data.rec[r].keys \subseteq p.rec[r].keys
             /\ p.rec[r].active # None => /\ p.rec[r].active \in DOMAIN snap
                                          /\ p.rec[r].valve = snap[p.rec[r].active].valve
  <2> DEFINE rec == data.rec[r]
             freed == [rec EXCEPT !.active = None]
             open == Session(data, r) # None
             new == ReconcileRetained(freed, open)
  <2>0. rec \in RecordSet
    BY <1>0
  <2>1. /\ freed \in RecordSet /\ freed.valve = rec.valve /\ freed.ack = rec.ack
        /\ freed.keys = rec.keys /\ freed.active = None
    BY <2>0 DEF RecordSet, Optional
  <2>2. \/ p.rec[r] = rec /\ rec.active \in DOMAIN snap /\ SameActuator(rec, snap[rec.active])
        \/ p.rec[r] = new
    BY <1>3 DEF Tombstone
  <2> HIDE DEF rec, freed, open
  <2>3. /\ SameIdentity(new, freed) /\ new.ack = freed.ack
        /\ Cleared(freed) \/ freed.keys \subseteq new.keys
    BY <2>1, ReconcileRetainedSound, RetainedKeys
  <2> HIDE DEF new
  <2>4. CASE p.rec[r] = rec /\ rec.active \in DOMAIN snap /\ SameActuator(rec, snap[rec.active])
    BY <2>4 DEF SameActuator, rec
  <2>5. CASE p.rec[r] = new
    BY <2>1, <2>3, <2>5 DEF SameIdentity, Cleared, rec
  <2> QED BY <2>2, <2>4, <2>5
<1>5. PlanFollows(data, p)
  BY <1>4 DEF PlanFollows
<1>6. InUse(p, snap)
  BY <1>3, <1>4 DEF InUse
<1> QED BY <1>1, <1>5, <1>6 DEF PlansAfter, p

(* _plan_reconciled_store *)
LEMMA PlanAfter ==
  ASSUME Rows, NEW data \in Stores, Linked(data), OnePerValve(data), NEW snap \in Snapshots,
         NamesMean(snap)
  PROVE  PlanReconciledStore(data, snap) \in PlansAfter(data, snap)
<1>1. Tombstoned(data, snap) \in PlansAfter(data, snap)
  BY TombstonedAfter
<1>2. \A z \in DOMAIN snap : z \in Zones /\ snap[z] \in Identities
  BY DEF Snapshots
<1>3. \A p \in PlansAfter(data, snap), z \in DOMAIN snap \cap Zones :
        PlanZone(p, data, snap, z) \in PlansAfter(data, snap)
  BY <1>2, PlanZoneAfter
<1>4. PlanReconciledStore(data, snap) = PlanFrom(Tombstoned(data, snap), data, snap)
  BY DEF PlanReconciledStore, PlanFrom
<1> QED BY <1>1, <1>3, <1>4, PlanningStays

-----------------------------------------------------------------------------
(* The steps. *)

(* One name, one row. *)
OneRow == \A u, v \in Valves : registry[u] # None /\ registry[u] = registry[v] => u = v

(* With Inv, the inductive invariant. *)
NamesHold ==
    /\ OneRow
    /\ live.phase # "idle" => NamesMean(live.snap)
    /\ live.phase \in {"sync", "finish"} => InUse(store, live.snap)
    /\ live.phase = "finish" => BoundInUse(Now)

(* What KeysStay says of a step. *)
KeysKept ==
    \A r \in Exist(store), v \in Valves :
      LET was == store.rec[r]
          is == store'.rec[r]
      IN  was.valve = v /\ is.valve = v /\ ~(was.keys \subseteq is.keys) =>
            Assess(v)' = "off" \/ (registry'[v] = None /\ is.ack = v)

(* The names that the snapshot looks by do not come to mean other valves. *)
NamesStay ==
    /\ OneRow'
    /\ live.phase # "idle" =>
         \A z \in DOMAIN live.snap :
           {v \in Valves : registry'[v] = live.snap[z].entity} \subseteq {live.snap[z].valve}

LEMMA SameNames ==
  ASSUME NamesHold, registry' = registry
  PROVE  NamesStay
BY DEF NamesHold, NamesStay, OneRow, NamesMean, Named

(* Only records with evidence lost keys. *)
LEMMA EvidenceKept ==
  ASSUME NEW J, NEW d, Evidence(J, d, store'), Exist(store) = Exist(d),
         \A r \in Exist(store) : d.rec[r].valve = store.rec[r].valve
                                 /\ d.rec[r].keys = store.rec[r].keys,
         \A r \in J \cap Exist(store) : Cleared(store.rec[r])'
  PROVE  KeysKept
<1> SUFFICES ASSUME NEW r \in Exist(store), NEW v \in Valves,
                    store'.rec[r].valve = v, ~(store.rec[r].keys \subseteq store'.rec[r].keys)
             PROVE  Assess(v)' = "off" \/ (registry'[v] = None /\ store'.rec[r].ack = v)
  BY DEF KeysKept
<1>1. r \in J
  BY DEF Evidence
<1>2. Cleared(store.rec[r])'
  BY <1>1
<1> QED BY <1>2 DEF Cleared

(* The application goes on, or ends. *)
LEMMA NamesFollow ==
  ASSUME Inv, NamesHold, NamesStay, NEW J, NEW w \in Sound(Exist(store)), Commit(w),
         Steady(live, w.live), NEW d, Evidence(J, d, w.store), Exist(store) = Exist(d),
         \A r \in Exist(store) : d.rec[r].valve = store.rec[r].valve
                                 /\ d.rec[r].active = store.rec[r].active
  PROVE  NamesHold'
<1>0. /\ store' = w.store /\ live' = w.live /\ Exist(store') = Exist(store)
      /\ Attached(live) \subseteq Exist(store)
  BY SoundParts, NowSound DEF Commit, Inv
<1>1. \A r \in Exist(store) : store'.rec[r].valve = store.rec[r].valve
                              /\ store'.rec[r].active = store.rec[r].active
  BY <1>0 DEF Evidence
<1>2. /\ live'.bound = live.bound /\ live'.snap = live.snap /\ live'.phase \in {live.phase, "idle"}
  BY <1>0 DEF Steady
<1>3. OneRow' /\ (live'.phase # "idle" => NamesMean(live.snap)')
  BY <1>2 DEF NamesStay, NamesMean, Named
<1>4. live'.phase \in {"sync", "finish"} => InUse(store', live.snap)
  BY <1>0, <1>1, <1>2 DEF NamesHold, InUse
<1>5. live'.phase = "finish" => BoundInUse(Now)'
  <2> SUFFICES ASSUME live'.phase = "finish", NEW z \in Zones, live'.bound[z] # None
               PROVE  z \in DOMAIN live'.snap /\ store'.rec[live'.bound[z]].active = z
    BY DEF BoundInUse, Now
  <2>1. live.phase = "finish" /\ live.bound[z] # None
    BY <1>2
  <2>2. z \in DOMAIN live.snap /\ store.rec[live.bound[z]].active = z
    BY <2>1 DEF NamesHold, BoundInUse, Now
  <2>3. live.bound[z] \in Exist(store)
    BY <1>0, <2>1 DEF Attached, Bound
  <2> QED BY <1>1, <1>2, <2>2, <2>3
<1> QED BY <1>2, <1>3, <1>4, <1>5 DEF NamesHold, NamesMean, Named, InUse

(* A step that is a world that follows the present one. *)
LEMMA FollowedStep ==
  ASSUME Inv, NamesHold, NamesStay, NEW J, NEW w \in Sound(Exist(store)), Commit(w),
         Follows(J, Now, w),
         \A r \in J \cap Exist(store) : Cleared(store.rec[r])'
  PROVE  KeysKept /\ NamesHold'
<1>1. Evidence(J, store, w.store) /\ Steady(live, w.live) /\ store' = w.store
  BY DEF Follows, Now, Commit
<1>2. KeysKept
  BY <1>1, EvidenceKept
<1>3. NamesHold'
  BY <1>1, NamesFollow
<1> QED BY <1>2, <1>3

(* Nothing but the Store and the runtime changes. *)
LEMMA QuietStep ==
  ASSUME Inv, NamesHold, NEW w \in Sound(Exist(store)), Commit(w), UNCHANGED world,
         Follows(ClearedIn(store), Now, w)
  PROVE  KeysKept /\ NamesHold'
<1>1. Evidence(ClearedIn(store), store, store')
  BY DEF Follows, Now, Commit
<1>2. \A v : Assess(v)' = Assess(v) /\ registry' = registry
  BY DEF world, Assess, Shows
<1>3. \A r \in ClearedIn(store) \cap Exist(store) : Cleared(store.rec[r])'
  BY <1>1, <1>2 DEF ClearedIn, Cleared, Evidence
<1> QED BY <1>2, <1>3, SameNames, FollowedStep

(* A pulse starts, ends, or does not end. *)
LEMMA PulseKeys ==
  ASSUME Inv, NamesHold,
         \/ \E z \in Zones : StartWater(z)
         \/ \E r \in Records : EndWater(r) \/ OffFails(r)
  PROVE  KeysKept /\ NamesHold'
<1> DEFINE E == Exist(store)
<1>0. /\ Now \in Sound(E) /\ Now.store = store /\ store \in Stores /\ Attached(live) \subseteq E
      /\ E \subseteq Records /\ \A r \in E : store.rec[r] \in RecordSet
  BY NowSound, SoundParts DEF Inv, Now
<1>1. ASSUME NEW z \in Zones, StartWater(z) PROVE KeysKept /\ NamesHold'
  <2> DEFINE r == live.bound[z]
             w == Persist(Now, r, r, "none")
             J == {}
  <2>0. r # None /\ Commit(w) /\ registry' = registry
    BY <1>1 DEF StartWater
  <2>1. r \in E /\ r \in Optional(Records)
    <3>1. r \in Attached(live)
      BY <2>0 DEF Attached, Bound
    <3> HIDE DEF r
    <3> QED BY <1>0, <3>1 DEF Optional
  <2>2. NamesStay
    BY <2>0, SameNames
  <2> HIDE DEF r, J
  <2>3. w \in Sound(E) /\ Follows(J, Now, w)
    BY <1>0, <2>1, PersistSound, PersistFollows
  <2> HIDE DEF w
  <2>4. \A q \in J \cap E : Cleared(store.rec[q])'
    BY DEF J
  <2> QED BY <2>0, <2>2, <2>3, <2>4, FollowedStep, Zenon
<1>2. ASSUME NEW r \in Records, EndWater(r) PROVE KeysKept /\ NamesHold'
  <2> DEFINE closed == CloseSession(Now, r)
             w == DropKey(closed, r, NotProvenOff)
  <2>0. PICK v : v = store.rec[r].valve
    OBVIOUS
  <2>1. /\ r \in E /\ NotProvenOff \in KeyKinds /\ Commit(w) /\ UNCHANGED <<registry, seen>>
        /\ Assess(v) \in {"off", "on"} /\ water' = [water EXCEPT ![v] = "closed"]
    BY <1>0, <1>2, <2>0 DEF EndWater, KeyKinds
  <2>2. closed \in Sound(E) /\ Follows({r}, Now, closed)
    BY <1>0, <2>1, CloseSessionSound, CloseSessionFollows
  <2>3. w \in Sound(E) /\ Follows({r}, closed, w)
    <3> HIDE DEF closed
    <3> QED BY <2>1, <2>2, KeysSound, KeysFollow
  <2>4. Exist(closed.store) = Exist(Now.store)
    BY <1>0, <2>2, SoundParts
  <2>5. Follows({r}, Now, w)
    <3> HIDE DEF closed, w
    <3> QED BY <2>2, <2>3, <2>4, FollowsOn
  <2> HIDE DEF closed, w
  <2>6. w.store.rec[r].valve = v /\ store' = w.store
    BY <1>0, <2>0, <2>1, <2>5 DEF Follows, Evidence, Commit
  <2>7. Cleared(store.rec[r])'
    <3> SUFFICES ASSUME v \in Valves PROVE Assess(v)' = "off"
      BY <2>6 DEF Cleared
    <3>1. v # None /\ registry[v] # None /\ seen[v]
      BY <2>1, Constants DEF Assess, Shows
    <3>2. water'[v] = "closed"
      BY <2>1 DEF Inv
    <3> QED BY <2>1, <3>1, <3>2 DEF Assess, Shows
  <2> QED BY <2>1, <2>3, <2>5, <2>7, SameNames, FollowedStep
<1>3. ASSUME NEW r \in Records, OffFails(r) PROVE KeysKept /\ NamesHold'
  <2> DEFINE faulted == Persist(Now, r, r, "OFF_TIMEOUT")
             w == AddKey(faulted, r, OffUnconfirmed)
             J == ClearedIn(store)
  <2>1. /\ r \in E /\ OffUnconfirmed \in KeyKinds /\ r \in Optional(Records)
        /\ Commit(w) /\ UNCHANGED world
    BY <1>0, <1>3 DEF OffFails, KeyKinds, Optional
  <2> HIDE DEF J
  <2>2. faulted \in Sound(E) /\ Follows(J, Now, faulted)
    BY <1>0, <2>1, PersistSound, PersistFollows
  <2>3. w \in Sound(E) /\ Follows(J, faulted, w)
    <3> HIDE DEF faulted
    <3> QED BY <2>1, <2>2, KeysSound, KeysFollow
  <2>4. Exist(faulted.store) = Exist(Now.store)
    BY <1>0, <2>2, SoundParts
  <2>5. Follows(J, Now, w)
    <3> HIDE DEF faulted, w
    <3> QED BY <2>2, <2>3, <2>4, FollowsOn
  <2> HIDE DEF w
  <2> QED BY <2>1, <2>3, <2>5, QuietStep DEF J
<1> QED BY <1>1, <1>2, <1>3

(* Every listener of a valve is told what it shows. *)
LEMMA NotifyKeys ==
  ASSUME Inv, NamesHold, NamesStay, NEW v, NEW a, NEW b, Notify(v, a, b), b = Assess(v)'
  PROVE  KeysKept /\ NamesHold'
<1> DEFINE E == Exist(store)
           J == {r \in Listeners(v) : b = "off"}
           noticed == NoticedBy(Now, Listeners(v), a, b)
<1>0. Now \in Sound(E) /\ Now.store = store /\ Listeners(v) \subseteq E
  BY NowSound DEF Inv, Now, Listeners
<1>1. noticed \in Sound(E) /\ Follows(J, Now, noticed)
  <2>1. b = "off" => Listeners(v) \subseteq J
    OBVIOUS
  <2> HIDE DEF J
  <2> QED BY <1>0, <2>1, NoticedByFollows DEF Followers
<1>2. \A r \in J : store.rec[r].valve = v /\ Assess(v)' = "off"
  BY DEF Listeners
<1>3. PICK w \in {noticed, Now} : Commit(w)
  BY DEF Notify
<1> HIDE DEF noticed, J
<1>4. w \in Sound(E) /\ Follows(J, Now, w)
  BY <1>0, <1>1, <1>3, FollowsItself
<1>5. \A r \in J \cap E : Cleared(store.rec[r])'
  <2>1. \A r \in E : store'.rec[r].valve = store.rec[r].valve
    BY <1>0, <1>3, <1>4 DEF Follows, Evidence, Commit
  <2> QED BY <1>2, <2>1 DEF Cleared
<1> QED BY <1>3, <1>4, <1>5, FollowedStep

(* The name of one row changes. *)
LEMMA RowNames ==
  ASSUME Inv, NamesHold, NEW v \in Valves, NEW n, registry' = [registry EXCEPT ![v] = n],
         n = None \/ Untaken(v, n)
  PROVE  NamesStay
<1>1. registry'[v] = n /\ \A u \in Valves \ {v} : registry'[u] = registry[u]
  BY DEF Inv, Rows
<1>2. n # None => \A u \in Valves : registry[u] # n
  BY DEF Untaken, Named
<1>3. OneRow'
  BY <1>1, <1>2 DEF OneRow, NamesHold
<1>4. ASSUME live.phase # "idle", NEW z \in DOMAIN live.snap, NEW u \in Valves,
             registry'[u] = live.snap[z].entity
      PROVE  u = live.snap[z].valve
  <2>1. live.snap[z].entity # n
    <3>1. CASE n = None
      <4>1. live.snap \in Snapshots /\ None \notin Names
        BY NowSound, Constants DEF Inv, Runtimes
      <4>2. live.snap[z] \in Identities
        BY <4>1 DEF Snapshots
      <4> QED BY <3>1, <4>1, <4>2 DEF Identities
    <3>2. CASE n # None
      BY <1>4, <3>2 DEF Untaken
    <3> QED BY <3>1, <3>2
  <2>2. registry[u] = live.snap[z].entity
    BY <1>1, <1>4, <2>1
  <2> QED BY <1>4, <2>2 DEF NamesHold, NamesMean, Named
<1> QED BY <1>3, <1>4 DEF NamesStay

(* A change of the runtime that leaves the application as it is. *)
LEMMA MovedKeys ==
  ASSUME Inv, NamesHold, NamesStay, live' \in {Changed, live}, UNCHANGED <<store, ghost>>
  PROVE  KeysKept /\ NamesHold'
<1> DEFINE E == Exist(store)
           w == [Now EXCEPT !.live = live']
<1>0. Now \in Sound(E) /\ live \in Runtimes /\ Now.live = live /\ Attached(live) \subseteq E
  BY NowSound DEF Inv, Now
<1>1. live' \in Runtimes /\ Attached(live') \subseteq E /\ Steady(live, live')
  <2>1. Steady(live, Changed) /\ Steady(live, live)
    BY <1>0 DEF Changed, Runtimes, Steady
  <2> QED BY <1>0, <2>1, ChangedTyped
<1>2. w \in Sound(E)
  BY <1>0, <1>1, PutLive
<1>3. Follows({}, Now, w)
  BY <1>0, <1>1, LiveFollows
<1>4. Commit(w)
  BY DEF Commit, Now
<1> HIDE DEF w
<1> QED BY <1>2, <1>3, <1>4, FollowedStep

(* Subentries change. *)
LEMMA ConfigKeys ==
  ASSUME Inv, NamesHold, ConfigStep
  PROVE  KeysKept /\ NamesHold'
<1>1. live' = Changed /\ UNCHANGED <<store, ghost, world>>
  BY DEF ConfigStep, Delete, Configure
<1> QED BY <1>1, SameNames, MovedKeys DEF world

(* Rows go, come back and get other names. *)
LEMMA RegistryKeys ==
  ASSUME Inv, NamesHold, RegistryStep
  PROVE  KeysKept /\ NamesHold'
<1>1. PICK v \in Valves : RemoveRow(v) \/ \E n \in Names : RestoreRow(v, n) \/ RenameRow(v, n)
  BY DEF RegistryStep
<1>0. v # None /\ \A n \in Names : n # None
  BY Constants
<1>2. CASE RemoveRow(v)
  <2>1. NamesStay
    BY <1>2, RowNames DEF RemoveRow
  <2>2. Assess(v)' = "absent"
    BY <1>2 DEF RemoveRow, Assess, Shows, Inv, Rows
  <2> QED BY <1>2, <2>1, <2>2, NotifyKeys DEF RemoveRow
<1>3. ASSUME NEW n \in Names, RestoreRow(v, n) PROVE KeysKept /\ NamesHold'
  <2>1. NamesStay
    BY <1>3, RowNames DEF RestoreRow
  <2>2. Assess(v)' = Shows(n, water[v], seen[v])
    BY <1>0, <1>3 DEF RestoreRow, Assess, Inv, Rows
  <2> QED BY <1>3, <2>1, <2>2, NotifyKeys DEF RestoreRow
<1>4. ASSUME NEW n \in Names, RenameRow(v, n) PROVE KeysKept /\ NamesHold'
  <2>1. NamesStay
    BY <1>4, RowNames DEF RenameRow
  <2> QED BY <1>4, <2>1, MovedKeys DEF RenameRow
<1> QED BY <1>1, <1>2, <1>3, <1>4

(* Valves are turned, their states come and go. *)
LEMMA DeviceKeys ==
  ASSUME Inv, NamesHold, DeviceStep
  PROVE  KeysKept /\ NamesHold'
<1>1. PICK v \in Valves : Turned(v) \/ Flicker(v)
  BY DEF DeviceStep
<1>0. v # None /\ water \in [Valves -> {"closed", "ours", "theirs"}] /\ seen \in [Valves -> BOOLEAN]
  BY Constants DEF Inv
<1>2. NamesStay
  BY <1>1, SameNames DEF Turned, Flicker
<1>3. CASE Turned(v)
  <2> DEFINE w == IF water[v] = "closed" THEN "theirs" ELSE "closed"
  <2>1. /\ water' = [water EXCEPT ![v] = w] /\ UNCHANGED <<registry, seen>>
        /\ Notify(v, Assess(v), Shows(registry[v], w, seen[v]))
    BY <1>3 DEF Turned
  <2> HIDE DEF w
  <2>2. Assess(v)' = Shows(registry[v], w, seen[v])
    BY <1>0, <2>1 DEF Assess
  <2> QED BY <1>2, <2>1, <2>2, NotifyKeys
<1>4. CASE Flicker(v)
  <2>1. /\ seen' = [seen EXCEPT ![v] = ~seen[v]] /\ UNCHANGED <<registry, water>>
        /\ Notify(v, Assess(v), Shows(registry[v], water[v], ~seen[v]))
    BY <1>4 DEF Flicker
  <2>2. Assess(v)' = Shows(registry[v], water[v], ~seen[v])
    BY <1>0, <2>1 DEF Assess
  <2> QED BY <1>2, <2>1, <2>2, NotifyKeys
<1> QED BY <1>1, <1>3, <1>4

(* Starting to apply a snapshot: displaced sessions get controllers. *)
LEMMA BeginKeys ==
  ASSUME Inv, NamesHold, Begin
  PROVE  KeysKept /\ NamesHold'
<1> DEFINE E == Exist(store)
           J == ClearedIn(store)
           snap == BuildSnapshot(store)
           l == [live EXCEPT !.phase = "plan", !.snap = snap, !.moved = FALSE]
           start == [Now EXCEPT !.live.phase = "plan", !.live.snap = snap, !.live.moved = FALSE]
           R == Displaced(snap)
           w == Retain(start, R)
<1>0. /\ Now \in Sound(E) /\ Rows /\ store \in Stores /\ live \in Runtimes
      /\ Attached(live) \subseteq E
  BY NowSound DEF Inv
<1>1. snap \in Snapshots /\ NamesMean(snap)
  BY <1>0, SnapshotTyped, SnapshotNames DEF NamesHold, OneRow
<1>2. Commit(w) /\ UNCHANGED world /\ R \subseteq E
  BY DEF Begin, Displaced
<1> HIDE DEF snap
<1>3. l \in Runtimes /\ l.bound = live.bound /\ l.kept = live.kept /\ l.phase = "plan" /\ l.snap = snap
  BY <1>0, <1>1 DEF Runtimes
<1>4. Attached(l) \subseteq E
  BY <1>0, <1>3 DEF Attached, Bound
<1>5. start = [Now EXCEPT !.live = l] /\ start.store = store /\ start.live = l
  BY DEF Now
<1>6. start \in Sound(E)
  <2> HIDE DEF l, E
  <2> QED BY <1>0, <1>3, <1>4, <1>5, PutLive
<1> HIDE DEF start, l, R
<1>7. start \in Followers(J, E, start)
  BY <1>6, FollowsItself DEF Followers
<1>8. ASSUME NEW x \in Followers(J, E, start), NEW r \in R \cap Records
      PROVE  [Attach(x, r) EXCEPT !.live.kept = @ \cup {r}] \in Followers(J, E, start)
  <2> DEFINE y == [Attach(x, r) EXCEPT !.live.kept = @ \cup {r}]
  <2>1. x \in Sound(E) /\ Follows(J, start, x) /\ Exist(start.store) = Exist(x.store) /\ r \in E
    BY <1>2, <1>6, SoundParts DEF Followers
  <2>2. Assess(x.store.rec[r].valve) = "off" => r \in J
    BY <1>5, <2>1 DEF Follows, Evidence, ClearedIn, Cleared
  <2>3. y \in Sound(E) /\ Follows(J, x, y)
    <3> HIDE DEF J, E
    <3> QED BY <2>1, <2>2, KeptFollows
  <2> HIDE DEF y, J, E
  <2>4. Follows(J, start, y)
    BY <2>1, <2>3, FollowsOn
  <2> QED BY <2>3, <2>4 DEF Followers, y
<1>9. w \in Followers(J, E, start)
  <2> HIDE DEF J, E
  <2> QED BY <1>7, <1>8, RetainStays
<1> HIDE DEF w
<1>10. Evidence(J, store, store') /\ live'.snap = snap /\ live'.phase \in {"plan", "idle"}
  BY <1>2, <1>3, <1>5, <1>9 DEF Followers, Follows, Steady, Commit
<1>11. \A v : Assess(v)' = Assess(v) /\ registry' = registry
  BY <1>2 DEF world, Assess, Shows
<1>12. \A r \in J \cap E : Cleared(store.rec[r])'
  BY <1>10, <1>11 DEF ClearedIn, Cleared, Evidence
<1>13. KeysKept
  BY <1>10, <1>12, EvidenceKept
<1>14. NamesHold'
  BY <1>1, <1>10, <1>11 DEF NamesHold, OneRow, NamesMean, Named
<1> QED BY <1>13, <1>14

(* What is committed with a new Store. *)
Saved(data, K) == [Now EXCEPT !.store = data, !.live.keys = K]

LEMMA SavedParts ==
  ASSUME live \in Runtimes, NEW data, NEW K, NEW w,
         w = Failed(Saved(data, K)) \/ w = [Saved(data, K) EXCEPT !.live.phase = "sync"]
  PROVE  w.store = data /\ w.live.snap = live.snap /\ w.live.phase \in {"sync", "idle"}
<1> DEFINE X == [Now EXCEPT !.store = data]
           saved == Saved(data, K)
           l == [live EXCEPT !.keys = K]
<1>1. X = [store |-> data, live |-> live, ghost |-> ghost]
  BY DEF Now
<1>2. saved = [X EXCEPT !.live = [X.live EXCEPT !.keys = K]]
  BY DEF Saved
<1> HIDE DEF X, saved
<1>3. X.live = live
  BY <1>1
<1>4. saved = [X EXCEPT !.live = l]
  BY <1>2, <1>3
<1>5. /\ l.snap = live.snap
      /\ \A f \in {"idle", "sync"} : [l EXCEPT !.phase = f].snap = live.snap
                                     /\ [l EXCEPT !.phase = f].phase = f
      /\ \A s : \A f \in {"idle", "sync"} :
           LET m == [[l EXCEPT !.phase = f] EXCEPT !.status = s] IN
           m.snap = live.snap /\ m.phase = f
  BY DEF Runtimes
<1> HIDE DEF l
<1>6. saved = [store |-> data, live |-> l, ghost |-> ghost]
  BY <1>1, <1>4
<1>7. CASE w = [saved EXCEPT !.live.phase = "sync"]
  BY <1>5, <1>6, <1>7
<1>8. CASE w = Failed(saved)
  <2>1. w = [saved EXCEPT !.live = [[l EXCEPT !.phase = "idle"] EXCEPT !.status = "failed"]]
    BY <1>6, <1>8 DEF Failed
  <2> QED BY <1>5, <1>6, <2>1
<1> QED BY <1>7, <1>8 DEF saved

(* The plan is saved. *)
LEMMA PlanKeys ==
  ASSUME Inv, NamesHold, Plan
  PROVE  KeysKept /\ NamesHold'
<1> DEFINE E == Exist(store)
           p == PlanReconciledStore(store, live.snap)
           data == [rec |-> p.rec, hist |-> p.hist]
           saved == [Now EXCEPT !.store = data, !.live.keys = StoreKeys(data)]
<1>0. /\ Now \in Sound(E) /\ Rows /\ store \in Stores /\ live \in Runtimes
      /\ Linked(store) /\ OnePerValve(store) /\ live.snap \in Snapshots
  BY NowSound DEF Inv, Runtimes
<1>1. p \in PlansAfter(store, live.snap)
  BY <1>0, PlanAfter DEF NamesHold, Plan
<1>2. live.phase = "plan" /\ UNCHANGED world
  BY DEF Plan
<1>3. \/ \E w \in {Superseded(Now), Failed(Now)} : Commit(w)
      \/ \E w \in {Failed(saved), [saved EXCEPT !.live.phase = "sync"]} : Commit(w)
  <2>1. Commit(IF live.moved THEN Superseded(Now)
               ELSE IF ~Storable(data) THEN Failed(Now)
               ELSE IF p.conflict THEN Failed(saved)
               ELSE [saved EXCEPT !.live.phase = "sync"])
    BY DEF Plan
  <2> HIDE DEF p, data, saved
  <2> QED BY <2>1
<1>4. ASSUME NEW w \in {Superseded(Now), Failed(Now)}, Commit(w)
      PROVE  KeysKept /\ NamesHold'
  <2>1. w \in Sound(E) /\ Follows(ClearedIn(store), Now, w)
    BY <1>0, FailedSound, EndsFollow
  <2> QED BY <1>2, <1>4, <2>1, QuietStep
<1>5. ASSUME NEW w \in {Failed(saved), [saved EXCEPT !.live.phase = "sync"]}, Commit(w)
      PROVE  KeysKept /\ NamesHold'
  <2>1. store'.rec = p.rec /\ live'.snap = live.snap /\ live'.phase \in {"sync", "idle"}
    <3> DEFINE K == StoreKeys(data)
    <3>1. w.store = data /\ w.live.snap = live.snap /\ w.live.phase \in {"sync", "idle"}
      <4>1. w = Failed(Saved(data, K)) \/ w = [Saved(data, K) EXCEPT !.live.phase = "sync"]
        BY <1>5 DEF Saved
      <4> HIDE DEF p, K, data
      <4> QED BY <1>0, <4>1, SavedParts
    <3> HIDE DEF p, saved
    <3> QED BY <1>5, <3>1 DEF Commit
  <2> HIDE DEF p
  <2>2. PlanFollows(store, p) /\ InUse(p, live.snap)
    BY <1>1 DEF PlansAfter
  <2>3. \A v : Assess(v)' = Assess(v) /\ registry' = registry
    BY <1>2 DEF world, Assess, Shows
  <2>4. KeysKept
    BY <2>1, <2>2, <2>3 DEF KeysKept, PlanFollows, Cleared
  <2>5. InUse(store', live.snap)
    BY <2>1, <2>2 DEF InUse, Exist
  <2>6. NamesHold'
    BY <1>2, <2>1, <2>3, <2>5 DEF NamesHold, OneRow, NamesMean, Named, InUse
  <2> QED BY <2>4, <2>6
<1> QED BY <1>3, <1>4, <1>5

(* Controllers follow the plan: the worlds it goes through. *)
Binding ==
    {w \in Sound(Exist(store)) :
       /\ Evidence(ClearedIn(store), store, w.store)
       /\ w.live.snap = live.snap /\ w.live.phase \in {live.phase, "idle"}
       /\ BoundInUse(w)}

LEMMA BindingFollows ==
  ASSUME store \in Stores, NEW w \in Binding, NEW x \in Sound(Exist(store)),
         Follows(ClearedIn(store), w, x)
  PROVE  x \in Binding
<1> DEFINE J == ClearedIn(store)
<1>0. /\ Exist(w.store) = Exist(store) /\ Exist(x.store) = Exist(store)
      /\ Attached(w.live) \subseteq Exist(store)
      /\ Evidence(J, store, w.store) /\ BoundInUse(w)
      /\ w.live.snap = live.snap /\ w.live.phase \in {live.phase, "idle"}
  BY SoundParts DEF Binding
<1>1. Evidence(J, store, x.store) /\ Steady(w.live, x.live)
  BY <1>0 DEF Follows, Evidence
<1>2. ASSUME NEW z \in Zones, x.live.bound[z] # None
      PROVE  z \in DOMAIN x.live.snap /\ x.store.rec[x.live.bound[z]].active = z
  <2>1. x.live.bound[z] = w.live.bound[z] /\ x.live.snap = w.live.snap
    BY <1>1 DEF Steady
  <2>2. z \in DOMAIN w.live.snap /\ w.store.rec[w.live.bound[z]].active = z
    BY <1>0, <1>2, <2>1 DEF BoundInUse
  <2>3. w.live.bound[z] \in Exist(store)
    BY <1>0, <1>2, <2>1 DEF Attached, Bound
  <2>4. x.store.rec[w.live.bound[z]].active = w.store.rec[w.live.bound[z]].active
    BY <1>0, <1>1, <2>3 DEF Evidence
  <2> QED BY <2>1, <2>2, <2>4
<1>3. BoundInUse(x)
  BY <1>2, Zenon DEF BoundInUse
<1> QED BY <1>0, <1>1, <1>3 DEF Binding, Steady

(* Only controllers of records in use stay bound. *)
LEMMA RebindBinds ==
  ASSUME Now \in Sound(Exist(store))
  PROVE  Rebind(Now) \in Binding
<1> DEFINE E == Exist(store)
           Keeps(z) == LET rec == store.rec[live.bound[z]] IN
                 /\ z \in DOMAIN live.snap /\ rec.life = "ACTIVE" /\ rec.active = z
                 /\ rec.applied = <<z, live.snap[z].name, live.snap[z].valve>>
           gone == {z \in Zones : live.bound[z] # None /\ ~Keeps(z)}
           loose == {live.bound[z] : z \in gone}
           pending == {r \in loose : store.rec[r].life = "DELETE_PENDING"}
           B == [z \in Zones |-> IF z \in gone THEN None ELSE live.bound[z]]
           l == [live EXCEPT !.bound = B, !.kept = live.kept \cup pending]
           w == [Now EXCEPT !.live = l]
<1>0. live \in Runtimes /\ Now.store = store /\ Now.live = live
  BY NowSound DEF Now
<1>1. Rebind(Now) = Detached([Now EXCEPT !.live.bound = [z \in Zones |-> IF z \in gone THEN None ELSE @[z]],
                                         !.live.kept = @ \cup pending],
                             loose \ pending)
  BY <1>0 DEF Rebind
<1>2. [Now EXCEPT !.live.bound = [z \in Zones |-> IF z \in gone THEN None ELSE @[z]],
                  !.live.kept = @ \cup pending] = w
  <2> HIDE DEF gone, pending
  <2> QED BY <1>0 DEF Now
<1>3. \A z \in Zones : B[z] # None => z \in DOMAIN live.snap /\ store.rec[B[z]].active = z
  OBVIOUS
<1> HIDE DEF B, pending, loose, gone
<1>4. l.bound = B /\ l.snap = live.snap /\ l.phase = live.phase
  BY <1>0 DEF Runtimes
<1>5. /\ Detached(w, loose \ pending).store = store
      /\ Detached(w, loose \ pending).live.bound = B
      /\ Detached(w, loose \ pending).live.snap = live.snap
      /\ Detached(w, loose \ pending).live.phase = live.phase
  BY <1>0, <1>4 DEF Detached, Now, Runtimes
<1>6. Rebind(Now) \in Sound(E)
  BY RebindSound
<1> HIDE DEF w, l
<1> QED BY <1>1, <1>2, <1>3, <1>5, <1>6 DEF Binding, Evidence, BoundInUse

(* A configured zone gets the controller of its own record. *)
LEMMA BindZoneBinds ==
  ASSUME store \in Stores, NEW w \in Binding, NEW z \in Zones
  PROVE  BindZone(w, z) \in Binding
<1> DEFINE E == Exist(store)
           J == ClearedIn(store)
           matches == {q \in Exist(w.store) : w.store.rec[q].active = z}
           r == CHOOSE q \in matches : TRUE
           x == Attach(w, r)
           bound == [x EXCEPT !.live.bound[z] = r, !.live.kept = @ \ {r}]
           mine == [bound EXCEPT !.live.ext = @ \cup {r}]
<1>0. w \in Sound(E) /\ Exist(w.store) = E /\ w.live.snap = live.snap /\ Evidence(J, store, w.store)
  BY SoundParts DEF Binding
<1>1. BindZone(w, z) \in {w, Failed(w)} \/
      /\ Cardinality(matches) = 1 /\ z \in DOMAIN w.live.snap
      /\ BindZone(w, z) \in {Failed(Detached(w, {r})), bound, AddKey(mine, r, ExternalKey)}
  <2> DEFINE open == Session(w.store, r) = r /\ w.store.rec[r].fault = "none"
             on == AssessName(w.live.snap[z].entity) = "on"
  <2>1. BindZone(w, z) =
          IF w.live.phase = "idle" \/ z \notin DOMAIN w.live.snap THEN w
          ELSE IF Cardinality(matches) # 1 THEN Failed(w)
          ELSE IF w.live.bound[z] # None THEN w
          ELSE IF Foreign(w, r) THEN Failed(Detached(w, {r}))
          ELSE IF on /\ ~open THEN AddKey(mine, r, ExternalKey) ELSE bound
    BY DEF BindZone
  <2> HIDE DEF matches, bound, mine, open, on, r
  <2> QED BY <2>1
<1>2. w \in Binding /\ Failed(w) \in Binding
  BY <1>0, FailedSound, EndsFollow, BindingFollows
<1>3. ASSUME Cardinality(matches) = 1 PROVE r \in E /\ w.store.rec[r].active = z
  <2>1. matches # {}
    <3> HIDE DEF matches
    <3> QED BY <1>3, FS_EmptySet
  <2> QED BY <1>0, <2>1
<1> HIDE DEF r, matches
<1>4. ASSUME r \in E, w.store.rec[r].active = z, z \in DOMAIN w.live.snap
      PROVE  /\ Failed(Detached(w, {r})) \in Binding
             /\ bound \in Binding /\ AddKey(mine, r, ExternalKey) \in Binding
  <2>1. Failed(Detached(w, {r})) \in Binding
    <3>1. Detached(w, {r}) \in Binding
      BY <1>0, DetachedSound, EndsFollow, BindingFollows
    <3>2. Detached(w, {r}) \in Sound(E)
      BY <3>1 DEF Binding
    <3> QED BY <3>1, <3>2, FailedSound, EndsFollow, BindingFollows
  <2>2. Assess(w.store.rec[r].valve) = "off" => r \in J
    BY <1>0, <1>4 DEF Evidence, ClearedIn, Cleared
  <2>3. x \in Sound(E) /\ x \in Binding
    <3>1. x \in Sound(E) /\ Follows(J, w, x)
      <4> HIDE DEF J, E
      <4> QED BY <1>0, <1>4, <2>2, AttachSound, AttachFollows
    <3> HIDE DEF x
    <3> QED BY <3>1, BindingFollows
  <2>4. x.store.rec[r].active = z /\ x.live.snap = live.snap
    <3>1. Evidence(J, store, x.store) /\ x.live.snap = live.snap
      BY <2>3 DEF Binding
    <3> QED BY <1>0, <1>4, <3>1 DEF Evidence
  <2> HIDE DEF x
  <2>5. bound \in Sound(E)
    BY <1>4, <2>3, BoundSound
  <2>6. /\ bound.store = x.store /\ bound.live.snap = x.live.snap
        /\ bound.live.phase = x.live.phase
        /\ bound.live.bound = [x.live.bound EXCEPT ![z] = r]
        /\ x.live.bound \in [Zones -> Optional(Records)]
    BY <2>3 DEF Sound, Worlds, Runtimes
  <2> HIDE DEF bound
  <2>7. BoundInUse(bound)
    <3> SUFFICES ASSUME NEW y \in Zones, bound.live.bound[y] # None
                 PROVE  /\ y \in DOMAIN bound.live.snap
                        /\ bound.store.rec[bound.live.bound[y]].active = y
      BY DEF BoundInUse
    <3>1. CASE y = z
      BY <1>0, <1>4, <2>4, <2>6, <3>1
    <3>2. CASE y # z
      BY <2>3, <2>6, <3>2 DEF Binding, BoundInUse
    <3> QED BY <3>1, <3>2
  <2>8. bound \in Binding
    BY <2>3, <2>5, <2>6, <2>7 DEF Binding
  <2>9. mine \in Sound(E) /\ Follows(J, bound, mine)
    <3> DEFINE X == bound.live.ext \cup {r}
               l == [bound.live EXCEPT !.ext = X]
    <3>1. bound.live \in Runtimes /\ Attached(bound.live) \subseteq E /\ E \subseteq Records
      BY <2>5, SoundParts
    <3>2. X \in SUBSET Records
      BY <1>4, <3>1 DEF Runtimes
    <3> HIDE DEF X
    <3>3. l \in Runtimes /\ Attached(l) \subseteq E
      BY <3>1, <3>2, LiveFields
    <3>4. Steady(bound.live, l)
      BY <3>1 DEF Steady, Runtimes
    <3>5. mine = [bound EXCEPT !.live = l]
      BY DEF X
    <3> HIDE DEF l, mine, J, E
    <3> QED BY <2>5, <3>3, <3>4, <3>5, PutLive, LiveFollows
  <2>10. mine \in Binding
    <3> HIDE DEF mine
    <3> QED BY <2>8, <2>9, BindingFollows
  <2>11. AddKey(mine, r, ExternalKey) \in Binding
    <3> HIDE DEF mine
    <3>1. ExternalKey \in KeyKinds
      BY DEF KeyKinds
    <3>2. AddKey(mine, r, ExternalKey) \in Sound(E) /\ Follows(J, mine, AddKey(mine, r, ExternalKey))
      BY <1>4, <2>9, <3>1, KeysSound, KeysFollow
    <3> QED BY <2>10, <3>2, BindingFollows
  <2> QED BY <2>1, <2>8, <2>11
<1> HIDE DEF bound, mine
<1> QED BY <1>1, <1>2, <1>3, <1>4

(* A retained record gets a controller of its own. *)
LEMMA WatchBinds ==
  ASSUME store \in Stores, NEW w \in Binding, NEW r \in Records
  PROVE  Watch(w, r) \in Binding
<1> DEFINE E == Exist(store)
           J == ClearedIn(store)
           kept == [Attach(w, r) EXCEPT !.live.kept = @ \cup {r}]
<1>0. w \in Sound(E) /\ Exist(w.store) = E /\ Evidence(J, store, w.store)
  BY SoundParts DEF Binding
<1>1. Watch(w, r) \in {w, Failed(w)} \/ (r \in E /\ Watch(w, r) = kept)
  BY <1>0 DEF Watch
<1>2. w \in Binding /\ Failed(w) \in Binding
  BY <1>0, FailedSound, EndsFollow, BindingFollows
<1>3. ASSUME r \in E PROVE kept \in Binding
  <2>1. Assess(w.store.rec[r].valve) = "off" => r \in J
    BY <1>0, <1>3 DEF Evidence, ClearedIn, Cleared
  <2>2. kept \in Sound(E) /\ Follows(J, w, kept)
    <3> HIDE DEF J, E
    <3> QED BY <1>0, <1>3, <2>1, KeptFollows
  <2> HIDE DEF kept
  <2> QED BY <2>2, BindingFollows
<1> HIDE DEF kept
<1> QED BY <1>1, <1>2, <1>3

LEMMA SynchronizeKeys ==
  ASSUME Inv, NamesHold, Synchronize
  PROVE  KeysKept /\ NamesHold'
<1> DEFINE E == Exist(store)
           J == ClearedIn(store)
           bound == FoldLeft(BindZone, Rebind(Now), ZoneOrder)
           all == FoldLeft(Watch, bound, [r \in Records |-> r])
           done == [all EXCEPT !.live.phase = "finish"]
<1>0. Now \in Sound(E) /\ store \in Stores
  BY NowSound DEF Inv
<1>1. bound \in Binding
  <2>1. Rebind(Now) \in Binding
    BY <1>0, RebindBinds
  <2> QED BY <1>0, <2>1, BindZoneBinds, BindingStays
<1>2. all \in Binding
  <2> HIDE DEF bound
  <2> QED BY <1>0, <1>1, WatchBinds, WatchingStays
<1>3. live.phase = "sync" /\ UNCHANGED world /\ \E w \in {Superseded(Now), all, done} : Commit(w)
  BY DEF Synchronize
<1>4. CASE Commit(Superseded(Now))
  <2>1. Superseded(Now) \in Sound(E) /\ Follows(J, Now, Superseded(Now))
    BY <1>0, FailedSound, EndsFollow
  <2> QED BY <1>3, <1>4, <2>1, QuietStep
<1>5. ASSUME NEW w \in {all, done}, Commit(w) PROVE KeysKept /\ NamesHold'
  <2> HIDE DEF all
  <2>1. /\ all.live.bound = w.live.bound /\ all.store = w.store /\ w.live.snap = live.snap
        /\ all \in Sound(E) /\ Evidence(J, store, w.store) /\ BoundInUse(all)
    <3>1. all \in Sound(E) /\ Evidence(J, store, all.store) /\ BoundInUse(all) /\ all.live.snap = live.snap
      BY <1>2 DEF Binding
    <3>2. done.live.bound = all.live.bound /\ done.store = all.store /\ done.live.snap = all.live.snap
      BY <3>1 DEF Sound, Worlds, Runtimes
    <3> HIDE DEF done
    <3> QED BY <1>5, <3>1, <3>2
  <2>2. store' = w.store /\ live' = w.live /\ Exist(store') = E
    BY <1>5, <2>1, SoundParts DEF Commit
  <2>3. \A v : Assess(v)' = Assess(v) /\ registry' = registry
    BY <1>3 DEF world, Assess, Shows
  <2>4. \A r \in J \cap E : Cleared(store.rec[r])'
    BY <2>1, <2>2, <2>3 DEF ClearedIn, Cleared, Evidence
  <2>5. KeysKept
    BY <2>1, <2>2, <2>4, EvidenceKept
  <2>6. InUse(store', live.snap)
    BY <1>3, <2>1, <2>2 DEF NamesHold, InUse, Evidence
  <2>7. BoundInUse(Now)'
    BY <1>2, <2>1, <2>2 DEF BoundInUse, Now, Binding
  <2>8. NamesHold'
    BY <1>3, <2>1, <2>2, <2>3, <2>6, <2>7 DEF NamesHold, OneRow, NamesMean, Named, InUse
  <2> QED BY <2>5, <2>8
<1> HIDE DEF all, done
<1> QED BY <1>3, <1>4, <1>5

(* The last look at the valves. *)
LEMMA FinishKeys ==
  ASSUME Inv, NamesHold, Finish
  PROVE  KeysKept /\ NamesHold'
<1> DEFINE E == Exist(store)
           J == ClearedIn(store)
           refreshed == RefreshTombstones(Now)
           reread == FoldLeft(Reread, refreshed, ZoneOrder)
           done == [reread EXCEPT !.live.phase = "idle", !.live.status = "clean"]
<1>0. /\ Now \in Sound(E) /\ Rows /\ Now.store = store /\ Now.live = live
      /\ Attached(live) \subseteq E
  BY NowSound DEF Inv, Now
<1>1. refreshed \in Followers(J, E, Now)
  BY <1>0, RefreshTombstonesSound, RefreshFollows DEF Followers
<1>2. live.phase = "finish" /\ UNCHANGED world
  BY DEF Finish
<1>3. ASSUME NEW w \in Followers(J, E, Now), NEW z \in Zones
      PROVE  Reread(w, z) \in Followers(J, E, Now)
  <2>1. w \in Sound(E) /\ Follows(J, Now, w) /\ Exist(w.store) = Exist(Now.store)
    BY <1>0, SoundParts DEF Followers
  <2>2. w.live.bound = live.bound /\ w.live.snap = live.snap
    BY <1>0, <2>1 DEF Follows, Steady
  <2>3. ASSUME live.bound[z] # None, AssessName(live.snap[z].entity) = "off"
        PROVE  live.bound[z] \in J
    <3> DEFINE r == live.bound[z]
    <3>1. r \in E
      BY <1>0, <2>3 DEF Attached, Bound
    <3>2. z \in DOMAIN live.snap /\ store.rec[r].active = z
      BY <1>2, <2>3 DEF NamesHold, BoundInUse, Now
    <3>3. z # None
      BY Constants
    <3> HIDE DEF r
    <3>4. store.rec[r].valve = live.snap[z].valve
      BY <1>2, <3>1, <3>2, <3>3 DEF NamesHold, InUse
    <3>5. Named(live.snap[z].entity) \subseteq {live.snap[z].valve}
      BY <1>2, <3>2 DEF NamesHold, NamesMean
    <3>6. Assess(live.snap[z].valve) = "off"
      BY <2>3, <3>5, NameMeans
    <3> QED BY <3>1, <3>4, <3>6 DEF ClearedIn, Cleared, r
  <2>4. Follows(J, w, Reread(w, z)) /\ Reread(w, z) \in Sound(E)
    <3> HIDE DEF J, E
    <3> QED BY <2>1, <2>2, <2>3, RereadFollows, RereadSound
  <2>5. Follows(J, Now, Reread(w, z))
    BY <2>1, <2>4, FollowsOn
  <2> QED BY <2>4, <2>5 DEF Followers
<1>4. reread \in Followers(J, E, Now)
  <2> HIDE DEF refreshed, J, E
  <2> QED BY <1>1, <1>3, RereadingStays
<1>5. ASSUME NEW w \in Followers(J, E, Now)
      PROVE  LET ended == [w EXCEPT !.live.phase = "idle", !.live.status = "clean"] IN
             /\ Superseded(w) \in Followers(J, E, Now)
             /\ ended \in Followers(J, E, Now)
  <2> DEFINE ended == [w EXCEPT !.live.phase = "idle", !.live.status = "clean"]
  <2>1. w \in Sound(E) /\ Follows(J, Now, w) /\ Exist(w.store) = Exist(Now.store)
    BY <1>0, SoundParts DEF Followers
  <2>2. Superseded(w) \in Sound(E) /\ ended \in Sound(E)
    BY <2>1, FailedSound, PhaseSound
  <2>3. Follows(J, w, Superseded(w)) /\ Follows(J, w, ended)
    BY <2>1, EndsFollow
  <2> HIDE DEF ended
  <2>4. Follows(J, Now, Superseded(w)) /\ Follows(J, Now, ended)
    BY <2>1, <2>3, FollowsOn
  <2> QED BY <2>2, <2>4 DEF Followers, ended
<1>6. \E w \in {Superseded(refreshed), done} : Commit(w)
  BY DEF Finish
<1> HIDE DEF reread, refreshed, J, E
<1>7. Superseded(refreshed) \in Followers(J, E, Now) /\ done \in Followers(J, E, Now)
  BY <1>1, <1>4, <1>5
<1> HIDE DEF done
<1> QED BY <1>2, <1>6, <1>7, QuietStep DEF Followers, J, E

(* Another record in the place of one. *)
LEMMA RecordPut ==
  ASSUME NEW E, NEW u \in Sound(E), NEW r, NEW new
  PROVE  LET w == [u EXCEPT !.store.rec[r] = new] IN
         w.live = u.live /\ w.store.rec = [u.store.rec EXCEPT ![r] = new]
BY DEF Sound, Worlds, Stores

(* An operator certifies a removed actuator. *)
LEMMA CertifyKeys ==
  ASSUME Inv, NamesHold, NEW r \in Records, Certify(r)
  PROVE  KeysKept /\ NamesHold'
<1> DEFINE E == Exist(store)
           rec == store.rec[r]
           new == [rec EXCEPT !.ack = rec.valve]
           u == [Now EXCEPT !.store.rec[r] = new]
           signed == RefreshTombstones(u)
           K == StoreKeys(signed.store)
           w == [signed EXCEPT !.live.keys = K]
           J == ClearedIn(u.store)
<1>0. /\ Now \in Sound(E) /\ Rows /\ r \in E /\ Now.store = store /\ Now.live = live
      /\ store.rec \in RecordMaps
  BY SoundParts DEF Inv, Certify, Now
<1>1. rec \in RecordSet
  BY <1>0, SoundParts
<1>2. /\ new \in RecordSet /\ SameIdentity(new, rec)
      /\ new.valve = rec.valve /\ new.active = rec.active /\ new.keys = rec.keys
  BY <1>1 DEF RecordSet, SameIdentity
<1>3. u \in Sound(E)
  <2> HIDE DEF new, E
  <2> QED BY <1>0, <1>2, PutRecord
<1>4. u = [Now EXCEPT !.store.rec[r].ack = rec.valve]
  BY <1>0
<1>5. Commit(w) /\ UNCHANGED world
  BY <1>4 DEF Certify
<1>6. u.live = live /\ u.store.rec = [store.rec EXCEPT ![r] = new]
  <2> HIDE DEF new, E
  <2> QED BY <1>0, RecordPut
<1>7. \A q \in E : /\ u.store.rec[q].valve = store.rec[q].valve
                   /\ u.store.rec[q].active = store.rec[q].active
                   /\ u.store.rec[q].keys = store.rec[q].keys
  <2> HIDE DEF new, u
  <2>1. u.store.rec[r] = new /\ \A q \in Records \ {r} : u.store.rec[q] = store.rec[q]
    BY <1>0, <1>6 DEF RecordMaps
  <2> QED BY <1>2, <2>1 DEF Exist
<1> HIDE DEF u
<1>8. signed \in Sound(E) /\ Follows(J, u, signed)
  BY <1>0, <1>3, RefreshTombstonesSound, RefreshFollows
<1> HIDE DEF signed
<1>9. w \in Sound(E)
  BY <1>8, StoreKeysTyped
<1>10. w.store = signed.store /\ Steady(signed.live, w.live)
  <2> HIDE DEF K
  <2> QED BY <1>8 DEF Sound, Worlds, Runtimes, Steady
<1> HIDE DEF w
<1>11. Evidence(J, u.store, w.store) /\ Steady(live, w.live) /\ store' = w.store
  BY <1>5, <1>6, <1>8, <1>10 DEF Follows, Steady, Commit
<1>12. Exist(u.store) = E
  BY <1>3, SoundParts
<1>13. \A v : Assess(v)' = Assess(v) /\ registry' = registry
  BY <1>5 DEF world, Assess, Shows
<1>14. \A q \in J \cap E : Cleared(store.rec[q])'
  BY <1>11, <1>12, <1>13 DEF ClearedIn, Cleared, Evidence
<1>15. KeysKept
  <2> HIDE DEF J
  <2> QED BY <1>7, <1>11, <1>12, <1>14, EvidenceKept
<1>16. NamesHold'
  <2> HIDE DEF J
  <2> QED BY <1>5, <1>7, <1>9, <1>11, <1>12, <1>13, SameNames, NamesFollow
<1> QED BY <1>15, <1>16

(* A fault is acknowledged. *)
LEMMA AcknowledgeFaultKeys ==
  ASSUME Inv, NamesHold, NEW r \in Records, AcknowledgeFault(r)
  PROVE  KeysKept /\ NamesHold'
<1> DEFINE E == Exist(store)
           J == ClearedIn(store)
           rec == store.rec[r]
           cleared == Persist(Now, r, None, "none")
           theirs == \E q \in Exist(store) \ {r} : /\ store.rec[q].history = rec.history
                                                   /\ store.rec[q].life = "ACTIVE"
           new == [rec EXCEPT !.fault = "none"]
           w1 == [cleared EXCEPT !.ghost.overwritten = @ \/ theirs]
           w2 == [Now EXCEPT !.store.rec[r].fault = "none"]
<1>0. /\ Now \in Sound(E) /\ r \in E /\ Now.store = store /\ Now.live = live /\ rec \in RecordSet
      /\ UNCHANGED world
  BY SoundParts DEF Inv, AcknowledgeFault, Now
<1>1. cleared \in Sound(E) /\ Follows(J, Now, cleared)
  <2> HIDE DEF J, E
  <2> QED BY <1>0, PersistSound, PersistFollows DEF Optional, E
<1>2. Commit(w1) \/ Commit(w2)
  BY DEF AcknowledgeFault
<1>3. w1 \in Sound(E) /\ Follows(J, Now, w1)
  <2> HIDE DEF cleared, E, theirs
  <2> DEFINE o == cleared.ghost.overwritten \/ theirs
             g == [cleared.ghost EXCEPT !.overwritten = o]
  <2>1. cleared.ghost \in Ghosts
    BY <1>1, SoundParts
  <2>2. o \in BOOLEAN
    OBVIOUS
  <2> HIDE DEF o
  <2>3. g \in Ghosts
    BY <2>1, <2>2 DEF Ghosts
  <2>4. w1 = [cleared EXCEPT !.ghost = g]
    BY DEF o
  <2> HIDE DEF g, w1
  <2>5. w1 \in Sound(E)
    BY <1>1, <2>3, <2>4, PutGhost
  <2>6. w1.store = cleared.store /\ w1.live = cleared.live
    BY <1>1, <2>4 DEF Sound, Worlds
  <2> QED BY <1>1, <2>5, <2>6 DEF Follows
<1>4. w2 \in Sound(E) /\ Follows(J, Now, w2)
  <2>1. new \in RecordSet /\ SameIdentity(new, rec) /\ new.keys = rec.keys /\ new.ack = rec.ack
    BY <1>0 DEF RecordSet, SameIdentity
  <2>2. w2 = [Now EXCEPT !.store.rec[r] = new]
    BY <1>0
  <2>3. w2.store.rec = [store.rec EXCEPT ![r] = new] /\ w2.live = live
    <3> HIDE DEF new, w2, E
    <3> QED BY <1>0, <2>2, RecordPut
  <2> HIDE DEF new, w2, E, J
  <2>4. w2 \in Sound(E)
    BY <1>0, <2>1, <2>2, PutRecord
  <2>5. Follows(J, Now, w2)
    BY <1>0, <2>1, <2>3, RecordFollows DEF SameIdentity, Steady
  <2> QED BY <2>4, <2>5
<1> HIDE DEF w1, w2
<1> QED BY <1>0, <1>2, <1>3, <1>4, QuietStep

(* Every step. *)
LEMMA StepKeys ==
  ASSUME Inv, NamesHold, [Next]_vars
  PROVE  [KeysKept]_vars /\ NamesHold'
<1>1. CASE Begin \/ Plan \/ Synchronize \/ Finish
  BY <1>1, BeginKeys, PlanKeys, SynchronizeKeys, FinishKeys
<1>2. CASE ControllerStep
  BY <1>2, PulseKeys DEF ControllerStep
<1>3. CASE ConfigStep \/ RegistryStep \/ DeviceStep
  BY <1>3, ConfigKeys, RegistryKeys, DeviceKeys
<1>4. CASE OperatorStep
  BY <1>4, CertifyKeys, AcknowledgeFaultKeys DEF OperatorStep
<1>5. CASE Crash
  <2>1. live'.phase = "idle" /\ store' = store /\ registry' = registry
    BY <1>5 DEF Crash, Down, world
  <2> QED BY <2>1 DEF NamesHold, OneRow, KeysKept
<1>6. CASE Settled \/ UNCHANGED vars
  <2>1. UNCHANGED vars
    BY <1>6 DEF Settled
  <2> QED BY <2>1 DEF vars, NamesHold, OneRow, NamesMean, Named, InUse, Exist, BoundInUse, Now
<1> QED BY <1>1, <1>2, <1>3, <1>4, <1>5, <1>6 DEF Next

(* Hazards need evidence: whatever the configuration, the registry and the *)
(* valves do, and wherever the process dies, a record loses a hazard key   *)
(* only when its own valve is seen OFF or its removal is certified, or     *)
(* when the record becomes another valve's (runtime.py,                    *)
(* _plan_reconciled_store, _refresh_tombstones; zone_controller.py,        *)
(* _async_actuator_changed).  No other valve, and no stale entity id, can  *)
(* clear it.                                                               *)
THEOREM KeysNeedEvidence == Spec => KeysStay
<1>1. Init => NamesHold
  BY DEF Init, NamesHold, OneRow, Down
<1>2. Inv /\ NamesHold /\ [Next]_vars => NamesHold'
  BY StepKeys
<1>3. Inv /\ NamesHold /\ [Next]_vars =>
        [ \A r \in Exist(store), v \in Valves :
            LET was == store.rec[r]
                is == store'.rec[r]
            IN  was.valve = v /\ is.valve = v /\ ~(was.keys \subseteq is.keys) =>
                  Assess(v)' = "off" \/ (registry'[v] = None /\ is.ack = v) ]_vars
  BY StepKeys DEF KeysKept
<1> QED BY <1>1, <1>2, <1>3, StartsSound, StepSound, PTL DEF Spec, KeysStay

-----------------------------------------------------------------------------
(* Water.                                                                  *)

Open(data, r) == Session(data, r) = r

(* What the Store says of the sessions that are open, when only the valves *)
(* in O give the integration's water.                                      *)
Stored(O, data) ==
    /\ \A v \in O : \E r \in Exist(data) : data.rec[r].valve = v /\ Open(data, r)
    /\ \A r \in Exist(data) : Open(data, r) =>
         /\ data.rec[r].ack = None /\ data.rec[r].applied # None
         /\ data.rec[r].life # "RETIRED" /\ data.rec[r].valve # None
         /\ data.rec[r].fault # "none" => OffUnconfirmed \in data.rec[r].keys
    /\ \A r \in Exist(data) :
         /\ data.rec[r].life = "ACTIVE" => /\ data.rec[r].ack = None /\ data.rec[r].applied # None
                                           /\ data.rec[r].status = "CONFIRMED"
         /\ data.rec[r].active # None => data.rec[r].life = "ACTIVE"
    /\ \A h \in Records : data.hist[h].session # None =>
         data.hist[h].session \in Exist(data) /\ data.rec[data.hist[h].session].history = h

(* A session whose actuator is gone has a key. *)
Fenced(O, data) ==
    \A r \in Exist(data) :
      Open(data, r) /\ data.rec[r].status = "MISSING" /\ data.rec[r].valve \in O =>
        NotProvenOff \in data.rec[r].keys

(* When the slot manager has been told of the Store's hazards, and when    *)
(* every session has been given a controller.                              *)
Published(l) == l.phase \in {"sync", "finish"} \/ l.status = "clean"
Settling(l) == l.phase = "finish" \/ l.status = "clean"

Told(O, w) ==
    /\ Stored(O, w.store)
    /\ w.live.phase # "idle" => w.live.status # "clean"
    /\ \A r \in Exist(w.store) :
         <<r, OffUnconfirmed>> \in w.live.keys => OffUnconfirmed \in w.store.rec[r].keys
    /\ Published(w.live) => \A r \in Exist(w.store) :
         /\ OffUnconfirmed \in w.store.rec[r].keys => <<r, OffUnconfirmed>> \in w.live.keys
         /\ Open(w.store, r) /\ w.store.rec[r].status = "MISSING" /\ w.store.rec[r].valve \in O =>
              r \in Attached(w.live) \/ <<r, NotProvenOff>> \in w.live.keys
    /\ Settling(w.live) => \A r \in Exist(w.store) :
         Open(w.store, r) /\ w.store.rec[r].status = "CONFIRMED" => r \in Attached(w.live)

Watered(E, O) == {w \in Sound(E) : Told(O, w)}

-----------------------------------------------------------------------------
(* What keeps a world told. *)

(* A record that keeps all but its keys, its owner and its fault. *)
SameFacts(new, old) ==
    /\ SameIdentity(new, old) /\ new.ack = old.ack /\ new.applied = old.applied
    /\ new.life = old.life /\ new.status = old.status

(* Sessions end, but none begins. *)
Ending(new, old) == \A h \in Records : new.hist[h].session \in {old.hist[h].session, None}

LEMMA EndingOpen ==
  ASSUME NEW new, NEW old, Ending(new, old), NEW r \in Records,
         new.rec[r].history = old.rec[r].history, old.rec[r].history \in Records, Open(new, r)
  PROVE  Open(old, r)
BY Constants DEF Ending, Open, Session

(* The Store after a judgement of its records. *)
LEMMA StoredStays ==
  ASSUME NEW E, E \subseteq Records, NEW O, NEW old, NEW new, Exist(old) = E, Exist(new) = E,
         Stored(O, old), Ending(new, old),
         \A r \in E : old.rec[r].history \in Records,
         \A r \in E : /\ SameIdentity(new.rec[r], old.rec[r])
                      /\ new.rec[r].applied = old.rec[r].applied
                      /\ new.rec[r].life = "ACTIVE" <=> old.rec[r].life = "ACTIVE"
                      /\ new.rec[r].life = "ACTIVE" => new.rec[r].status = old.rec[r].status
                      /\ \/ new.rec[r].ack = old.rec[r].ack
                         \/ ~Open(new, r) /\ new.rec[r].life # "ACTIVE",
         \A r \in E : Open(old, r) /\ old.rec[r].valve \in O => Open(new, r),
         \A r \in E : Open(new, r) =>
           /\ new.rec[r].life = "RETIRED" => old.rec[r].life = "RETIRED"
           /\ new.rec[r].fault # "none" => OffUnconfirmed \in new.rec[r].keys
  PROVE  Stored(O, new)
<1>1. \A r \in E : Open(new, r) => Open(old, r)
  BY EndingOpen DEF SameIdentity
<1>2. \A v \in O : \E r \in E : new.rec[r].valve = v /\ Open(new, r)
  BY DEF Stored, SameIdentity
<1>3. \A r \in E : Open(new, r) =>
         /\ new.rec[r].ack = None /\ new.rec[r].applied # None
         /\ new.rec[r].life # "RETIRED" /\ new.rec[r].valve # None
         /\ new.rec[r].fault # "none" => OffUnconfirmed \in new.rec[r].keys
  BY <1>1 DEF Stored, SameIdentity
<1>4. \A r \in E :
         /\ new.rec[r].life = "ACTIVE" => /\ new.rec[r].ack = None /\ new.rec[r].applied # None
                                          /\ new.rec[r].status = "CONFIRMED"
         /\ new.rec[r].active # None => new.rec[r].life = "ACTIVE"
  BY DEF Stored, SameIdentity
<1>5. \A h \in Records : new.hist[h].session # None =>
         new.hist[h].session \in E /\ new.rec[new.hist[h].session].history = h
  BY DEF Stored, SameIdentity, Ending
<1> QED BY <1>2, <1>3, <1>4, <1>5 DEF Stored

(* A world after a step of some operator. *)
LEMMA ToldStays ==
  ASSUME NEW E, NEW O, NEW u \in Watered(E, O), NEW w \in Sound(E),
         Ending(w.store, u.store),
         \A r \in E : SameFacts(w.store.rec[r], u.store.rec[r]),
         \A r \in E : Open(u.store, r) /\ u.store.rec[r].valve \in O => Open(w.store, r),
         \A r \in E : Open(w.store, r) /\ w.store.rec[r].fault # "none" =>
                        OffUnconfirmed \in w.store.rec[r].keys,
         \A r \in E : <<r, OffUnconfirmed>> \in w.live.keys =>
                        OffUnconfirmed \in w.store.rec[r].keys,
         Published(w.live) => \A r \in E : OffUnconfirmed \in w.store.rec[r].keys =>
                                             <<r, OffUnconfirmed>> \in w.live.keys,
         Published(w.live) => \A r \in E : Open(w.store, r) =>
             /\ r \in Attached(u.live) => r \in Attached(w.live)
             /\ <<r, NotProvenOff>> \in u.live.keys /\ u.store.rec[r].valve \in O =>
                  <<r, NotProvenOff>> \in w.live.keys \/ r \in Attached(w.live),
         Published(w.live) => Published(u.live), Settling(w.live) => Settling(u.live),
         w.live.phase # "idle" => w.live.status # "clean"
  PROVE  w \in Watered(E, O)
<1>0. /\ Exist(u.store) = E /\ Exist(w.store) = E /\ E \subseteq Records
      /\ \A r \in E : u.store.rec[r].history \in Records
      /\ u \in Sound(E) /\ Told(O, u)
  BY SoundParts DEF Watered
<1>1. \A r \in E : Open(w.store, r) => Open(u.store, r)
  BY <1>0, EndingOpen DEF SameFacts, SameIdentity
<1>2. Stored(O, w.store)
  <2>1. Stored(O, u.store)
    BY <1>0 DEF Told
  <2> QED BY <1>0, <2>1, StoredStays DEF SameFacts
<1>3. Published(w.live) => \A r \in E :
         Open(w.store, r) /\ w.store.rec[r].status = "MISSING" /\ w.store.rec[r].valve \in O =>
              r \in Attached(w.live) \/ <<r, NotProvenOff>> \in w.live.keys
  BY <1>0, <1>1 DEF Told, SameFacts, SameIdentity
<1>4. Settling(w.live) => Published(w.live)
  BY DEF Settling, Published
<1>5. Settling(w.live) => \A r \in E :
         Open(w.store, r) /\ w.store.rec[r].status = "CONFIRMED" => r \in Attached(w.live)
  BY <1>0, <1>1, <1>4 DEF Told, SameFacts
<1>6. Told(O, w)
  BY <1>0, <1>2, <1>3, <1>5 DEF Told
<1> QED BY <1>6 DEF Watered

(* Less water. *)
LEMMA LessWater ==
  ASSUME NEW E, NEW O, NEW P \in SUBSET O
  PROVE  Watered(E, O) \subseteq Watered(E, P)
<1> SUFFICES ASSUME NEW w \in Watered(E, O) PROVE Told(P, w)
  BY DEF Watered
<1>1. Told(O, w)
  BY DEF Watered
<1>2. Stored(P, w.store)
  BY <1>1 DEF Told, Stored
<1> QED BY <1>1, <1>2 DEF Told

(* A change of the runtime alone. *)
LEMMA LiveStays ==
  ASSUME NEW E, NEW O, NEW u \in Watered(E, O), NEW w \in Sound(E),
         w.store = u.store, w.live.keys = u.live.keys,
         Published(w.live) => Published(u.live) /\ \A r \in E :
           Open(u.store, r) /\ r \in Attached(u.live) => r \in Attached(w.live),
         Settling(w.live) => Settling(u.live),
         w.live.phase # "idle" => w.live.status # "clean"
  PROVE  w \in Watered(E, O)
<1>0. Exist(u.store) = E /\ Told(O, u)
  BY SoundParts DEF Watered
<1>1. \A r \in E : Open(u.store, r) /\ u.store.rec[r].fault # "none" =>
                     OffUnconfirmed \in u.store.rec[r].keys
  BY <1>0 DEF Told, Stored
<1>2. Ending(w.store, u.store)
  BY DEF Ending
<1>3. \A r \in E : SameFacts(w.store.rec[r], u.store.rec[r])
  BY DEF SameFacts, SameIdentity
<1>4. /\ \A r \in E : <<r, OffUnconfirmed>> \in u.live.keys =>
                        OffUnconfirmed \in u.store.rec[r].keys
      /\ Published(u.live) => \A r \in E : OffUnconfirmed \in u.store.rec[r].keys =>
                                             <<r, OffUnconfirmed>> \in u.live.keys
  BY <1>0 DEF Told
<1> QED BY <1>1, <1>2, <1>3, <1>4, ToldStays

(* The controllers, the phase and the status stay. *)
SameRuntime(l, k) ==
    l.bound = k.bound /\ l.kept = k.kept /\ l.phase = k.phase /\ l.status = k.status

LEMMA SameRuntimeSays ==
  ASSUME NEW l, NEW k, SameRuntime(l, k)
  PROVE  /\ Attached(l) = Attached(k)
         /\ Published(l) <=> Published(k)
         /\ Settling(l) <=> Settling(k)
BY DEF SameRuntime, Attached, Bound, Published, Settling

(* Nothing but the keys of r differs, and whom they make the owner. *)
JustKeys(w, u, r) ==
    /\ w.store.hist = u.store.hist
    /\ \A q \in Exist(u.store) : /\ SameFacts(w.store.rec[q], u.store.rec[q])
                                 /\ w.store.rec[q].fault = u.store.rec[q].fault
                                 /\ q # r => w.store.rec[q].keys = u.store.rec[q].keys
    /\ SameRuntime(w.live, u.live)

(* _add_blocker, _remove_blocker *)
LEMMA KeysDo ==
  ASSUME NEW E, NEW u \in Sound(E), NEW r \in E, NEW k
  PROVE  LET added == AddKey(u, r, k)
             dropped == DropKey(u, r, k)
             keys == u.store.rec[r].keys
         IN  /\ JustKeys(added, u, r) /\ JustKeys(dropped, u, r)
             /\ added.live.keys = u.live.keys \cup {<<r, k>>}
             /\ dropped.live.keys = u.live.keys \ {<<r, k>>}
             /\ IF <<r, k>> \in u.live.keys
                THEN added.store.rec[r].keys = keys /\ dropped.store.rec[r].keys = keys \ {k}
                ELSE added.store.rec[r].keys = keys \cup {k} /\ dropped.store.rec[r].keys = keys
<1> DEFINE rec == u.store.rec[r]
           Keyed(K, keys, owner) ==
             [u EXCEPT !.live.keys = K,
                       !.store.rec[r] = [rec EXCEPT !.keys = keys, !.owner = owner]]
<1>0. rec \in RecordSet /\ Exist(u.store) = E /\ u.store.rec \in RecordMaps /\ E \subseteq Records
  BY SoundParts
<1>1. ASSUME NEW K, NEW keys, NEW owner
      PROVE  /\ JustKeys(Keyed(K, keys, owner), u, r)
             /\ Keyed(K, keys, owner).live.keys = K
             /\ Keyed(K, keys, owner).store.rec[r].keys = keys
  <2> DEFINE w == Keyed(K, keys, owner)
             new == [rec EXCEPT !.keys = keys, !.owner = owner]
  <2>1. SameFacts(new, rec) /\ new.fault = rec.fault /\ new.keys = keys
    BY <1>0 DEF RecordSet, SameFacts, SameIdentity
  <2> HIDE DEF new
  <2>2. /\ w.store.rec = [u.store.rec EXCEPT ![r] = new] /\ w.store.hist = u.store.hist
        /\ SameRuntime(w.live, u.live) /\ w.live.keys = K
    BY DEF Sound, Worlds, Stores, Runtimes, SameRuntime, new
  <2> HIDE DEF w
  <2>3. w.store.rec[r] = new /\ \A q \in Exist(u.store) \ {r} : w.store.rec[q] = u.store.rec[q]
    BY <1>0, <2>2 DEF RecordMaps
  <2>4. JustKeys(w, u, r)
    BY <1>0, <2>1, <2>2, <2>3 DEF JustKeys, SameFacts, SameIdentity
  <2> QED BY <2>1, <2>2, <2>3, <2>4 DEF w
<1>2. JustKeys(u, u, r)
  BY DEF JustKeys, SameFacts, SameIdentity, SameRuntime
<1> DEFINE owner1 == IF k \in rec.keys THEN rec.owner
                     ELSE IF k = NotProvenOff THEN rec.owner ELSE OwnerOf({k})
           owner2 == IF k \in rec.keys THEN OwnerOf(rec.keys \ {k}) ELSE rec.owner
<1>3. CASE <<r, k>> \in u.live.keys
  <2>1. AddKey(u, r, k) = u /\ u.live.keys = u.live.keys \cup {<<r, k>>}
    BY <1>3 DEF AddKey
  <2>2. DropKey(u, r, k) = Keyed(u.live.keys \ {<<r, k>>}, rec.keys \ {k}, owner2)
    BY <1>3 DEF DropKey
  <2> HIDE DEF owner2, Keyed
  <2> QED BY <1>1, <1>2, <1>3, <2>1, <2>2
<1>4. CASE <<r, k>> \notin u.live.keys
  <2>1. DropKey(u, r, k) = u /\ u.live.keys = u.live.keys \ {<<r, k>>}
    BY <1>4 DEF DropKey
  <2>2. AddKey(u, r, k) = Keyed(u.live.keys \cup {<<r, k>>}, rec.keys \cup {k}, owner1)
    BY <1>4 DEF AddKey
  <2> HIDE DEF owner1, Keyed
  <2> QED BY <1>1, <1>2, <1>4, <2>1, <2>2
<1> QED BY <1>3, <1>4

(* The same sessions are open. *)
LEMMA JustKeysOpen ==
  ASSUME NEW w, NEW u, NEW r, JustKeys(w, u, r)
  PROVE  /\ Ending(w.store, u.store)
         /\ \A q \in Exist(u.store) : Open(w.store, q) <=> Open(u.store, q)
BY DEF JustKeys, Ending, Open, Session, SameFacts, SameIdentity

LEMMA KeysStayTold ==
  ASSUME NEW E, NEW O, NEW u \in Watered(E, O), NEW r \in E, NEW k \in KeyKinds
  PROVE  /\ AddKey(u, r, k) \in Watered(E, O)
         /\ \/ k = ExternalKey
            \/ k = NotProvenOff /\ (r \in Attached(u.live) \/ u.store.rec[r].valve \notin O)
            \/ k = OffUnconfirmed /\ ~Open(u.store, r)
            => DropKey(u, r, k) \in Watered(E, O)
<1>0. u \in Sound(E) /\ Told(O, u) /\ Exist(u.store) = E
  BY SoundParts DEF Watered
<1>1. /\ \A q \in E : Open(u.store, q) /\ u.store.rec[q].fault # "none" =>
                     OffUnconfirmed \in u.store.rec[q].keys
      /\ \A q \in E : <<q, OffUnconfirmed>> \in u.live.keys =>
                        OffUnconfirmed \in u.store.rec[q].keys
      /\ Published(u.live) => \A q \in E : OffUnconfirmed \in u.store.rec[q].keys =>
                                             <<q, OffUnconfirmed>> \in u.live.keys
      /\ u.live.phase # "idle" => u.live.status # "clean"
  BY <1>0 DEF Told, Stored
<1> DEFINE Does(w) == /\ w \in Sound(E) /\ JustKeys(w, u, r)
                      /\ \A q \in E : Open(u.store, q) /\ u.store.rec[q].fault # "none" =>
                                      OffUnconfirmed \in w.store.rec[q].keys
                      /\ \A q \in E : <<q, OffUnconfirmed>> \in w.live.keys =>
                                      OffUnconfirmed \in w.store.rec[q].keys
                      /\ Published(u.live) => \A q \in E :
                           /\ OffUnconfirmed \in w.store.rec[q].keys =>
                                <<q, OffUnconfirmed>> \in w.live.keys
                           /\ <<q, NotProvenOff>> \in u.live.keys /\ u.store.rec[q].valve \in O =>
                                <<q, NotProvenOff>> \in w.live.keys \/ q \in Attached(u.live)
<1>2. ASSUME NEW w, Does(w) PROVE w \in Watered(E, O)
  <2>1. /\ Ending(w.store, u.store)
        /\ \A q \in E : Open(w.store, q) <=> Open(u.store, q)
    BY <1>0, <1>2, JustKeysOpen
  <2>2. /\ Attached(w.live) = Attached(u.live) /\ (Published(w.live) <=> Published(u.live))
        /\ (Settling(w.live) <=> Settling(u.live))
        /\ w.live.phase = u.live.phase /\ w.live.status = u.live.status
    BY <1>2, SameRuntimeSays DEF JustKeys, SameRuntime
  <2>3. \A q \in E : /\ SameFacts(w.store.rec[q], u.store.rec[q])
                     /\ w.store.rec[q].fault = u.store.rec[q].fault
    BY <1>0, <1>2 DEF JustKeys
  <2> QED BY <1>1, <1>2, <2>1, <2>2, <2>3, ToldStays
<1>3. AddKey(u, r, k) \in Watered(E, O)
  <2> DEFINE w == AddKey(u, r, k)
  <2>1. /\ w \in Sound(E) /\ JustKeys(w, u, r) /\ w.live.keys = u.live.keys \cup {<<r, k>>}
        /\ IF <<r, k>> \in u.live.keys THEN w.store.rec[r].keys = u.store.rec[r].keys
           ELSE w.store.rec[r].keys = u.store.rec[r].keys \cup {k}
    BY <1>0, KeysSound, KeysDo
  <2> HIDE DEF w
  <2>2. \A q \in E \ {r} : w.store.rec[q].keys = u.store.rec[q].keys
    BY <1>0, <2>1 DEF JustKeys
  <2>3. Does(w)
    BY <1>1, <2>1, <2>2
  <2> QED BY <1>2, <2>3 DEF w
<1>4. ASSUME \/ k = ExternalKey
             \/ k = NotProvenOff /\ (r \in Attached(u.live) \/ u.store.rec[r].valve \notin O)
             \/ k = OffUnconfirmed /\ ~Open(u.store, r)
      PROVE  DropKey(u, r, k) \in Watered(E, O)
  <2> DEFINE w == DropKey(u, r, k)
  <2>1. /\ w \in Sound(E) /\ JustKeys(w, u, r) /\ w.live.keys = u.live.keys \ {<<r, k>>}
        /\ IF <<r, k>> \in u.live.keys THEN w.store.rec[r].keys = u.store.rec[r].keys \ {k}
           ELSE w.store.rec[r].keys = u.store.rec[r].keys
    BY <1>0, KeysSound, KeysDo
  <2> HIDE DEF w
  <2>2. \A q \in E \ {r} : w.store.rec[q].keys = u.store.rec[q].keys
    BY <1>0, <2>1 DEF JustKeys
  <2>3. Does(w)
    BY <1>1, <1>4, <2>1, <2>2 DEF ExternalKey, NotProvenOff, OffUnconfirmed
  <2> QED BY <1>2, <2>3 DEF w
<1> QED BY <1>3, <1>4

(* _persist_runtime *)
LEMMA PersistDoes ==
  ASSUME NEW E, NEW u \in Sound(E), NEW r \in E, NEW session, NEW fault
  PROVE  LET w == Persist(u, r, session, fault)
             h == u.store.rec[r].history
         IN  /\ w.live = u.live
             /\ w.store.hist[h].session = session
             /\ \A g \in Records \ {h} : w.store.hist[g] = u.store.hist[g]
             /\ w.store.rec[r].fault = fault
             /\ \A q \in E : /\ SameFacts(w.store.rec[q], u.store.rec[q])
                             /\ w.store.rec[q].keys = u.store.rec[q].keys
                             /\ q # r => w.store.rec[q].fault = u.store.rec[q].fault
<1> DEFINE rec == u.store.rec[r]
           h == rec.history
           w == Persist(u, r, session, fault)
<1>0. /\ rec \in RecordSet /\ h \in Records /\ u.store.hist[h] \in HistorySet /\ E \subseteq Records
      /\ u.store.rec \in RecordMaps /\ u.store.hist \in HistoryMaps
  BY SoundParts
<1>1. PICK owner :
        w = [u EXCEPT !.store.rec[r] = [rec EXCEPT !.fault = fault, !.owner = owner],
                      !.store.hist[h] = [@ EXCEPT !.session = session,
                                                  !.spent = u.live.mem[r].daily]]
  BY DEF Persist
<1> DEFINE new == [rec EXCEPT !.fault = fault, !.owner = owner]
           x == [u.store.hist[h] EXCEPT !.session = session, !.spent = u.live.mem[r].daily]
<1>2. SameFacts(new, rec) /\ new.fault = fault /\ new.keys = rec.keys
  BY <1>0 DEF RecordSet, SameFacts, SameIdentity
<1>3. x.session = session
  BY <1>0 DEF HistorySet
<1> HIDE DEF w
<1>4. /\ w.store.rec = [u.store.rec EXCEPT ![r] = new] /\ w.store.hist = [u.store.hist EXCEPT ![h] = x]
      /\ w.live = u.live
  <2> HIDE DEF h
  <2> QED BY <1>1 DEF Sound, Worlds, Stores
<1> HIDE DEF new, x
<1>5. /\ w.store.rec[r] = new /\ \A q \in E \ {r} : w.store.rec[q] = u.store.rec[q]
      /\ w.store.hist[h] = x /\ \A g \in Records \ {h} : w.store.hist[g] = u.store.hist[g]
  <2> HIDE DEF h, rec
  <2> QED BY <1>0, <1>4 DEF RecordMaps, HistoryMaps
<1>6. \A q \in E : /\ SameFacts(w.store.rec[q], u.store.rec[q])
                   /\ w.store.rec[q].keys = u.store.rec[q].keys
                   /\ q # r => w.store.rec[q].fault = u.store.rec[q].fault
  BY <1>2, <1>5 DEF SameFacts, SameIdentity
<1> QED BY <1>2, <1>3, <1>4, <1>5, <1>6 DEF w

(* A session ends whose valve gives no water. *)
LEMMA PersistTold ==
  ASSUME NEW E, NEW O, NEW u \in Watered(E, O), NEW r \in E,
         NEW fault \in {"none", "OFF_TIMEOUT", "RESTORED"},
         Session(u.store, r) \in {r, None},
         Open(u.store, r) => u.store.rec[r].valve \notin O
  PROVE  Persist(u, r, None, fault) \in Watered(E, O)
<1> DEFINE w == Persist(u, r, None, fault)
           h == u.store.rec[r].history
<1>0. /\ u \in Sound(E) /\ Told(O, u) /\ Exist(u.store) = E /\ E \subseteq Records
      /\ \A q \in E : u.store.rec[q].history \in Records
  BY SoundParts DEF Watered
<1>1. /\ w.live = u.live
      /\ w.store.hist[h].session = None
      /\ \A g \in Records \ {h} : w.store.hist[g] = u.store.hist[g]
      /\ \A q \in E : /\ SameFacts(w.store.rec[q], u.store.rec[q])
                      /\ w.store.rec[q].keys = u.store.rec[q].keys
                      /\ q # r => w.store.rec[q].fault = u.store.rec[q].fault
  BY <1>0, PersistDoes
<1>2. w \in Sound(E)
  BY <1>0, PersistSound DEF Optional
<1> HIDE DEF w
<1>3. Ending(w.store, u.store)
  BY <1>1 DEF Ending
<1>4. \A q \in E : /\ w.store.rec[q].history = u.store.rec[q].history
                   /\ w.store.rec[q].valve = u.store.rec[q].valve
  BY <1>1 DEF SameFacts, SameIdentity
<1>5. ~Open(w.store, r)
  BY <1>0, <1>1, <1>4, Constants DEF Open, Session
<1>6. \A q \in E : Open(w.store, q) => Open(u.store, q)
  BY <1>0, <1>3, <1>4, EndingOpen
<1>7. \A q \in E : Open(u.store, q) /\ u.store.rec[q].valve \in O => Open(w.store, q)
  <2> SUFFICES ASSUME NEW q \in E, Open(u.store, q), u.store.rec[q].valve \in O
               PROVE  Open(w.store, q)
    OBVIOUS
  <2>1. CASE u.store.rec[q].history = h
    <3>1. Session(u.store, q) = q /\ Session(u.store, q) = Session(u.store, r) /\ q # None
      BY <1>0, <2>1, Constants DEF Open, Session
    <3> QED BY <3>1 DEF Open
  <2>2. CASE u.store.rec[q].history # h
    BY <1>0, <1>1, <1>4, <2>2 DEF Open, Session
  <2> QED BY <2>1, <2>2
<1>8. /\ \A q \in E : Open(w.store, q) /\ w.store.rec[q].fault # "none" =>
                     OffUnconfirmed \in w.store.rec[q].keys
      /\ \A q \in E : <<q, OffUnconfirmed>> \in u.live.keys =>
                        OffUnconfirmed \in u.store.rec[q].keys
      /\ Published(u.live) => \A q \in E : OffUnconfirmed \in u.store.rec[q].keys =>
                                             <<q, OffUnconfirmed>> \in u.live.keys
      /\ u.live.phase # "idle" => u.live.status # "clean"
  BY <1>0, <1>1, <1>5, <1>6 DEF Told, Stored
<1>9. w \in Watered(E, O)
  BY <1>1, <1>2, <1>3, <1>7, <1>8, ToldStays
<1> QED BY <1>9 DEF w

(* _finalize_session *)
LEMMA CloseSessionTold ==
  ASSUME NEW E, NEW O, NEW u \in Watered(E, O), NEW r \in E,
         Open(u.store, r), u.store.rec[r].valve \notin O
  PROVE  CloseSession(u, r) \in Watered(E, O)
<1> DEFINE rec == u.store.rec[r]
           charged == [u EXCEPT !.live.mem[r].daily = @ + 1,
                                !.ghost.charged = @ \cup {<<r, rec.zone, Cardinality(@)>>}]
           saved == Persist(charged, r, None, rec.fault)
<1>0. u \in Sound(E) /\ rec \in RecordSet /\ Exist(u.store) = E /\ E \subseteq Records
  BY SoundParts DEF Watered
<1>1. CloseSession(u, r) = DropKey(saved, r, OffUnconfirmed)
  BY DEF CloseSession
<1>2. /\ charged \in Sound(E) /\ charged.store = u.store /\ SameRuntime(charged.live, u.live)
      /\ charged.live.keys = u.live.keys
  <2>1. /\ charged.store = u.store /\ SameRuntime(charged.live, u.live)
        /\ charged.live.keys = u.live.keys
    BY <1>0 DEF Sound, Worlds, Runtimes, SameRuntime
  <2>2. charged \in Sound(E)
    BY <1>0, ChargedSound
  <2> QED BY <2>1, <2>2
<1> HIDE DEF charged
<1>3. charged \in Watered(E, O)
  <2>1. u.live.phase # "idle" => u.live.status # "clean"
    BY DEF Watered, Told
  <2> QED BY <1>2, <2>1, LiveStays, SameRuntimeSays DEF SameRuntime
<1>4. rec.fault \in {"none", "OFF_TIMEOUT", "RESTORED"}
  BY <1>0 DEF RecordSet
<1>5. saved \in Watered(E, O)
  BY <1>2, <1>3, <1>4, PersistTold DEF Open
<1>6. ~Open(saved.store, r)
  <2>1. r \in Records /\ charged.store.rec[r].history \in Records
    BY <1>0, <1>2, SoundParts
  <2>2. /\ saved.store.hist[charged.store.rec[r].history].session = None
        /\ saved.store.rec[r].history = charged.store.rec[r].history
    BY <1>2, PersistDoes DEF SameFacts, SameIdentity
  <2> QED BY <2>1, <2>2, Constants DEF Open, Session
<1> HIDE DEF saved
<1> QED BY <1>1, <1>5, <1>6, KeysStayTold DEF KeyKinds

-----------------------------------------------------------------------------
(* Controllers. *)

(* Whom a valve's water is put down to, in memory. *)
LEMMA ExtTold ==
  ASSUME NEW E, NEW O, NEW u \in Watered(E, O), NEW r \in E
  PROVE  /\ [u EXCEPT !.live.ext = @ \cup {r}] \in Watered(E, O)
         /\ [u EXCEPT !.live.ext = @ \ {r}] \in Watered(E, O)
<1>0. /\ u \in Sound(E) /\ u.live \in Runtimes /\ Attached(u.live) \subseteq E /\ E \subseteq Records
      /\ u.live.phase # "idle" => u.live.status # "clean"
  BY SoundParts DEF Watered, Told
<1>1. ASSUME NEW X \in SUBSET Records
      PROVE  [u EXCEPT !.live.ext = X] \in Watered(E, O)
  <2> DEFINE l == [u.live EXCEPT !.ext = X]
             w == [u EXCEPT !.live = l]
  <2>1. l \in Runtimes /\ Attached(l) \subseteq E
    BY <1>0, LiveFields
  <2>2. SameRuntime(l, u.live) /\ l.keys = u.live.keys
    BY <1>0 DEF Runtimes, SameRuntime
  <2> HIDE DEF l
  <2>3. w \in Sound(E) /\ w.store = u.store /\ w.live = l
    BY <1>0, <2>1, PutLive DEF Sound, Worlds
  <2> HIDE DEF w
  <2>4. w \in Watered(E, O)
    BY <1>0, <2>2, <2>3, LiveStays, SameRuntimeSays DEF SameRuntime
  <2> QED BY <2>4 DEF w, l
<1>2. u.live.ext \cup {r} \in SUBSET Records /\ u.live.ext \ {r} \in SUBSET Records
  BY <1>0 DEF Runtimes
<1> QED BY <1>1, <1>2

(* What a controller makes of its valve. *)
LEMMA NoticedTold ==
  ASSUME NEW E, NEW O, NEW u \in Watered(E, O), NEW r \in E, NEW a, NEW b,
         b = "off" => u.store.rec[r].valve \notin O
  PROVE  Noticed(u, r, a, b) \in Watered(E, O)
<1> DEFINE open == Session(u.store, r) = r
           faulted == u.store.rec[r].fault # "none"
           proven == DropKey(u, r, NotProvenOff)
           mine == [u EXCEPT !.live.ext = @ \cup {r}]
           freed == [proven EXCEPT !.live.ext = @ \ {r}]
<1>0. u \in Sound(E) /\ Exist(u.store) = E /\ NotProvenOff \in KeyKinds /\ ExternalKey \in KeyKinds
  BY SoundParts DEF Watered, KeyKinds
<1>1. CASE b = "off"
  <2>1. proven \in Watered(E, O) /\ JustKeys(proven, u, r)
    BY <1>0, <1>1, KeysStayTold, KeysDo
  <2>2. \/ open /\ Noticed(u, r, a, b) = CloseSession(proven, r)
        \/ Noticed(u, r, a, b) \in {DropKey(freed, r, ExternalKey), proven}
    <3>1. CASE open
      BY <1>1, <3>1 DEF Noticed
    <3>2. CASE ~open /\ r \in u.live.ext
      BY <1>1, <3>2 DEF Noticed
    <3>3. CASE ~open /\ r \notin u.live.ext
      BY <1>1, <3>3 DEF Noticed
    <3> QED BY <3>1, <3>2, <3>3
  <2> HIDE DEF proven
  <2>3. open => Open(proven.store, r)
    BY <1>0, <2>1, JustKeysOpen DEF Open
  <2>4. proven.store.rec[r].valve \notin O
    BY <1>0, <1>1, <2>1 DEF JustKeys, SameFacts, SameIdentity
  <2>5. freed \in Watered(E, O)
    BY <2>1, ExtTold
  <2> HIDE DEF freed
  <2>6. open => CloseSession(proven, r) \in Watered(E, O)
    BY <2>1, <2>3, <2>4, CloseSessionTold
  <2>7. DropKey(freed, r, ExternalKey) \in Watered(E, O)
    BY <1>0, <2>5, KeysStayTold
  <2> QED BY <2>1, <2>2, <2>6, <2>7
<1>2. CASE b # "off"
  <2>1. Noticed(u, r, a, b) \in {AddKey(mine, r, ExternalKey), u}
    <3>1. CASE b = "on" /\ (~open \/ faulted) /\ r \notin u.live.ext
      BY <3>1 DEF Noticed
    <3>2. CASE ~(b = "on" /\ (~open \/ faulted) /\ r \notin u.live.ext)
      BY <1>2, <3>2 DEF Noticed
    <3> QED BY <3>1, <3>2
  <2>2. mine \in Watered(E, O)
    BY ExtTold
  <2> HIDE DEF mine
  <2> QED BY <1>0, <2>1, <2>2, KeysStayTold
<1> QED BY <1>1, <1>2

(* Every listener. *)
LEMMA NoticedByTold ==
  ASSUME NEW E, NEW O, NEW u \in Watered(E, O), NEW R, R \subseteq E, NEW a, NEW b,
         b = "off" => \A r \in R : u.store.rec[r].valve \notin O
  PROVE  NoticedBy(u, R, a, b) \in Watered(E, O)
<1> DEFINE W == {w \in Watered(E, O) : Follows(E, u, w)}
<1>0. u \in Sound(E) /\ Exist(u.store) = E
  BY SoundParts DEF Watered
<1>1. u \in W
  BY FollowsItself
<1>2. ASSUME NEW w \in W, NEW r \in R \cap Records
      PROVE  Noticed(w, r, a, b) \in W
  <2>1. w \in Sound(E) /\ Exist(w.store) = E /\ Follows(E, u, w)
    BY SoundParts DEF Watered
  <2>2. w.store.rec[r].valve = u.store.rec[r].valve
    BY <1>0, <2>1 DEF Follows, Evidence
  <2>3. Follows(E, w, Noticed(w, r, a, b))
    BY <2>1, NoticedFollows
  <2>4. Follows(E, u, Noticed(w, r, a, b))
    BY <1>0, <2>1, <2>3, FollowsOn
  <2>5. Noticed(w, r, a, b) \in Watered(E, O)
    BY <2>2, NoticedTold
  <2> QED BY <2>4, <2>5
<1> HIDE DEF W
<1>3. NoticedBy(u, R, a, b) \in W
  BY <1>1, <1>2, NoticedByStays
<1> QED BY <1>3 DEF W

(* A valve that is seen OFF gives no water. *)
Dry(O) == \A v \in O : Assess(v) # "off"

(* Attach *)
LEMMA AttachTold ==
  ASSUME NEW E, NEW O, Dry(O), NEW u \in Watered(E, O), NEW r \in E
  PROVE  Attach(u, r) \in Watered(E, O)
<1> DEFINE rec == u.store.rec[r]
           memory == [home |-> rec.history, daily |-> u.store.hist[rec.history].spent]
           read == [u EXCEPT !.live.mem[r] = memory, !.live.ext = @ \ {r}]
<1>0. /\ u \in Sound(E) /\ u.live \in Runtimes
      /\ u.live.phase # "idle" => u.live.status # "clean"
  BY SoundParts DEF Watered, Told
<1>1. read \in Sound(E)
  BY <1>0, ReadSound, Zenon
<1>2. read.store = u.store /\ SameRuntime(read.live, u.live) /\ read.live.keys = u.live.keys
  BY <1>0 DEF Sound, Worlds, Runtimes, SameRuntime
<1>3. \/ Attach(u, r) = read
      \/ /\ Open(u.store, r) /\ Assess(rec.valve) = "off"
         /\ Attach(u, r) = CloseSession(read, r)
  BY DEF Attach, Open
<1> HIDE DEF read
<1>4. read \in Watered(E, O)
  BY <1>0, <1>1, <1>2, LiveStays, SameRuntimeSays DEF SameRuntime
<1>5. ASSUME Open(u.store, r), Assess(rec.valve) = "off"
      PROVE  CloseSession(read, r) \in Watered(E, O)
  BY <1>2, <1>4, <1>5, CloseSessionTold DEF Dry
<1> QED BY <1>3, <1>4, <1>5

(* What Attach leaves alone. *)
Watches(w, u, E) ==
    /\ Attached(w.live) = Attached(u.live) /\ w.live.bound = u.live.bound
    /\ w.live.kept = u.live.kept
    /\ w.live.phase = u.live.phase /\ w.live.status = u.live.status
    /\ \A q \in E : /\ Open(w.store, q) => Open(u.store, q)
                    /\ w.store.rec[q].status = u.store.rec[q].status

LEMMA CloseSessionWatches ==
  ASSUME NEW E, NEW u \in Sound(E), NEW r \in E
  PROVE  Watches(CloseSession(u, r), u, E)
<1> DEFINE rec == u.store.rec[r]
           charged == [u EXCEPT !.live.mem[r].daily = @ + 1,
                                !.ghost.charged = @ \cup {<<r, rec.zone, Cardinality(@)>>}]
           saved == Persist(charged, r, None, rec.fault)
           w == DropKey(saved, r, OffUnconfirmed)
<1>0. rec \in RecordSet /\ Exist(u.store) = E /\ E \subseteq Records
      /\ \A q \in E : u.store.rec[q].history \in Records
  BY SoundParts
<1>1. CloseSession(u, r) = w
  BY DEF CloseSession
<1>2. /\ charged \in Sound(E) /\ charged.store = u.store /\ SameRuntime(charged.live, u.live)
  <2>1. charged.store = u.store /\ SameRuntime(charged.live, u.live)
    BY DEF Sound, Worlds, Runtimes, SameRuntime
  <2>2. charged \in Sound(E)
    BY ChargedSound
  <2> QED BY <2>1, <2>2
<1> HIDE DEF charged
<1>3. saved \in Sound(E) /\ Exist(saved.store) = E
  <2>1. rec.fault \in {"none", "OFF_TIMEOUT", "RESTORED"} /\ None \in Optional(Records)
    BY <1>0 DEF RecordSet, Optional
  <2> QED BY <1>2, <2>1, PersistSound, SoundParts
<1>4. /\ saved.live = charged.live /\ Ending(saved.store, u.store)
      /\ \A q \in E : SameFacts(saved.store.rec[q], u.store.rec[q])
  BY <1>2, PersistDoes DEF Ending
<1> HIDE DEF saved
<1>5. JustKeys(w, saved, r)
  BY <1>3, KeysDo
<1> HIDE DEF w
<1>6. \A q \in E : /\ Open(w.store, q) => Open(saved.store, q)
                   /\ w.store.rec[q].status = saved.store.rec[q].status
  BY <1>3, <1>5, JustKeysOpen DEF JustKeys, SameFacts
<1>7. \A q \in E : /\ Open(saved.store, q) => Open(u.store, q)
                   /\ saved.store.rec[q].status = u.store.rec[q].status
  BY <1>0, <1>4, EndingOpen DEF SameFacts, SameIdentity
<1>8. SameRuntime(w.live, u.live)
  BY <1>2, <1>4, <1>5 DEF JustKeys, SameRuntime
<1>9. Watches(w, u, E)
  BY <1>6, <1>7, <1>8, SameRuntimeSays DEF Watches, SameRuntime
<1> QED BY <1>1, <1>9

LEMMA AttachWatches ==
  ASSUME NEW E, NEW u \in Sound(E), NEW r \in E
  PROVE  Watches(Attach(u, r), u, E)
<1> DEFINE rec == u.store.rec[r]
           memory == [home |-> rec.history, daily |-> u.store.hist[rec.history].spent]
           read == [u EXCEPT !.live.mem[r] = memory, !.live.ext = @ \ {r}]
<1>1. read \in Sound(E)
  BY ReadSound, Zenon
<1>2. read.store = u.store /\ SameRuntime(read.live, u.live)
  BY DEF Sound, Worlds, Runtimes, SameRuntime
<1>3. Attach(u, r) \in {read, CloseSession(read, r)}
  BY DEF Attach
<1> HIDE DEF read
<1>4. Watches(read, u, E)
  BY <1>2, SameRuntimeSays DEF Watches, SameRuntime
<1>5. Watches(CloseSession(read, r), read, E)
  BY <1>1, CloseSessionWatches
<1>6. Watches(CloseSession(read, r), u, E)
  BY <1>4, <1>5 DEF Watches
<1> QED BY <1>3, <1>4, <1>6

(* One more retained controller. *)
LEMMA KeptTold ==
  ASSUME NEW E, NEW O, NEW u \in Watered(E, O), NEW r \in E
  PROVE  LET w == [u EXCEPT !.live.kept = @ \cup {r}]
         IN  /\ w \in Watered(E, O) /\ w.store = u.store
             /\ Attached(w.live) = Attached(u.live) \cup {r}
             /\ w.live.phase = u.live.phase
<1> DEFINE w == [u EXCEPT !.live.kept = @ \cup {r}]
<1>0. u \in Sound(E) /\ (u.live.phase # "idle" => u.live.status # "clean")
  BY DEF Watered, Told
<1>1. w \in Sound(E)
  BY <1>0, KeptSound
<1>2. /\ w.store = u.store /\ w.live.keys = u.live.keys /\ w.live.bound = u.live.bound
      /\ w.live.kept = u.live.kept \cup {r}
      /\ w.live.phase = u.live.phase /\ w.live.status = u.live.status
  BY <1>0 DEF Sound, Worlds, Runtimes
<1> HIDE DEF w
<1>3. Attached(w.live) = Attached(u.live) \cup {r}
  BY <1>2 DEF Attached, Bound
<1>4. w \in Watered(E, O)
  BY <1>0, <1>1, <1>2, <1>3, LiveStays DEF Published, Settling
<1> QED BY <1>2, <1>3, <1>4 DEF w

(* Every displaced session gets a controller. *)
LEMMA RetainTold ==
  ASSUME NEW E, NEW O, Dry(O), NEW u \in Watered(E, O), NEW R, R \subseteq E
  PROVE  Retain(u, R) \in Watered(E, O)
<1>1. ASSUME NEW w \in Watered(E, O), NEW r \in R \cap Records
      PROVE  [Attach(w, r) EXCEPT !.live.kept = @ \cup {r}] \in Watered(E, O)
  <2>1. Attach(w, r) \in Watered(E, O)
    BY AttachTold
  <2> QED BY <2>1, KeptTold
<1> QED BY <1>1, RetainStays

(* An application that ends without the last word. *)
LEMMA IdleTold ==
  ASSUME NEW E, NEW O, NEW u \in Watered(E, O), NEW w \in Sound(E), w.store = u.store,
         w.live.keys = u.live.keys, w.live.phase \in {"idle", "plan"}, w.live.status # "clean"
  PROVE  w \in Watered(E, O)
BY LiveStays DEF Published, Settling

LEMMA FailedTold ==
  ASSUME NEW E, NEW O, NEW u \in Watered(E, O)
  PROVE  /\ Failed(u) \in Watered(E, O)
         /\ u.live.phase # "idle" => Superseded(u) \in Watered(E, O)
         /\ \A gone : Failed(Detached(u, gone)) \in Watered(E, O)
         /\ Failed(u).live.phase = "idle" /\ \A gone : Failed(Detached(u, gone)).live.phase = "idle"
<1>0. u \in Sound(E) /\ (u.live.phase # "idle" => u.live.status # "clean")
  BY DEF Watered, Told
<1>1. /\ Failed(u).store = u.store /\ Failed(u).live.keys = u.live.keys
      /\ Failed(u).live.phase = "idle" /\ Failed(u).live.status = "failed"
      /\ Superseded(u).store = u.store /\ Superseded(u).live.keys = u.live.keys
      /\ Superseded(u).live.phase = "idle" /\ Superseded(u).live.status = u.live.status
  BY <1>0 DEF Failed, Superseded, Sound, Worlds, Runtimes
<1>2. ASSUME NEW gone
      PROVE  Failed(Detached(u, gone)) \in Watered(E, O) /\ Failed(Detached(u, gone)).live.phase = "idle"
  <2> DEFINE x == Detached(u, gone)
  <2>1. x \in Sound(E) /\ x.store = u.store /\ x.live.keys = u.live.keys
    <3>1. x.store = u.store /\ x.live.keys = u.live.keys
      BY <1>0 DEF Detached, Sound, Worlds, Runtimes
    <3> QED BY <1>0, <3>1, DetachedSound
  <2> HIDE DEF x
  <2>2. /\ Failed(x).store = x.store /\ Failed(x).live.keys = x.live.keys
        /\ Failed(x).live.phase = "idle" /\ Failed(x).live.status = "failed"
        /\ Failed(x) \in Sound(E)
    BY <2>1, FailedSound DEF Failed, Sound, Worlds, Runtimes
  <2>3. Failed(x) \in Watered(E, O)
    BY <2>1, <2>2, IdleTold
  <2> QED BY <2>2, <2>3 DEF x
<1> QED BY <1>0, <1>1, <1>2, FailedSound, IdleTold

(* _synchronize_controllers: one zone gets a controller. *)
LEMMA BindZoneTold ==
  ASSUME NEW E, NEW O, Dry(O), NEW u \in Watered(E, O), NEW z \in Zones
  PROVE  BindZone(u, z) \in Watered(E, O) /\ BindZone(u, z).live.phase \in {u.live.phase, "idle"}
<1> DEFINE matches == {q \in Exist(u.store) : u.store.rec[q].active = z}
           r == CHOOSE q \in matches : TRUE
           x == Attach(u, r)
           bound == [x EXCEPT !.live.bound[z] = r, !.live.kept = @ \ {r}]
<1>1. BindZone(u, z) \in {u, Failed(u)} \/
      /\ Cardinality(matches) = 1
      /\ \/ BindZone(u, z) = Failed(Detached(u, {r}))
         \/ /\ u.live.bound[z] = None
            /\ BindZone(u, z) \in
                 {bound, AddKey([bound EXCEPT !.live.ext = @ \cup {r}], r, ExternalKey)}
  <2> DEFINE open == Session(u.store, r) = r /\ u.store.rec[r].fault = "none"
             on == AssessName(u.live.snap[z].entity) = "on"
  <2>1. BindZone(u, z) =
          IF u.live.phase = "idle" \/ z \notin DOMAIN u.live.snap THEN u
          ELSE IF Cardinality(matches) # 1 THEN Failed(u)
          ELSE IF u.live.bound[z] # None THEN u
          ELSE IF Foreign(u, r) THEN Failed(Detached(u, {r}))
          ELSE IF on /\ ~open
          THEN AddKey([bound EXCEPT !.live.ext = @ \cup {r}], r, ExternalKey) ELSE bound
    BY DEF BindZone
  <2> HIDE DEF matches, bound, open, on, r
  <2> QED BY <2>1
<1>2. ASSUME Cardinality(matches) = 1 PROVE r \in E
  <2>0. Cardinality({}) = 0
    BY FS_EmptySet
  <2>1. matches # {}
    <3> HIDE DEF matches
    <3> QED BY <1>2, <2>0
  <2>2. Exist(u.store) = E
    BY SoundParts DEF Watered
  <2> QED BY <2>1, <2>2
<1> HIDE DEF r, matches
<1>3. ASSUME r \in E, u.live.bound[z] = None
      PROVE  bound \in Watered(E, O) /\ bound.live.phase = u.live.phase
  <2>1. x \in Watered(E, O) /\ Watches(x, u, E)
    BY <1>3, AttachTold, AttachWatches DEF Watered
  <2> HIDE DEF x
  <2>2. /\ x \in Sound(E) /\ x.live.bound[z] = None /\ x.live.bound \in [Zones -> Optional(Records)]
        /\ x.live.phase # "idle" => x.live.status # "clean"
    <3>1. x \in Sound(E) /\ (x.live.phase # "idle" => x.live.status # "clean")
      BY <2>1 DEF Watered, Told
    <3>2. x.live \in Runtimes
      BY <3>1, SoundParts
    <3> QED BY <1>3, <2>1, <3>1, <3>2 DEF Watches, Runtimes
  <2>3. bound \in Sound(E)
    BY <1>3, <2>2, BoundSound
  <2>4. /\ bound.store = x.store /\ bound.live.keys = x.live.keys
        /\ bound.live.bound = [x.live.bound EXCEPT ![z] = r] /\ bound.live.kept = x.live.kept \ {r}
        /\ bound.live.phase = x.live.phase /\ bound.live.status = x.live.status
    BY <2>2 DEF Sound, Worlds, Runtimes
  <2> HIDE DEF bound
  <2>5. Attached(x.live) \subseteq Attached(bound.live)
    <3>1. bound.live.bound[z] = r /\ r # None
      BY <1>3, <2>2, <2>4, Constants, SoundParts
    <3>2. \A y \in Zones \ {z} : bound.live.bound[y] = x.live.bound[y]
      BY <2>2, <2>4
    <3> QED BY <2>2, <2>4, <3>1, <3>2 DEF Attached, Bound
  <2>6. bound \in Watered(E, O)
    BY <2>1, <2>2, <2>3, <2>4, <2>5, LiveStays DEF Published, Settling
  <2> QED BY <2>1, <2>4, <2>6 DEF Watches
<1> HIDE DEF bound
<1>4. ASSUME r \in E, u.live.bound[z] = None
      PROVE  LET w == AddKey([bound EXCEPT !.live.ext = @ \cup {r}], r, ExternalKey)
             IN  w \in Watered(E, O) /\ w.live.phase = u.live.phase
  <2> DEFINE y == [bound EXCEPT !.live.ext = @ \cup {r}]
  <2>1. y \in Watered(E, O)
    BY <1>3, <1>4, ExtTold
  <2>2. y.live.phase = u.live.phase
    <3>1. bound \in Sound(E)
      BY <1>3, <1>4 DEF Watered
    <3> QED BY <1>3, <1>4, <3>1 DEF Sound, Worlds, Runtimes
  <2>3. y \in Sound(E)
    <3> HIDE DEF y
    <3> QED BY <2>1 DEF Watered
  <2> HIDE DEF y
  <2>4. JustKeys(AddKey(y, r, ExternalKey), y, r)
    BY <1>4, <2>3, KeysDo
  <2>5. AddKey(y, r, ExternalKey) \in Watered(E, O)
    BY <1>4, <2>1, KeysStayTold DEF KeyKinds
  <2> QED BY <2>2, <2>4, <2>5 DEF JustKeys, SameRuntime, y
<1> DEFINE added == AddKey([bound EXCEPT !.live.ext = @ \cup {r}], r, ExternalKey)
<1>5. \/ BindZone(u, z) \in {u, Failed(u), Failed(Detached(u, {r}))}
      \/ r \in E /\ u.live.bound[z] = None /\ BindZone(u, z) \in {bound, added}
  <2> HIDE DEF added
  <2> QED BY <1>1, <1>2 DEF added
<1>6. r \in E /\ u.live.bound[z] = None =>
        added \in Watered(E, O) /\ added.live.phase = u.live.phase
  BY <1>4
<1> HIDE DEF added
<1>7. /\ \A w \in {u, Failed(u), Failed(Detached(u, {r}))} :
           w \in Watered(E, O) /\ w.live.phase \in {u.live.phase, "idle"}
      /\ r \in E /\ u.live.bound[z] = None => \A w \in {bound, added} :
           w \in Watered(E, O) /\ w.live.phase \in {u.live.phase, "idle"}
  BY <1>3, <1>6, FailedTold
<1> QED BY <1>5, <1>7

(* While the application goes on, the sessions of the first n records are  *)
(* watched.                                                                *)
WatchedUpTo(E, n, w) ==
    w.live.phase # "idle" => \A r \in E : r <= n =>
      (Open(w.store, r) /\ w.store.rec[r].status = "CONFIRMED" => r \in Attached(w.live))

(* _synchronize_controllers: one retained record. *)
LEMMA WatchTold ==
  ASSUME NEW E, NEW O, Dry(O), NEW u \in Watered(E, O), NEW r \in Records
  PROVE  /\ Watch(u, r) \in Watered(E, O)
         /\ Watch(u, r).live.phase \in {u.live.phase, "idle"}
         /\ \A n \in Nat : r = n + 1 /\ WatchedUpTo(E, n, u) => WatchedUpTo(E, n + 1, Watch(u, r))
<1> DEFINE w == Watch(u, r)
           x == Attach(u, r)
           kept == [x EXCEPT !.live.kept = @ \cup {r}]
<1>0. /\ u \in Sound(E) /\ Told(O, u) /\ Exist(u.store) = E /\ E \subseteq Records /\ E \subseteq Nat
  BY SoundParts, Constants DEF Watered
<1>1. \/ w = u /\ (u.live.phase = "idle" \/ r \notin E \/ r \in Attached(u.live) \/ ~Unfinished(u, r))
      \/ w = Failed(u)
      \/ r \in E /\ w = kept
  BY <1>0 DEF Watch
<1> HIDE DEF w
<1>2. CASE /\ w = u
           /\ u.live.phase = "idle" \/ r \notin E \/ r \in Attached(u.live) \/ ~Unfinished(u, r)
  <2>1. u.live.phase # "idle" /\ r \in E /\ Open(u.store, r) /\ u.store.rec[r].status = "CONFIRMED" =>
          r \in Attached(u.live)
    <3>1. r \in E /\ Open(u.store, r) => u.store.rec[r].applied # None /\ Session(u.store, r) # None
      BY <1>0, Constants DEF Told, Stored, Open
    <3> QED BY <1>2, <3>1 DEF Unfinished
  <2>2. ASSUME NEW n \in Nat, r = n + 1, WatchedUpTo(E, n, u)
        PROVE  WatchedUpTo(E, n + 1, u)
    <3>1. \A q \in E : q <= n + 1 => q <= n \/ q = r
      BY <1>0, <2>2
    <3> QED BY <2>1, <2>2, <3>1 DEF WatchedUpTo
  <2> QED BY <1>2, <2>2 DEF w
<1>3. CASE w = Failed(u)
  <2>1. w.live.phase = "idle"
    BY <1>0, <1>3 DEF Failed, Sound, Worlds, Runtimes
  <2> QED BY <1>3, <2>1, FailedTold DEF WatchedUpTo, w
<1>4. CASE r \in E /\ w = kept
  <2>1. x \in Watered(E, O) /\ Watches(x, u, E)
    BY <1>0, <1>4, AttachTold, AttachWatches
  <2> HIDE DEF x
  <2>2. /\ w \in Watered(E, O) /\ w.store = x.store
        /\ Attached(w.live) = Attached(x.live) \cup {r}
        /\ w.live.phase = x.live.phase
    BY <1>4, <2>1, KeptTold
  <2>3. ASSUME NEW n \in Nat, r = n + 1, WatchedUpTo(E, n, u)
        PROVE  WatchedUpTo(E, n + 1, w)
    <3>1. \A q \in E : q <= n + 1 => q <= n \/ q = r
      BY <1>0, <2>3
    <3> QED BY <2>1, <2>2, <2>3, <3>1 DEF WatchedUpTo, Watches
  <2>4. w.live.phase = u.live.phase
    BY <2>1, <2>2 DEF Watches
  <2> QED BY <2>2, <2>3, <2>4 DEF w
<1> QED BY <1>1, <1>2, <1>3, <1>4
(* Every record in turn: all sessions of records that could be identified  *)
(* are watched.                                                            *)
LEMMA AllWatched ==
  ASSUME NEW E, NEW O, Dry(O), NEW base \in Watered(E, O)
  PROVE  LET w == FoldLeft(Watch, base, [r \in Records |-> r])
         IN  w \in Watered(E, O) /\ WatchedUpTo(E, MaxRecords, w)
<1> DEFINE N == MaxRecords
           W == Watered(E, O)
           Op(w, r) == Watch(w, r)
           seq == [r \in Records |-> r]
           step == [x \in W \X (1 .. N) |-> Op(x[1], seq[x[2]])]
           Solves(it) == it = [s \in SUBSET (1 .. N) |->
                                 IF s = {} THEN base ELSE Op(it[s \ {Max(s)}], seq[Max(s)])]
           iter == CHOOSE it : Solves(it)
           Ws == [n \in 0 .. N |-> {w \in W : WatchedUpTo(E, n, w)}]
<1>0. N \in Nat /\ DOMAIN seq = 1 .. N /\ Records = 1 .. N
  BY Constants
<1>1. FoldLeft(Watch, base, [r \in Records |-> r]) = iter[1 .. N]
  BY <1>0 DEF FoldLeft, MapThenFoldSet
<1>2. \A w \in W, n \in 1 .. N : Op(w, seq[n]) \in W
  BY <1>0, WatchTold
<1>2a. \A n \in 0 .. N - 1 : \A w \in W :
         WatchedUpTo(E, n, w) => WatchedUpTo(E, n + 1, Op(w, seq[n + 1]))
  <2> SUFFICES ASSUME NEW n \in 0 .. N - 1, NEW w \in W, WatchedUpTo(E, n, w)
               PROVE  WatchedUpTo(E, n + 1, Op(w, seq[n + 1]))
    OBVIOUS
  <2>1. n \in Nat /\ n + 1 \in Records /\ seq[n + 1] = n + 1
    BY <1>0, OneMore
  <2> QED BY <2>1, WatchTold
<1> HIDE DEF Op, seq
<1>3. step \in [W \X (1 .. N) -> W]
  BY <1>2
<1>4. \A x \in W, n \in 1 .. N : step[<<x, n>>] = Op(x, seq[n])
  OBVIOUS
<1> HIDE DEF step
<1>5. PICK it \in [SUBSET (1 .. N) -> W] : Folds(it, N, base, step)
  BY <1>0, <1>3, FoldExists
<1>6. \A s \in SUBSET (1 .. N) : s # {} => Max(s) \in 1 .. N /\ s \ {Max(s)} \in SUBSET (1 .. N)
  BY <1>0, MaxIsMember
<1>7. Solves(it)
  BY <1>4, <1>5, <1>6 DEF Folds
<1>8. Solves(iter)
  <2> HIDE DEF Solves
  <2> QED BY <1>7
<1>9. Unfolds(iter, W, N, base, step)
  <2> HIDE DEF iter
  <2>1. iter[{}] = base
    BY <1>8
  <2>2. \A s \in SUBSET (1 .. N) : s # {} /\ iter[s \ {Max(s)}] \in W
                                     => iter[s] = step[<<iter[s \ {Max(s)}], Max(s)>>]
    BY <1>4, <1>6, <1>8
  <2> HIDE DEF Solves
  <2> QED BY <2>1, <2>2 DEF Unfolds
<1> HIDE DEF Solves, iter
<1>10. Ws \in [0 .. N -> SUBSET W]
  OBVIOUS
<1>11. \A n \in 0 .. N, w \in W : w \in Ws[n] <=> WatchedUpTo(E, n, w)
  OBVIOUS
<1>12. WatchedUpTo(E, 0, base)
  <2>1. \A r \in Records : ~(r <= 0)
    BY <1>0
  <2>2. E \subseteq Records
    BY SoundParts DEF Watered
  <2> QED BY <2>1, <2>2 DEF WatchedUpTo
<1> HIDE DEF Ws
<1>13. base \in Ws[0]
  BY <1>0, <1>11, <1>12
<1>14. Passes(Ws, N, step)
  <2> SUFFICES ASSUME NEW n \in 0 .. N - 1, NEW w \in Ws[n]
               PROVE  step[<<w, n + 1>>] \in Ws[n + 1]
    BY DEF Passes
  <2>1. n \in 0 .. N /\ n + 1 \in 0 .. N /\ n + 1 \in 1 .. N
    BY <1>0, OneMore
  <2>2. w \in W /\ WatchedUpTo(E, n, w)
    BY <1>10, <1>11, <2>1
  <2>3. step[<<w, n + 1>>] = Op(w, seq[n + 1]) /\ Op(w, seq[n + 1]) \in W
    BY <1>2, <1>4, <2>1, <2>2
  <2>4. WatchedUpTo(E, n + 1, Op(w, seq[n + 1]))
    BY <1>2a, <2>2
  <2> QED BY <1>11, <2>1, <2>3, <2>4
<1>15. iter[1 .. N] \in Ws[N]
  BY <1>0, <1>3, <1>9, <1>10, <1>13, <1>14, FoldPasses
<1>16. N \in 0 .. N /\ Ws[N] \subseteq W
  BY <1>0, <1>10
<1> QED BY <1>1, <1>11, <1>15, <1>16 DEF N

LEMMA AllBound ==
  ASSUME NEW E, NEW O, Dry(O), NEW base \in Watered(E, O)
  PROVE  FoldLeft(BindZone, base, ZoneOrder) \in Watered(E, O)
BY BindZoneTold, BindingStays

(* An application goes on or ends. *)
LEMMA PhaseStays ==
  ASSUME NEW E, NEW O, Dry(O), NEW base \in Watered(E, O), base.live.phase = "sync"
  PROVE  LET w == FoldLeft(Watch, FoldLeft(BindZone, base, ZoneOrder), [r \in Records |-> r])
         IN  w.live.phase \in {"sync", "idle"}
<1> DEFINE W == {w \in Watered(E, O) : w.live.phase \in {"sync", "idle"}}
           bound == FoldLeft(BindZone, base, ZoneOrder)
<1>1. \A w \in W, z \in Zones : BindZone(w, z) \in W
  BY BindZoneTold
<1>2. \A w \in W, r \in Records : Watch(w, r) \in W
  BY WatchTold
<1>3. base \in W
  OBVIOUS
<1>4. \A w \in W : w.live.phase \in {"sync", "idle"}
  OBVIOUS
<1> HIDE DEF W
<1>5. bound \in W
  BY <1>1, <1>3, BindingStays
<1> HIDE DEF bound
<1>6. FoldLeft(Watch, bound, [r \in Records |-> r]) \in W
  BY <1>2, <1>5, WatchingStays
<1> QED BY <1>4, <1>6 DEF bound

(* A controller is let go. *)
LEMMA DetachedDoes ==
  ASSUME NEW w, w = [store |-> w.store, live |-> w.live, ghost |-> w.ghost],
         w.live \in Runtimes, NEW gone
  PROVE  LET x == Detached(w, gone)
         IN  /\ x.store = w.store /\ x.live.keys = w.live.keys
             /\ x.live.bound = w.live.bound /\ x.live.kept = w.live.kept \ gone
             /\ x.live.phase = w.live.phase /\ x.live.status = w.live.status
BY DEF Detached, Runtimes

(* _synchronize_controllers: who stays.  A session whose valve is gone     *)
(* keeps its controller.                                                   *)
LEMMA RebindTold ==
  ASSUME NEW E, NEW O, NEW u \in Watered(E, O), u.live.phase = "sync"
  PROVE  /\ Rebind(u) \in Watered(E, O)
         /\ Rebind(u).live.phase = "sync"
<1> DEFINE Keeps(z) == LET rec == u.store.rec[u.live.bound[z]] IN
               /\ z \in DOMAIN u.live.snap /\ rec.life = "ACTIVE" /\ rec.active = z
               /\ rec.applied = <<z, u.live.snap[z].name, u.live.snap[z].valve>>
           gone == {z \in Zones : u.live.bound[z] # None /\ ~Keeps(z)}
           loose == {u.live.bound[z] : z \in gone}
           pending == {r \in loose : u.store.rec[r].life = "DELETE_PENDING"}
           B == [z \in Zones |-> IF z \in gone THEN None ELSE u.live.bound[z]]
           w == Rebind(u)
<1>0. /\ u \in Sound(E) /\ Told(O, u) /\ Exist(u.store) = E /\ u.live \in Runtimes
      /\ u.live.status # "clean" /\ \A r \in E : u.store.rec[r] \in RecordSet
  BY SoundParts DEF Watered, Told
<1>1. w = Detached([u EXCEPT !.live.bound = [z \in Zones |-> IF z \in gone THEN None ELSE @[z]],
                             !.live.kept = @ \cup pending],
                   loose \ pending)
  BY DEF Rebind
<1> HIDE DEF gone
<1> DEFINE l == [u.live EXCEPT !.bound = B, !.kept = @ \cup pending]
           x == [u EXCEPT !.live = l]
<1>2. w = Detached(x, loose \ pending)
  <2> HIDE DEF loose, pending
  <2> QED BY <1>0, <1>1 DEF Sound, Worlds, Runtimes
<1>3. /\ w.store = u.store /\ w.live.keys = u.live.keys /\ w.live.bound = B
      /\ w.live.kept = (u.live.kept \cup pending) \ (loose \ pending)
      /\ w.live.phase = u.live.phase /\ w.live.status = u.live.status
  <2>1. B \in [Zones -> Optional(Records)]
    BY <1>0 DEF Runtimes, Optional
  <2>2. pending \subseteq Attached(u.live) /\ pending \in SUBSET Records
    <3>1. Attached(u.live) \subseteq Records
      BY <1>0, SoundParts
    <3>2. pending \subseteq loose /\ loose \subseteq Attached(u.live)
      BY DEF gone, Attached, Bound
    <3> QED BY <3>1, <3>2
  <2> HIDE DEF pending, loose, B, w
  <2>3. /\ l \in Runtimes /\ l.keys = u.live.keys /\ l.bound = B
        /\ l.kept = u.live.kept \cup pending
        /\ l.phase = u.live.phase /\ l.status = u.live.status
    BY <1>0, <2>1, <2>2 DEF Runtimes
  <2> HIDE DEF l
  <2>4. /\ x = [store |-> x.store, live |-> x.live, ghost |-> x.ghost]
        /\ x.store = u.store /\ x.live = l
    BY <1>0, <2>3 DEF Sound, Worlds
  <2> HIDE DEF x
  <2> QED BY <1>2, <2>3, <2>4, DetachedDoes
<1> HIDE DEF w
<1>4. w \in Sound(E)
  BY <1>0, RebindSound DEF w
<1>5. ASSUME NEW r \in E, Open(u.store, r), u.store.rec[r].status = "MISSING",
             r \in Attached(u.live)
      PROVE  r \in Attached(w.live)
  <2>1. u.store.rec[r].life = "DELETE_PENDING"
    <3>1. u.store.rec[r].life \in {"ACTIVE", "DELETE_PENDING", "RETIRED"}
      BY <1>0 DEF RecordSet
    <3>2. u.store.rec[r].life # "RETIRED" /\ u.store.rec[r].life # "ACTIVE"
      BY <1>0, <1>5 DEF Told, Stored
    <3> QED BY <3>1, <3>2
  <2>2. CASE r \in loose
    BY <1>3, <2>1, <2>2 DEF Attached
  <2>3. CASE r \in u.live.kept
    BY <1>3, <2>1, <2>3 DEF Attached
  <2>4. ASSUME NEW z \in Zones, r = u.live.bound[z], r # None, r \notin loose
        PROVE  r \in Attached(w.live)
    <3>1. z \notin gone
      BY <2>4
    <3>2. w.live.bound[z] = r
      BY <1>3, <2>4, <3>1
    <3> QED BY <2>4, <3>2 DEF Attached, Bound
  <2> QED BY <1>5, <2>2, <2>3, <2>4 DEF Attached, Bound
<1>6. Told(O, w)
  <2>1. Published(u.live) /\ ~Settling(w.live)
    BY <1>0, <1>3 DEF Published, Settling
  <2> QED BY <1>0, <1>3, <1>5, <2>1 DEF Told
<1> QED BY <1>3, <1>4, <1>6 DEF Watered, w

(* The last look at one zone's actuator. *)
LEMMA RereadTold ==
  ASSUME NEW E, NEW O, NEW u \in Watered(E, O), NEW z \in Zones
  PROVE  Reread(u, z) \in Watered(E, O) /\ Reread(u, z).live.phase = u.live.phase
<1> DEFINE r == u.live.bound[z]
           proven == DropKey(u, r, NotProvenOff)
<1>1. CASE r = None
  BY <1>1 DEF Reread
<1>2. CASE r # None
  <2>1. r \in Attached(u.live) /\ r \in E
    <3>1. Attached(u.live) \subseteq E
      BY SoundParts DEF Watered
    <3> QED BY <1>2, <3>1 DEF Attached, Bound
  <2>2. Reread(u, z) \in {u, DropKey(proven, r, ExternalKey),
                          AddKey(u, r, NotProvenOff), AddKey(u, r, ExternalKey)}
    BY <1>2 DEF Reread
  <2> HIDE DEF r
  <2>3. NotProvenOff \in KeyKinds /\ ExternalKey \in KeyKinds
    BY DEF KeyKinds
  <2>4. proven \in Watered(E, O)
    BY <2>1, <2>3, KeysStayTold
  <2>5. /\ proven.live.phase = u.live.phase
        /\ AddKey(u, r, NotProvenOff).live.phase = u.live.phase
        /\ AddKey(u, r, ExternalKey).live.phase = u.live.phase
    <3>0. u \in Sound(E)
      BY DEF Watered
    <3>1. /\ JustKeys(proven, u, r) /\ JustKeys(AddKey(u, r, NotProvenOff), u, r)
          /\ JustKeys(AddKey(u, r, ExternalKey), u, r)
      BY <2>1, <3>0, KeysDo
    <3> QED BY <3>1 DEF JustKeys, SameRuntime
  <2> HIDE DEF proven
  <2>6. DropKey(proven, r, ExternalKey).live.phase = u.live.phase
    <3>0. proven \in Sound(E)
      BY <2>4 DEF Watered
    <3>1. JustKeys(DropKey(proven, r, ExternalKey), proven, r)
      BY <2>1, <3>0, KeysDo
    <3> QED BY <2>5, <3>1 DEF JustKeys, SameRuntime
  <2> QED BY <2>1, <2>2, <2>3, <2>4, <2>5, <2>6, KeysStayTold
<1> QED BY <1>1, <1>2

LEMMA AllReread ==
  ASSUME NEW E, NEW O, NEW base \in Watered(E, O)
  PROVE  LET w == FoldLeft(Reread, base, ZoneOrder)
         IN  w \in Watered(E, O) /\ w.live.phase = base.live.phase
<1> DEFINE W == {w \in Watered(E, O) : w.live.phase = base.live.phase}
<1>1. \A w \in W, z \in Zones : Reread(w, z) \in W
  BY RereadTold
<1>2. base \in W /\ \A w \in W : w \in Watered(E, O) /\ w.live.phase = base.live.phase
  OBVIOUS
<1> HIDE DEF W
<1> QED BY <1>1, <1>2, RereadingStays

-----------------------------------------------------------------------------
(* The records without a subentry are judged again. *)

(* What a judgement makes of a record, whether or not its history has a    *)
(* session.                                                                *)
Rejudged(new, old, open) ==
    /\ SameIdentity(new, old)
    /\ new.ack = old.ack /\ new.applied = old.applied /\ new.fault = old.fault
    /\ new.life = "ACTIVE" <=> old.life = "ACTIVE"
    /\ new.life = "ACTIVE" => new.status = old.status
    /\ new.status = "CONFIRMED" => old.status = "CONFIRMED"
    /\ OffUnconfirmed \in new.keys <=> OffUnconfirmed \in old.keys
    /\ open =>
         /\ new.life = "RETIRED" => old.life = "RETIRED"
         /\ old.life # "ACTIVE" /\ Assess(old.valve) # "off" /\ old.ack = None =>
              NotProvenOff \in new.keys

(* _reconcile_active_record *)
LEMMA ActiveDoes ==
  ASSUME NEW rec \in RecordSet, NEW open \in BOOLEAN, NEW a, NEW certified \in BOOLEAN
  PROVE  LET new == ReconcileActive(rec, open, a, certified) IN
         /\ new \in RecordSet /\ SameFacts(new, rec) /\ new.fault = rec.fault
         /\ OffUnconfirmed \in new.keys <=> OffUnconfirmed \in rec.keys
         /\ open /\ a # "off" /\ ~certified => NotProvenOff \in new.keys
<1> DEFINE new == ReconcileActive(rec, open, a, certified)
           Made(keys, owner) == [rec EXCEPT !.keys = keys, !.owner = owner]
<1>1. \E keys \in SUBSET KeyKinds, owner \in {"none", "INTEGRATION", "EXTERNAL"} :
        /\ new = Made(keys, owner)
        /\ OffUnconfirmed \in keys <=> OffUnconfirmed \in rec.keys
        /\ open /\ a # "off" /\ ~certified => NotProvenOff \in keys
  <2>0. /\ rec.keys \in SUBSET KeyKinds /\ rec.owner \in {"none", "INTEGRATION", "EXTERNAL"}
        /\ rec = [rec EXCEPT !.owner = rec.owner]
    BY DEF RecordSet
  <2>1. CASE a = "off" \/ (a = "absent" /\ certified)
    <3> DEFINE cleared == rec.keys \ {NotProvenOff, ExternalKey}
               owner == IF ~open /\ OffUnconfirmed \notin cleared THEN "none" ELSE rec.owner
    <3>1. new = Made(cleared, owner)
      BY <2>1 DEF ReconcileActive, RecordSet
    <3>2. owner \in {"none", "INTEGRATION", "EXTERNAL"} /\ cleared \in SUBSET KeyKinds
      BY <2>0
    <3>3. OffUnconfirmed \in cleared <=> OffUnconfirmed \in rec.keys
      BY DEF OffUnconfirmed, NotProvenOff, ExternalKey
    <3> HIDE DEF new, Made, cleared, owner
    <3> QED BY <2>1, <3>1, <3>2, <3>3
  <2>2. CASE ~(a = "off" \/ (a = "absent" /\ certified)) /\ a = "on" /\ ~open
    <3>1. new = Made(rec.keys \cup {ExternalKey}, "EXTERNAL")
      BY <2>2 DEF ReconcileActive
    <3>2. /\ rec.keys \cup {ExternalKey} \in SUBSET KeyKinds
          /\ OffUnconfirmed \in rec.keys \cup {ExternalKey} <=> OffUnconfirmed \in rec.keys
      BY <2>0 DEF OffUnconfirmed, ExternalKey, KeyKinds
    <3> HIDE DEF new, Made
    <3> QED BY <2>2, <3>1, <3>2
  <2>3. CASE ~(a = "off" \/ (a = "absent" /\ certified)) /\ ~(a = "on" /\ ~open)
    <3>1. new = Made(rec.keys \cup {NotProvenOff}, rec.owner)
      <4>1. new = [rec EXCEPT !.keys = rec.keys \cup {NotProvenOff}]
        BY <2>3 DEF ReconcileActive
      <4> QED BY <4>1 DEF RecordSet
    <3>2. /\ rec.keys \cup {NotProvenOff} \in SUBSET KeyKinds
          /\ OffUnconfirmed \in rec.keys \cup {NotProvenOff} <=> OffUnconfirmed \in rec.keys
      BY <2>0 DEF OffUnconfirmed, NotProvenOff, KeyKinds
    <3> HIDE DEF new, Made
    <3> QED BY <2>0, <3>1, <3>2
  <2> QED BY <2>1, <2>2, <2>3
<1>2. \A keys, owner : /\ SameFacts(Made(keys, owner), rec) /\ Made(keys, owner).fault = rec.fault
                       /\ Made(keys, owner).keys = keys
  BY DEF RecordSet, SameFacts, SameIdentity
<1>3. new \in RecordSet
  BY ReconcileActiveSound
<1> HIDE DEF new, Made
<1>4. /\ new \in RecordSet /\ SameFacts(new, rec) /\ new.fault = rec.fault
      /\ OffUnconfirmed \in new.keys <=> OffUnconfirmed \in rec.keys
      /\ open /\ a # "off" /\ ~certified => NotProvenOff \in new.keys
  BY <1>1, <1>2, <1>3
<1> QED BY <1>4 DEF new

(* _reconcile_retained_record *)
LEMMA RetainedDoes ==
  ASSUME NEW rec \in RecordSet, NEW open \in BOOLEAN
  PROVE  LET new == ReconcileRetained(rec, open) IN
         /\ rec.life # "ACTIVE" => Rejudged(new, rec, open)
         /\ SameIdentity(new, rec)
         /\ new.ack = rec.ack /\ new.applied = rec.applied /\ new.fault = rec.fault
         /\ new.life # "ACTIVE" /\ (open => new.life = "DELETE_PENDING")
         /\ OffUnconfirmed \in new.keys <=> OffUnconfirmed \in rec.keys
         /\ open /\ Assess(rec.valve) # "off" /\ rec.ack = None => NotProvenOff \in new.keys
<1> DEFINE a == Assess(rec.valve)
           certified == a = "absent" /\ rec.ack # None /\ rec.ack = rec.valve
           judged == ReconcileActive(rec, open, a, certified)
           known == IF a # "absent" THEN [judged EXCEPT !.name = registry[rec.valve]]
                    ELSE [judged EXCEPT !.status = "MISSING",
                                        !.incident = IF certified THEN "none" ELSE "missing"]
           safe == /\ a = "off" \/ certified
                   /\ known.keys = {} /\ known.owner = "none" /\ ~open
           life == IF safe THEN "RETIRED" ELSE "DELETE_PENDING"
           new == ReconcileRetained(rec, open)
<1>1. new = [known EXCEPT !.life = life]
  BY DEF ReconcileRetained
<1>2. life \in {"RETIRED", "DELETE_PENDING"} /\ (open => life = "DELETE_PENDING")
  OBVIOUS
<1>3. certified \in BOOLEAN /\ (rec.ack = None => ~certified)
  OBVIOUS
<1> HIDE DEF new, life, certified
<1>4. /\ judged \in RecordSet /\ SameFacts(judged, rec) /\ judged.fault = rec.fault
      /\ OffUnconfirmed \in judged.keys <=> OffUnconfirmed \in rec.keys
      /\ open /\ a # "off" /\ ~certified => NotProvenOff \in judged.keys
  BY <1>3, ActiveDoes
<1> HIDE DEF judged, a
<1>5. /\ new.keys = judged.keys /\ new.life = life /\ new.fault = judged.fault
      /\ SameIdentity(new, judged) /\ new.ack = judged.ack /\ new.applied = judged.applied
      /\ new.status \in {judged.status, "MISSING"}
  <2>1. CASE a # "absent"
    <3>1. new = [judged EXCEPT !.name = registry[rec.valve], !.life = life]
      BY <1>1, <2>1
    <3> QED BY <1>4, <3>1 DEF RecordSet, SameIdentity
  <2>2. CASE a = "absent"
    <3>1. \E incident : new = [judged EXCEPT !.status = "MISSING", !.incident = incident, !.life = life]
      BY <1>1, <2>2
    <3> QED BY <1>4, <3>1 DEF RecordSet, SameIdentity
  <2> QED BY <2>1, <2>2
<1> HIDE DEF known
<1>6. /\ SameIdentity(new, rec)
      /\ new.ack = rec.ack /\ new.applied = rec.applied /\ new.fault = rec.fault
      /\ new.life # "ACTIVE" /\ (open => new.life = "DELETE_PENDING")
      /\ OffUnconfirmed \in new.keys <=> OffUnconfirmed \in rec.keys
      /\ open /\ Assess(rec.valve) # "off" /\ rec.ack = None => NotProvenOff \in new.keys
  BY <1>2, <1>3, <1>4, <1>5 DEF SameFacts, SameIdentity, a
<1>7. rec.life # "ACTIVE" => Rejudged(new, rec, open)
  BY <1>4, <1>5, <1>6 DEF Rejudged, SameFacts
<1> QED BY <1>6, <1>7 DEF new
(* _refresh_tombstones *)
LEMMA RefreshDoes ==
  ASSUME NEW E, NEW u \in Sound(E)
  PROVE  LET w == RefreshTombstones(u) IN
         /\ w.store.hist = u.store.hist /\ w.live.keys = u.live.keys
         /\ w.live.phase = u.live.phase /\ w.live.status = u.live.status
         /\ \A r \in E : Rejudged(w.store.rec[r], u.store.rec[r], Session(u.store, r) # None)
         /\ \A r \in E : r \in Attached(u.live) =>
              r \in Attached(w.live) \/ w.store.rec[r].life = "RETIRED"
<1> DEFINE recs == [r \in Records |->
                      IF r \in Exist(u.store) /\ u.store.rec[r].life # "ACTIVE"
                      THEN ReconcileRetained(u.store.rec[r], Session(u.store, r) # None)
                      ELSE u.store.rec[r]]
           data == [u.store EXCEPT !.rec = recs]
           done == {r \in u.live.kept : LET rec == data.rec[r] IN
                      rec.life = "RETIRED" /\ rec.keys = {} /\ rec.owner = "none"}
           x == [u EXCEPT !.store = data]
           w == RefreshTombstones(u)
<1>0. /\ u \in Worlds /\ Exist(u.store) = E /\ E \subseteq Records
      /\ \A r \in E : u.store.rec[r] \in RecordSet
  BY SoundParts DEF Sound
<1>1. w = Detached(x, done)
  BY DEF RefreshTombstones
<1>2. /\ data.rec = recs /\ data.hist = u.store.hist /\ DOMAIN x = DOMAIN u
      /\ x = [store |-> data, live |-> u.live, ghost |-> u.ghost] /\ u.live \in Runtimes
  <2> HIDE DEF recs
  <2> QED BY <1>0 DEF Worlds, Stores
<1>3. \A r \in E : Rejudged(recs[r], u.store.rec[r], Session(u.store, r) # None)
  <2> SUFFICES ASSUME NEW r \in E
               PROVE  Rejudged(recs[r], u.store.rec[r], Session(u.store, r) # None)
    OBVIOUS
  <2> DEFINE rec == u.store.rec[r]
             open == Session(u.store, r) # None
  <2>1. rec \in RecordSet /\ open \in BOOLEAN
    BY <1>0
  <2>2. recs[r] = IF rec.life # "ACTIVE" THEN ReconcileRetained(rec, open) ELSE rec
    BY <1>0
  <2> HIDE DEF recs, rec, open
  <2>3. CASE rec.life # "ACTIVE"
    BY <2>1, <2>2, <2>3, RetainedDoes DEF rec, open
  <2>4. CASE rec.life = "ACTIVE"
    <3>1. Rejudged(rec, rec, open)
      BY <2>4 DEF Rejudged, SameIdentity
    <3> QED BY <2>2, <2>4, <3>1 DEF rec, open
  <2> QED BY <2>3, <2>4
<1>4. \A r \in done : recs[r].life = "RETIRED"
  BY <1>2
<1> HIDE DEF recs, data, done
<1>5. /\ w.store = data /\ w.live.keys = u.live.keys
      /\ w.live.bound = u.live.bound /\ w.live.kept = u.live.kept \ done
      /\ w.live.phase = u.live.phase /\ w.live.status = u.live.status
  <2>1. /\ x = [store |-> x.store, live |-> x.live, ghost |-> x.ghost]
        /\ x.store = data /\ x.live = u.live /\ x.live \in Runtimes
    BY <1>2
  <2> HIDE DEF x
  <2> QED BY <1>1, <2>1, DetachedDoes
<1> HIDE DEF w
<1>6. \A r \in E : r \in Attached(u.live) =>
              r \in Attached(w.live) \/ w.store.rec[r].life = "RETIRED"
  BY <1>2, <1>4, <1>5 DEF Attached, Bound
<1> QED BY <1>2, <1>3, <1>5, <1>6 DEF w

(* What it makes of the sessions. *)
LEMMA RefreshStored ==
  ASSUME Rows, NEW E, NEW O, Dry(O), NEW u \in Sound(E), Stored(O, u.store)
  PROVE  LET w == RefreshTombstones(u) IN
         /\ w \in Sound(E) /\ Stored(O, w.store) /\ Fenced(O, w.store)
         /\ \A r \in E : Open(w.store, r) =>
              /\ Open(u.store, r) /\ w.store.rec[r].valve = u.store.rec[r].valve
              /\ w.store.rec[r].status = "CONFIRMED" => u.store.rec[r].status = "CONFIRMED"
              /\ r \in Attached(u.live) => r \in Attached(w.live)
<1> DEFINE w == RefreshTombstones(u)
<1>0. Exist(u.store) = E /\ E \subseteq Records /\ \A r \in E : u.store.rec[r].history \in Records
  BY SoundParts
<1>1. w \in Sound(E) /\ Exist(w.store) = E
  BY RefreshTombstonesSound, SoundParts
<1>2. /\ w.store.hist = u.store.hist
      /\ \A r \in E : Rejudged(w.store.rec[r], u.store.rec[r], Session(u.store, r) # None)
      /\ \A r \in E : r \in Attached(u.live) =>
              r \in Attached(w.live) \/ w.store.rec[r].life = "RETIRED"
  BY RefreshDoes
<1> HIDE DEF w
<1>3. Ending(w.store, u.store)
  BY <1>2 DEF Ending
<1>4. \A r \in E : Open(w.store, r) <=> Open(u.store, r)
  BY <1>2 DEF Open, Session, Rejudged, SameIdentity
<1>5. \A r \in E : Open(u.store, r) => Session(u.store, r) # None
  BY <1>0, Constants DEF Open
<1>6. \A r \in E : Open(u.store, r) =>
           /\ u.store.rec[r].life # "RETIRED" /\ u.store.rec[r].ack = None
           /\ u.store.rec[r].fault # "none" => OffUnconfirmed \in u.store.rec[r].keys
  BY <1>0 DEF Stored
<1>7. Stored(O, w.store)
  <2>1. \A r \in E : Open(w.store, r) =>
           /\ w.store.rec[r].life = "RETIRED" => u.store.rec[r].life = "RETIRED"
           /\ w.store.rec[r].fault # "none" => OffUnconfirmed \in w.store.rec[r].keys
    BY <1>2, <1>4, <1>5, <1>6 DEF Rejudged
  <2>2. \A r \in E : /\ SameIdentity(w.store.rec[r], u.store.rec[r])
                     /\ w.store.rec[r].applied = u.store.rec[r].applied
                     /\ w.store.rec[r].life = "ACTIVE" <=> u.store.rec[r].life = "ACTIVE"
                     /\ w.store.rec[r].life = "ACTIVE" =>
                          w.store.rec[r].status = u.store.rec[r].status
                     /\ w.store.rec[r].ack = u.store.rec[r].ack
    BY <1>2 DEF Rejudged
  <2> QED BY <1>0, <1>1, <1>3, <1>4, <2>1, <2>2, StoredStays
<1>8. Fenced(O, w.store)
  <2> SUFFICES ASSUME NEW r \in E, Open(w.store, r), w.store.rec[r].status = "MISSING",
                      w.store.rec[r].valve \in O
               PROVE  NotProvenOff \in w.store.rec[r].keys
    BY <1>1 DEF Fenced
  <2>1. w.store.rec[r].life # "ACTIVE"
    BY <1>1, <1>7 DEF Stored
  <2>2. u.store.rec[r].life # "ACTIVE" /\ u.store.rec[r].valve \in O
    BY <1>2, <2>1 DEF Rejudged, SameIdentity
  <2> QED BY <1>2, <1>4, <1>5, <1>6, <2>2 DEF Rejudged, Dry
<1>9. \A r \in E : Open(w.store, r) =>
              /\ Open(u.store, r) /\ w.store.rec[r].valve = u.store.rec[r].valve
              /\ w.store.rec[r].status = "CONFIRMED" => u.store.rec[r].status = "CONFIRMED"
              /\ r \in Attached(u.live) => r \in Attached(w.live)
  BY <1>1, <1>2, <1>4, <1>7 DEF Rejudged, SameIdentity, Stored
<1> QED BY <1>1, <1>7, <1>8, <1>9 DEF w

(* A settling entry judges them again: who keeps a session keeps a         *)
(* controller.                                                             *)
LEMMA RefreshTold ==
  ASSUME Rows, NEW E, NEW O, Dry(O), NEW u \in Watered(E, O),
         Published(u.live) => Settling(u.live)
  PROVE  RefreshTombstones(u) \in Watered(E, O)
<1> DEFINE w == RefreshTombstones(u)
<1>0. u \in Sound(E) /\ Told(O, u) /\ Exist(u.store) = E
  BY SoundParts DEF Watered
<1>1. /\ w \in Sound(E) /\ Stored(O, w.store)
      /\ \A r \in E : Open(w.store, r) =>
              /\ Open(u.store, r) /\ w.store.rec[r].valve = u.store.rec[r].valve
              /\ w.store.rec[r].status = "CONFIRMED" => u.store.rec[r].status = "CONFIRMED"
              /\ r \in Attached(u.live) => r \in Attached(w.live)
  BY <1>0, RefreshStored DEF Told
<1>2. /\ w.live.keys = u.live.keys
      /\ w.live.phase = u.live.phase /\ w.live.status = u.live.status
      /\ \A r \in E : Rejudged(w.store.rec[r], u.store.rec[r], Session(u.store, r) # None)
  BY <1>0, RefreshDoes
<1> HIDE DEF w
<1>3. Exist(w.store) = E /\ \A r \in E : u.store.rec[r].status \in {"CONFIRMED", "MISSING"}
  BY <1>0, <1>1, SoundParts DEF RecordSet
<1>4. (Published(w.live) <=> Published(u.live)) /\ (Settling(w.live) <=> Settling(u.live))
  BY <1>2 DEF Published, Settling
<1>5. \A r \in E : OffUnconfirmed \in w.store.rec[r].keys <=> OffUnconfirmed \in u.store.rec[r].keys
  BY <1>2 DEF Rejudged
<1>6. Published(w.live) => \A r \in E : Open(w.store, r) /\ w.store.rec[r].valve \in O =>
              r \in Attached(w.live) \/ <<r, NotProvenOff>> \in w.live.keys
  BY <1>0, <1>1, <1>2, <1>3, <1>4 DEF Told
<1>7. Settling(w.live) => \A r \in E :
         Open(w.store, r) /\ w.store.rec[r].status = "CONFIRMED" => r \in Attached(w.live)
  BY <1>0, <1>1, <1>4 DEF Told
<1>8. Told(O, w)
  BY <1>0, <1>1, <1>2, <1>3, <1>4, <1>5, <1>6, <1>7 DEF Told
<1> QED BY <1>1, <1>8 DEF Watered, w

(* The slot manager is told of everything in the Store. *)
LEMMA PublishTold ==
  ASSUME NEW E, NEW O, NEW w \in Sound(E), Stored(O, w.store), Fenced(O, w.store),
         w.live.keys = StoreKeys(w.store),
         w.live.phase # "idle" => w.live.status # "clean",
         Settling(w.live) => \A r \in E :
           Open(w.store, r) /\ w.store.rec[r].status = "CONFIRMED" => r \in Attached(w.live)
  PROVE  w \in Watered(E, O)
<1>1. Exist(w.store) = E
  BY SoundParts
<1>2. \A r \in E, k \in {NotProvenOff, OffUnconfirmed} :
        <<r, k>> \in w.live.keys <=> k \in w.store.rec[r].keys
  BY <1>1 DEF StoreKeys
<1>3. Told(O, w)
  BY <1>1, <1>2 DEF Told, Fenced
<1> QED BY <1>3 DEF Watered
-----------------------------------------------------------------------------
(* The plan. *)

(* What a record that may still be open keeps of itself. *)
Carries(new, old) ==
    /\ new.valve = old.valve /\ new.ack = old.ack /\ new.fault = old.fault
    /\ new.applied = old.applied \/ new.applied # None
    /\ new.life \in {old.life, "ACTIVE"}
    /\ OffUnconfirmed \in old.keys => OffUnconfirmed \in new.keys
    /\ \/ new.status = "CONFIRMED"
       \/ new.status = old.status /\ (NotProvenOff \in old.keys => NotProvenOff \in new.keys)

(* A record in use names what was applied to it. *)
Applied(rec) == /\ rec.life = "ACTIVE" => rec.applied # None
                /\ rec.active # None => rec.life = "ACTIVE"

(* Sessions are only dropped, and those that are open stay so. *)
PlanKeeps(O, data, p) ==
    /\ Ending(p, data)
    /\ \A r \in Exist(data) : Open(data, r) =>
         LET rec == p.rec[r] IN
         /\ Open(p, r)
         /\ rec.valve = data.rec[r].valve /\ rec.ack = data.rec[r].ack
         /\ rec.fault = data.rec[r].fault /\ rec.applied # None /\ rec.life # "RETIRED"
         /\ OffUnconfirmed \in data.rec[r].keys => OffUnconfirmed \in rec.keys
         /\ rec.status = "MISSING" /\ rec.valve \in O => NotProvenOff \in rec.keys
    /\ \A r \in Exist(p) : Applied(p.rec[r])

PlansTold(O, data) == {p \in SoundPlans(Exist(data)) : PlanKeeps(O, data, p)}

(* A step of the plan. *)
LEMMA PlanStays ==
  ASSUME NEW O, NEW data, Exist(data) \subseteq Records,
         NEW p \in PlansTold(O, data), NEW q \in SoundPlans(Exist(data)),
         Ending(q, p),
         \A r \in Exist(p) : Open(p, r) => Open(q, r) /\ Carries(q.rec[r], p.rec[r]),
         \A r \in Exist(q) : Applied(q.rec[r])
  PROVE  q \in PlansTold(O, data)
<1>0. PlanKeeps(O, data, p) /\ Exist(data) \subseteq Exist(p)
  BY DEF PlansTold, SoundPlans
<1>1. Ending(q, data)
  BY <1>0 DEF PlanKeeps, Ending
<1>2. ASSUME NEW r \in Exist(data), Open(data, r)
      PROVE  LET rec == q.rec[r] IN
         /\ Open(q, r)
         /\ rec.valve = data.rec[r].valve /\ rec.ack = data.rec[r].ack
         /\ rec.fault = data.rec[r].fault /\ rec.applied # None /\ rec.life # "RETIRED"
         /\ OffUnconfirmed \in data.rec[r].keys => OffUnconfirmed \in rec.keys
         /\ rec.status = "MISSING" /\ rec.valve \in O => NotProvenOff \in rec.keys
  <2> DEFINE rec == p.rec[r]
             new == q.rec[r]
  <2>1. /\ Open(p, r)
        /\ rec.valve = data.rec[r].valve /\ rec.ack = data.rec[r].ack
        /\ rec.fault = data.rec[r].fault /\ rec.applied # None /\ rec.life # "RETIRED"
        /\ OffUnconfirmed \in data.rec[r].keys => OffUnconfirmed \in rec.keys
        /\ rec.status = "MISSING" /\ rec.valve \in O => NotProvenOff \in rec.keys
    BY <1>0, <1>2 DEF PlanKeeps
  <2>2. Open(q, r) /\ Carries(new, rec)
    BY <1>0, <2>1
  <2> HIDE DEF rec, new
  <2>3. /\ new.valve = data.rec[r].valve /\ new.ack = data.rec[r].ack
        /\ new.fault = data.rec[r].fault /\ new.applied # None /\ new.life # "RETIRED"
        /\ OffUnconfirmed \in data.rec[r].keys => OffUnconfirmed \in new.keys
        /\ new.status = "MISSING" /\ new.valve \in O => NotProvenOff \in new.keys
    BY <2>1, <2>2 DEF Carries
  <2> QED BY <2>2, <2>3 DEF new
<1>3. PlanKeeps(O, data, q)
  BY <1>1, <1>2 DEF PlanKeeps
<1> QED BY <1>3 DEF PlansTold

(* A conflict adds a key to the records it marks. *)
LEMMA ConflictTold ==
  ASSUME NEW O, NEW data, Exist(data) \subseteq Records,
         NEW p \in PlansTold(O, data), NEW marked \in SUBSET Exist(p), NEW kind \in {"none", "conflict"}
  PROVE  /\ Conflict(p, marked, kind) \in PlansTold(O, data)
         /\ Conflict(p, marked, kind).hist = p.hist
         /\ Exist(Conflict(p, marked, kind)) = Exist(p)
<1> DEFINE q == Conflict(p, marked, kind)
           E == Exist(data)
<1>0. /\ p \in SoundPlans(E) /\ Exist(p) \subseteq Records
      /\ \A r \in Exist(p) : p.rec[r] \in RecordSet /\ Applied(p.rec[r])
      /\ NoRecord \notin RecordSet
  BY PlanParts DEF PlansTold, PlanKeeps
<1>1. q \in SoundPlans(E)
  BY <1>0, ConflictSound
<1>2. /\ \A r \in Records : q.rec[r] = IF r \notin marked THEN p.rec[r]
                         ELSE [p.rec[r] EXCEPT !.incident = kind, !.keys = @ \cup {NotProvenOff}]
      /\ q.hist = p.hist
  BY <1>0 DEF Conflict, SoundPlans, Plans
<1> HIDE DEF q, E
<1>3. ASSUME NEW rec \in RecordSet, Applied(rec)
      PROVE  LET new == [rec EXCEPT !.incident = kind, !.keys = @ \cup {NotProvenOff}]
             IN  /\ new \in RecordSet /\ Applied(new) /\ Carries(new, rec)
                 /\ new.history = rec.history
  <2> DEFINE K == rec.keys \cup {NotProvenOff}
             new == [rec EXCEPT !.incident = kind, !.keys = K]
  <2>1. rec.keys \subseteq K /\ K \in SUBSET KeyKinds
    BY <1>3 DEF RecordSet, KeyKinds
  <2> HIDE DEF K
  <2>2. new \in RecordSet /\ new.keys = K /\ new.history = rec.history
    BY <2>1 DEF RecordSet
  <2>3. /\ new.valve = rec.valve /\ new.ack = rec.ack /\ new.fault = rec.fault
        /\ new.applied = rec.applied /\ new.life = rec.life /\ new.status = rec.status
        /\ new.active = rec.active
    BY DEF RecordSet
  <2> HIDE DEF new
  <2>4. Applied(new) /\ Carries(new, rec)
    BY <1>3, <2>1, <2>2, <2>3 DEF Applied, Carries
  <2> QED BY <2>2, <2>4 DEF new, K
<1>4. ASSUME NEW r \in Exist(p)
      PROVE  /\ q.rec[r] \in RecordSet /\ Applied(q.rec[r]) /\ Carries(q.rec[r], p.rec[r])
             /\ q.rec[r].history = p.rec[r].history
  <2>1. p.rec[r] \in RecordSet /\ Applied(p.rec[r]) /\ r \in Records
    BY <1>0
  <2>2. CASE r \in marked
    BY <1>2, <1>3, <2>1, <2>2
  <2>3. CASE r \notin marked
    BY <1>2, <2>1, <2>3 DEF Carries
  <2> QED BY <2>2, <2>3
<1>5. Exist(q) = Exist(p)
  <2>1. \A r \in Records : q.rec[r] # NoRecord => p.rec[r] # NoRecord
    BY <1>2 DEF Exist
  <2> QED BY <1>0, <1>4, <2>1 DEF Exist
<1>6. Ending(q, p) /\ \A r \in Exist(p) : Open(p, r) => Open(q, r)
  BY <1>2, <1>4 DEF Ending, Open, Session
<1>7. q \in PlansTold(O, data)
  BY <1>1, <1>4, <1>5, <1>6, PlanStays DEF E
<1> QED BY <1>2, <1>5, <1>7 DEF q
(* _merge_history: the session of the history that goes on stays.          *)
LEMMA MergeHistoryDoes ==
  ASSUME NEW E, NEW p \in SoundPlans(E), NEW r \in Exist(p), NEW h \in Records,
         p.rec[r].history # h, p.hist[h] \in HistorySet, p.hist[p.rec[r].history] \in HistorySet
  PROVE  LET hist == MergeHistory(p, r, h)
             old == p.rec[r].history
         IN  /\ hist[old].session \in {p.hist[old].session, None}
             /\ \A g \in Records \ {old} : hist[g].session = p.hist[g].session
<1> DEFINE old == p.rec[r].history
           x == [p.hist[h] EXCEPT !.spent = @ + p.hist[old].spent, !.lost = @ \cup p.hist[old].lost]
<1>0. p.hist \in HistoryMaps /\ old \in Records
  BY PlanParts
<1>1. x.session = p.hist[h].session
  BY DEF HistorySet
<1>2. PICK y \in {p.hist[old], NoHistory} :
        MergeHistory(p, r, h) = [p.hist EXCEPT ![h].spent = @ + p.hist[old].spent,
                                               ![h].lost = @ \cup p.hist[old].lost,
                                               ![old] = y]
  <2>1. CASE \E q \in Exist(p) \ {r} : p.rec[q].history = old
    BY <1>0, <2>1 DEF MergeHistory, HistoryMaps
  <2>2. CASE ~ \E q \in Exist(p) \ {r} : p.rec[q].history = old
    BY <2>2 DEF MergeHistory
  <2> QED BY <2>1, <2>2
<1>3. MergeHistory(p, r, h) = [[p.hist EXCEPT ![h] = x] EXCEPT ![old] = y]
  BY <1>0, <1>2 DEF HistoryMaps
<1>4. y.session \in {p.hist[old].session, None}
  BY <1>2 DEF NoHistory
<1> HIDE DEF x
<1> DEFINE hist == MergeHistory(p, r, h)
<1>5. hist[old] = y /\ hist[h] = x /\ \A g \in Records \ {old, h} : hist[g] = p.hist[g]
  BY <1>0, <1>3 DEF HistoryMaps
<1> QED BY <1>1, <1>4, <1>5

(* A record becomes zone z's: whose session is open has this valve already. *)
LEMMA ActivateTold ==
  ASSUME NEW O, NEW data, Exist(data) \subseteq Records, NEW p \in PlansTold(O, data),
         NEW hist \in HistoryMaps, NEW z \in Zones, NEW s \in Identities,
         NEW r \in Exist(p), NEW h \in Records, hist[h] \in HistorySet,
         Activate(p, hist, z, s, r, h) \in SoundPlans(Exist(data)),
         \A g \in Records : hist[g].session \in {p.hist[g].session, None},
         \A q \in Exist(p) : Open(p, q) => hist[p.rec[q].history].session = q,
         Open(p, r) => h = p.rec[r].history /\ p.rec[r].valve = s.valve
  PROVE  Activate(p, hist, z, s, r, h) \in PlansTold(O, data)
<1> DEFINE F == IF p.rec[r].history # h THEN p.rec[r].former \cup {p.rec[r].history}
                ELSE p.rec[r].former
           rec == [p.rec[r] EXCEPT
                  !.zone = z, !.active = z, !.life = "ACTIVE",
                  !.applied = <<z, s.name, s.valve>>, !.valve = s.valve, !.name = s.entity,
                  !.status = "CONFIRMED", !.incident = "none",
                  !.former = F, !.history = h]
           open == hist[h].session # None
           a == AssessName(s.entity)
           new == ReconcileActive(rec, open, a, FALSE)
           x == [hist[h] EXCEPT !.active = z]
           q == Activate(p, hist, z, s, r, h)
<1>0. /\ p \in SoundPlans(Exist(data)) /\ PlanKeeps(O, data, p)
      /\ p.rec \in RecordMaps /\ Exist(p) \subseteq Records /\ p.rec[r] \in RecordSet
      /\ \A y \in Exist(p) : Applied(p.rec[y])
  BY PlanParts DEF PlansTold, PlanKeeps
<1>1. /\ rec \in RecordSet /\ rec.valve = s.valve /\ rec.active = z /\ rec.ack = p.rec[r].ack
      /\ rec.keys = p.rec[r].keys /\ rec.fault = p.rec[r].fault /\ rec.life = "ACTIVE"
      /\ rec.applied # None /\ rec.status = "CONFIRMED" /\ rec.history = h
  <2>1. /\ s.name \in Names /\ s.valve \in Optional(Valves) /\ s.entity \in Optional(Names)
        /\ <<z, s.name, s.valve>> \in Optional(Zones \X Names \X Optional(Valves))
        /\ z \in Optional(Zones)
    BY DEF Identities, Optional
  <2>2. <<z, s.name, s.valve>> # None
    <3>1. <<z, s.name, s.valve>> \in Range(ZoneOrder) \X Names \X (Valves \cup {None})
      BY <2>1 DEF Optional, Zones
    <3> QED BY <3>1, RecordsAssumption
  <2>3. F \in SUBSET Records
    BY <1>0 DEF RecordSet
  <2> HIDE DEF F
  <2> QED BY <1>0, <2>1, <2>2, <2>3 DEF RecordSet
<1>2. x.session = hist[h].session
  BY DEF HistorySet
<1>3. q.rec = [p.rec EXCEPT ![r] = new] /\ q.hist = [hist EXCEPT ![h] = x]
  BY <1>0 DEF Activate, SoundPlans, Plans
<1> HIDE DEF rec, a, q
<1>4. SameFacts(new, rec) /\ new.fault = rec.fault
      /\ (OffUnconfirmed \in new.keys <=> OffUnconfirmed \in rec.keys)
  <2> DEFINE certified == FALSE
             judged == ReconcileActive(rec, open, a, certified)
  <2>1. certified \in BOOLEAN /\ new = judged /\ open \in BOOLEAN
    OBVIOUS
  <2> HIDE DEF certified, open
  <2>2. SameFacts(judged, rec) /\ judged.fault = rec.fault
        /\ (OffUnconfirmed \in judged.keys <=> OffUnconfirmed \in rec.keys)
    BY <1>1, <2>1, ActiveDoes
  <2> QED BY <2>1, <2>2
<1> HIDE DEF new, x, open
<1>5. /\ q.rec[r] = new /\ \A y \in Records \ {r} : q.rec[y] = p.rec[y]
      /\ q.hist[h] = x /\ \A g \in Records \ {h} : q.hist[g] = hist[g]
  BY <1>0, <1>3 DEF RecordMaps, HistoryMaps
<1>6. \A g \in Records : q.hist[g].session = hist[g].session
  BY <1>2, <1>5
<1>7. Ending(q, p)
  BY <1>6 DEF Ending
<1>8. \A y \in Exist(p) : p.rec[y].history \in Records
  BY <1>0, PlanParts
<1>9. Open(p, r) => Carries(new, p.rec[r])
  BY <1>1, <1>4 DEF Carries, SameFacts, SameIdentity
<1>10. \A y \in Exist(p) : Open(p, y) => Open(q, y) /\ Carries(q.rec[y], p.rec[y])
  <2> SUFFICES ASSUME NEW y \in Exist(p), Open(p, y)
               PROVE  Open(q, y) /\ Carries(q.rec[y], p.rec[y])
    OBVIOUS
  <2>1. CASE y = r
    <3>1. q.rec[y].history = p.rec[y].history
      BY <1>1, <1>4, <1>5, <2>1 DEF SameFacts, SameIdentity
    <3> QED BY <1>5, <1>6, <1>8, <1>9, <2>1, <3>1 DEF Open, Session
  <2>2. CASE y # r
    BY <1>0, <1>5, <1>6, <1>8, <2>2 DEF Open, Session, Carries
  <2> QED BY <2>1, <2>2
<1>11. \A y \in Exist(q) : Applied(q.rec[y])
  <2> SUFFICES ASSUME NEW y \in Exist(q) PROVE Applied(q.rec[y])
    OBVIOUS
  <2>1. CASE y = r
    BY <1>1, <1>4, <1>5, <2>1 DEF Applied, SameFacts, SameIdentity
  <2>2. CASE y # r
    BY <1>0, <1>5, <2>2 DEF Exist
  <2> QED BY <2>1, <2>2
<1> HIDE DEF q
<1>12. q \in PlansTold(O, data)
  BY <1>7, <1>10, <1>11, PlanStays DEF q
<1> QED BY <1>12 DEF q
(* A session that the plan finds open was open before. *)
LEMMA OpenBefore ==
  ASSUME NEW O, NEW data, Exist(data) \subseteq Records, Stored(O, data),
         NEW p, Ending(p, data), NEW r \in Records, p.rec[r].history \in Records, Open(p, r)
  PROVE  r \in Exist(data) /\ Open(data, r)
<1>1. data.hist[p.rec[r].history].session = r /\ r # None
  BY Constants DEF Ending, Open, Session
<1>2. r \in Exist(data) /\ data.rec[r].history = p.rec[r].history
  BY <1>1 DEF Stored
<1> QED BY <1>1, <1>2 DEF Open, Session

(* Zone z takes record r. *)
LEMMA TakeRecordTold ==
  ASSUME NEW O, NEW data \in Stores, Stored(O, data), NEW p \in PlansTold(O, data),
         NEW z \in Zones, NEW s \in Identities, NEW r \in Exist(p),
         NEW prior \in Exist(data) \cup {None},
         \A q \in Exist(p) \ {r} : s.valve = None \/ p.rec[q].valve # s.valve
  PROVE  TakeRecord(p, data, z, s, r, prior) \in PlansTold(O, data)
<1> DEFINE E == Exist(data)
           old == p.rec[r].history
           h == IF prior # None THEN data.rec[prior].history ELSE old
           merges == old # h
           hist == IF merges THEN MergeHistory(p, r, h) ELSE p.hist
           continues == IF prior = None THEN SameActuator(p.rec[r], s)
                        ELSE r = prior /\ SameActuator(data.rec[prior], s)
           taken == TakeRecord(p, data, z, s, r, prior)
           c == Conflict(p, {}, "none")
           kept == [c EXCEPT !.hist = hist]
           active == Activate(p, hist, z, s, r, h)
<1>0. /\ p \in SoundPlans(E) /\ PlanKeeps(O, data, p) /\ old \in Records
      /\ p.hist \in HistoryMaps /\ Exist(p) \subseteq Records
      /\ \A q \in Exist(p) : p.rec[q].history \in Records /\ Applied(p.rec[q])
  BY PlanParts DEF PlansTold, PlanKeeps
<1>1. E \subseteq Records /\ h \in Records
  <2>1. E \subseteq Records /\ \A q \in Exist(data) : data.rec[q] \in RecordSet
    BY Existing DEF Stores
  <2> QED BY <1>0, <2>1 DEF RecordSet
<1>2. taken \in SoundPlans(E)
  BY <1>0, TakeRecordSound
<1>3. c \in PlansTold(O, data)
  BY <1>1, ConflictTold
<1>4. \/ taken \in {p, c}
      \/ /\ p.hist[h] # NoHistory /\ p.hist[old] # NoHistory
         /\ ~(merges /\ p.hist[old].session # None)
         /\ \/ taken = kept
            \/ taken = active /\ (hist[h].session # None => continues)
  <2>1. taken =
          IF NoHistory \in {p.hist[h], p.hist[old]} THEN p
          ELSE IF merges /\ p.hist[old].session # None THEN c
          ELSE IF hist[h].session # None /\ ~continues THEN kept
          ELSE active
    BY DEF TakeRecord
  <2> HIDE DEF taken, c, hist, continues, h, old, kept, active, merges
  <2> QED BY <2>1
<1> HIDE DEF taken, active
<1>5. ASSUME p.hist[h] # NoHistory, p.hist[old] # NoHistory, ~(merges /\ p.hist[old].session # None)
      PROVE  /\ hist \in HistoryMaps /\ hist[h] \in HistorySet
             /\ \A g \in Records : hist[g].session \in {p.hist[g].session, None}
             /\ \A q \in Exist(p) : Open(p, q) => hist[p.rec[q].history].session = q
  <2>1. p.hist[h] \in HistorySet /\ p.hist[old] \in HistorySet
    BY <1>0, <1>1, <1>5 DEF HistoryMaps
  <2>2. CASE ~merges
    BY <1>0, <2>1, <2>2 DEF Open, Session
  <2>3. CASE merges
    <3> DEFINE m == MergeHistory(p, r, h)
    <3>1. /\ hist = m /\ m \in HistoryMaps /\ m[h] \in HistorySet
          /\ m[old].session \in {p.hist[old].session, None}
          /\ \A g \in Records \ {old} : m[g].session = p.hist[g].session
          /\ p.hist[old].session = None
      BY <1>0, <1>1, <1>5, <2>1, <2>3, MergeHistoryTyped, MergeHistoryDoes
    <3> HIDE DEF m, hist, old, h
    <3>2. \A q \in Exist(p) : Open(p, q) => p.rec[q].history # old
      BY <1>0, <3>1, Constants DEF Open, Session
    <3> QED BY <1>0, <3>1, <3>2 DEF Open, Session
  <2> QED BY <2>2, <2>3
<1>6. ASSUME taken = kept, p.hist[h] # NoHistory, p.hist[old] # NoHistory,
             ~(merges /\ p.hist[old].session # None)
      PROVE  taken \in PlansTold(O, data)
  <2>1. \A q \in Records : c.rec[q] = p.rec[q]
    BY <1>0 DEF Conflict, SoundPlans, Plans
  <2>2. c \in Plans
    BY <1>3 DEF PlansTold, SoundPlans
  <2> HIDE DEF c, hist
  <2>3. taken.rec = c.rec /\ taken.hist = hist
    BY <1>6, <2>2 DEF Plans
  <2>4. /\ \A g \in Records : hist[g].session \in {p.hist[g].session, None}
        /\ \A q \in Exist(p) : Open(p, q) => hist[p.rec[q].history].session = q
    BY <1>5, <1>6
  <2>5. Exist(taken) = Exist(p) /\ Ending(taken, p)
    BY <2>1, <2>3, <2>4 DEF Exist, Ending
  <2>6. \A q \in Exist(p) : Open(p, q) => Open(taken, q) /\ Carries(taken.rec[q], p.rec[q])
    BY <1>0, <2>1, <2>3, <2>4 DEF Open, Session, Carries
  <2>7. \A q \in Exist(taken) : Applied(taken.rec[q])
    BY <1>0, <2>1, <2>3, <2>5
  <2> QED BY <1>1, <1>2, <2>5, <2>6, <2>7, PlanStays
<1>7. ASSUME taken = active, hist[h].session # None => continues,
             p.hist[h] # NoHistory, p.hist[old] # NoHistory,
             ~(merges /\ p.hist[old].session # None)
      PROVE  taken \in PlansTold(O, data)
  <2>1. /\ hist \in HistoryMaps /\ hist[h] \in HistorySet
        /\ \A g \in Records : hist[g].session \in {p.hist[g].session, None}
        /\ \A q \in Exist(p) : Open(p, q) => hist[p.rec[q].history].session = q
    BY <1>5, <1>7
  <2>2. Open(p, r) => h = p.rec[r].history /\ p.rec[r].valve = s.valve
    <3> SUFFICES ASSUME Open(p, r) PROVE h = p.rec[r].history /\ p.rec[r].valve = s.valve
      OBVIOUS
    <3>1. p.hist[old].session # None /\ p.hist[old].session = r
      BY <1>0, Constants DEF Open, Session
    <3>2. h = old
      BY <1>7, <3>1
    <3>3. continues
      BY <1>7, <3>1, <3>2
    <3>4. r \in Exist(data) /\ Open(data, r)
      BY <1>0, <1>1, OpenBefore DEF PlanKeeps
    <3>5. p.rec[r].valve = data.rec[r].valve
      BY <1>0, <3>4 DEF PlanKeeps
    <3>6. CASE prior = None
      BY <3>2, <3>3, <3>6 DEF SameActuator
    <3>7. CASE prior # None
      BY <3>2, <3>3, <3>5, <3>7 DEF SameActuator
    <3> QED BY <3>6, <3>7
  <2>3. active \in SoundPlans(Exist(data))
    BY <1>2, <1>7
  <2> HIDE DEF hist, h
  <2>4. active \in PlansTold(O, data)
    BY <1>1, <2>1, <2>2, <2>3, ActivateTold DEF active
  <2> QED BY <1>7, <2>4
<1> HIDE DEF c, kept, h, hist, merges, continues
<1>8. taken \in PlansTold(O, data)
  BY <1>3, <1>4, <1>6, <1>7
<1> QED BY <1>8 DEF taken

(* A clean record. *)
LEMMA MintedTold ==
  ASSUME NEW O, NEW data, Exist(data) \subseteq Records, NEW p \in PlansTold(O, data),
         NEW z \in Zones, NEW s \in Identities, Exact(p, s) = {}, Unused(p) # {}
  PROVE  LET r == Fresh(p)
             minted == [p EXCEPT !.rec[r] = NewRecord(z, s, r), !.hist[r] = NewHistory(z)]
         IN  /\ minted \in PlansTold(O, data) /\ r \in Exist(minted)
             /\ \A q \in Exist(minted) \ {r} : s.valve = None \/ minted.rec[q].valve # s.valve
<1> DEFINE r == Fresh(p)
           new == NewRecord(z, s, r)
           x == NewHistory(z)
           minted == [p EXCEPT !.rec[r] = new, !.hist[r] = x]
<1>0. /\ p \in SoundPlans(Exist(data)) /\ p.rec \in RecordMaps /\ p.hist \in HistoryMaps
      /\ Exist(p) \subseteq Records
      /\ \A q \in Exist(p) : p.rec[q].history \in Records /\ Applied(p.rec[q])
  BY PlanParts DEF PlansTold, PlanKeeps
<1>1. /\ minted \in SoundPlans(Exist(data)) /\ r \in Exist(minted)
      /\ \A q \in Exist(minted) \ {r} : s.valve = None \/ minted.rec[q].valve # s.valve
  BY <1>0, MintedSound
<1>2. r \in Records /\ p.rec[r] = NoRecord /\ p.hist[r] = NoHistory
  BY FreshIsUnused DEF Unused
<1>3. Applied(new) /\ x.session = None /\ p.hist[r].session = None
  <2>1. <<z, s.name, s.valve>> # None
    <3>1. <<z, s.name, s.valve>> \in Range(ZoneOrder) \X Names \X (Valves \cup {None})
      BY DEF Optional, Zones, Identities
    <3> QED BY <3>1, RecordsAssumption
  <2> QED BY <1>2, <2>1 DEF NewRecord, NewHistory, NoHistory, Applied
<1>4. minted.rec = [p.rec EXCEPT ![r] = new] /\ minted.hist = [p.hist EXCEPT ![r] = x]
  BY <1>0 DEF SoundPlans, Plans
<1> HIDE DEF r, new, x, minted
<1>5. /\ minted.rec[r] = new /\ \A q \in Records \ {r} : minted.rec[q] = p.rec[q]
      /\ minted.hist[r] = x /\ \A g \in Records \ {r} : minted.hist[g] = p.hist[g]
  BY <1>0, <1>2, <1>4 DEF RecordMaps, HistoryMaps
<1>6. Ending(minted, p)
  BY <1>3, <1>5 DEF Ending
<1>7. \A q \in Exist(p) : Open(p, q) => Open(minted, q) /\ Carries(minted.rec[q], p.rec[q])
  <2> SUFFICES ASSUME NEW q \in Exist(p), Open(p, q)
               PROVE  Open(minted, q) /\ Carries(minted.rec[q], p.rec[q])
    OBVIOUS
  <2>1. q # r /\ q \in Records /\ q # None
    BY <1>0, <1>2, Constants DEF Exist
  <2>2. p.hist[p.rec[q].history].session = q /\ p.rec[q].history \in Records
    BY <1>0 DEF Open, Session
  <2>3. p.rec[q].history # r
    BY <1>3, <2>1, <2>2
  <2> QED BY <1>5, <2>1, <2>2, <2>3 DEF Open, Session, Carries
<1>8. \A q \in Exist(minted) : Applied(minted.rec[q])
  <2> SUFFICES ASSUME NEW q \in Exist(minted) PROVE Applied(minted.rec[q])
    OBVIOUS
  <2>1. CASE q = r
    BY <1>3, <1>5, <2>1
  <2>2. CASE q # r
    BY <1>0, <1>5, <2>2 DEF Exist
  <2> QED BY <2>1, <2>2
<1>9. minted \in PlansTold(O, data)
  BY <1>1, <1>6, <1>7, <1>8, PlanStays
<1> QED BY <1>1, <1>9 DEF minted, new, x, r
(* _plan_reconciled_store, one zone. *)
LEMMA PlanZoneTold ==
  ASSUME NEW O, NEW data \in Stores, Stored(O, data), NEW p \in PlansTold(O, data),
         NEW z \in Zones, NEW snap, snap[z] \in Identities
  PROVE  PlanZone(p, data, snap, z) \in PlansTold(O, data)
<1> DEFINE s == snap[z]
           priors == {r \in Exist(data) : data.rec[r].active = z}
           prior == IF priors = {} THEN None ELSE CHOOSE r \in priors : TRUE
           exact == Exact(p, s)
           textual == {r \in Exist(p) : p.rec[r].name = s.entity
                                          /\ p.rec[r].valve \notin {None, s.valve}}
           claimed == {r \in Exist(p) : p.rec[r].active = z \/ p.rec[r].zone = z}
           chosen == Select(p, z, s)
           r0 == Fresh(p)
           c == CHOOSE r \in chosen : TRUE
           minted == [p EXCEPT !.rec[r0] = NewRecord(z, s, r0), !.hist[r0] = NewHistory(z)]
<1>0. p \in SoundPlans(Exist(data)) /\ Exist(data) \subseteq Records /\ OnePerValve(p)
  BY Existing, PlanParts DEF PlansTold, Stores
<1>1. PlanZone(p, data, snap, z) =
        IF s.ambiguous THEN Conflict(p, exact \cup claimed, "conflict")
        ELSE IF Cardinality(exact) > 1 \/ textual # {}
        THEN Conflict(p, exact \cup textual, "conflict")
        ELSE IF chosen # {} THEN TakeRecord(p, data, z, s, c, prior)
        ELSE IF Named(s.entity) = {} THEN Conflict(p, {}, "none")
        ELSE IF Unused(p) = {} THEN [p EXCEPT !.full = TRUE]
        ELSE TakeRecord(minted, data, z, s, r0, prior)
  BY DEF PlanZone
<1>2. prior \in Exist(data) \cup {None}
  OBVIOUS
<1>3. exact \cup claimed \in SUBSET Exist(p) /\ exact \cup textual \in SUBSET Exist(p)
  BY DEF Exact
<1>4. /\ Conflict(p, exact \cup claimed, "conflict") \in PlansTold(O, data)
      /\ Conflict(p, exact \cup textual, "conflict") \in PlansTold(O, data)
      /\ Conflict(p, {}, "none") \in PlansTold(O, data)
  <2> HIDE DEF exact, claimed, textual
  <2> QED BY <1>0, <1>3, ConflictTold
<1>5. ASSUME chosen # {} PROVE TakeRecord(p, data, z, s, c, prior) \in PlansTold(O, data)
  <2>1. c \in chosen
    BY <1>5
  <2>2. CASE exact # {}
    <3>1. c \in Exist(p) /\ s.valve # None /\ p.rec[c].valve = s.valve
      BY <2>1, <2>2 DEF Select, Exact
    <3>2. \A q \in Exist(p) \ {c} : p.rec[q].valve # s.valve
      BY <1>0, <3>1 DEF OnePerValve
    <3> HIDE DEF c, prior
    <3> QED BY <1>2, <3>1, <3>2, TakeRecordTold
  <2>3. CASE exact = {}
    <3>1. c \in Exist(p)
      BY <2>1, <2>3 DEF Select
    <3>2. \A q \in Exist(p) \ {c} : s.valve = None \/ p.rec[q].valve # s.valve
      BY <2>3 DEF Exact
    <3> HIDE DEF c, prior
    <3> QED BY <1>2, <3>1, <3>2, TakeRecordTold
  <2> QED BY <2>2, <2>3
<1>6. [p EXCEPT !.full = TRUE] \in PlansTold(O, data)
  <2> DEFINE q == [p EXCEPT !.full = TRUE]
  <2>1. q \in Plans /\ q.rec = p.rec /\ q.hist = p.hist /\ Exist(data) \subseteq Exist(p)
    BY <1>0 DEF SoundPlans, Plans
  <2> HIDE DEF q
  <2>2. Exist(q) = Exist(p) /\ q \in SoundPlans(Exist(data))
    BY <1>0, <2>1 DEF SoundPlans, Exist, OnePerValve
  <2>3. Ending(q, p) /\ \A r \in Exist(p) : Open(p, r) => Open(q, r)
    BY <2>1 DEF Ending, Open, Session
  <2>4. \A r \in Exist(p) : Carries(q.rec[r], p.rec[r]) /\ Applied(q.rec[r])
    BY <2>1 DEF Carries, PlansTold, PlanKeeps
  <2>5. q \in PlansTold(O, data)
    BY <1>0, <2>2, <2>3, <2>4, PlanStays
  <2> QED BY <2>5 DEF q
<1>7. ASSUME chosen = {}, Unused(p) # {}
      PROVE  TakeRecord(minted, data, z, s, r0, prior) \in PlansTold(O, data)
  <2>1. Exact(p, s) = {}
    BY <1>7 DEF Select
  <2>2. /\ minted \in PlansTold(O, data) /\ r0 \in Exist(minted)
        /\ \A q \in Exist(minted) \ {r0} : s.valve = None \/ minted.rec[q].valve # s.valve
    BY <1>0, <1>7, <2>1, MintedTold
  <2> HIDE DEF minted, r0, prior
  <2> QED BY <1>2, <2>2, TakeRecordTold
<1> HIDE DEF s, prior, exact, textual, claimed, chosen, r0, c, minted
<1> QED BY <1>1, <1>4, <1>5, <1>6, <1>7

(* First the records whose zone is gone or has another valve. *)
LEMMA TombstonedTold ==
  ASSUME Rows, NEW O, Dry(O), NEW data \in Stores, Linked(data), OnePerValve(data),
         Stored(O, data), NEW snap \in Snapshots
  PROVE  Tombstoned(data, snap) \in PlansTold(O, data)
<1> DEFINE p == Tombstoned(data, snap)
           left_ == {data.rec[r].history : r \in {q \in Exist(data) :
                     data.rec[q].active # None /\ data.rec[q].active \notin DOMAIN snap}}
<1>0. /\ Exist(data) \subseteq Records /\ NoRecord \notin RecordSet
      /\ \A r \in Exist(data) : data.rec[r] \in RecordSet
  BY Existing DEF Stores
<1>1. p \in SoundPlans(Exist(data))
  BY TombstonedSound
<1>2. /\ p.rec = [r \in Records |-> IF r \in Exist(data) THEN Tombstone(data, snap, r) ELSE NoRecord]
      /\ p.hist = [h \in Records |-> IF h \in left_ THEN [data.hist[h] EXCEPT !.active = None]
                                     ELSE data.hist[h]]
  BY DEF Tombstoned
<1>3. \A h \in left_ : data.hist[h] \in HistorySet
  BY DEF Linked
<1> HIDE DEF p, left_
<1>4. Exist(p) = Exist(data) /\ \A r \in Exist(data) : p.rec[r] = Tombstone(data, snap, r)
  BY <1>0, <1>1, <1>2, PlanParts DEF Exist
<1>5. \A h \in Records : p.hist[h].session = data.hist[h].session
  BY <1>2, <1>3 DEF HistorySet
<1>6. ASSUME NEW r \in Exist(data)
      PROVE  /\ Applied(p.rec[r]) /\ p.rec[r].history = data.rec[r].history
             /\ Open(data, r) =>
                  LET rec == p.rec[r] IN
                  /\ rec.valve = data.rec[r].valve /\ rec.ack = data.rec[r].ack
                  /\ rec.fault = data.rec[r].fault /\ rec.applied # None /\ rec.life # "RETIRED"
                  /\ OffUnconfirmed \in data.rec[r].keys => OffUnconfirmed \in rec.keys
                  /\ rec.status = "MISSING" /\ rec.valve \in O => NotProvenOff \in rec.keys
  <2> DEFINE rec == data.rec[r]
             freed == [rec EXCEPT !.active = None]
             open == Session(data, r) # None
             new == ReconcileRetained(freed, open)
  <2>0. rec \in RecordSet /\ open \in BOOLEAN /\ (Open(data, r) => open)
    BY <1>0, Constants DEF Open
  <2>1. /\ freed \in RecordSet /\ freed.active = None
        /\ freed.valve = rec.valve /\ freed.ack = rec.ack /\ freed.fault = rec.fault
        /\ freed.applied = rec.applied /\ freed.history = rec.history /\ freed.keys = rec.keys
    BY <2>0 DEF RecordSet, Optional
  <2>2. /\ Applied(rec)
        /\ rec.active # None => rec.status = "CONFIRMED"
        /\ Open(data, r) => /\ rec.ack = None /\ rec.applied # None /\ rec.life # "RETIRED"
    BY DEF Stored, Applied
  <2>3. \/ p.rec[r] = rec /\ rec.active # None
        \/ p.rec[r] = new
    <3>1. \A z \in DOMAIN snap : z # None
      BY Constants DEF Snapshots
    <3> QED BY <1>4, <3>1 DEF Tombstone
  <2> HIDE DEF rec, freed, open
  <2>4. /\ SameIdentity(new, freed)
        /\ new.ack = freed.ack /\ new.applied = freed.applied /\ new.fault = freed.fault
        /\ new.life # "ACTIVE" /\ (open => new.life = "DELETE_PENDING")
        /\ OffUnconfirmed \in new.keys <=> OffUnconfirmed \in freed.keys
        /\ open /\ Assess(freed.valve) # "off" /\ freed.ack = None => NotProvenOff \in new.keys
    BY <2>0, <2>1, RetainedDoes
  <2> HIDE DEF new
  <2>5. CASE p.rec[r] = rec /\ rec.active # None
    BY <2>2, <2>5 DEF rec
  <2>6. CASE p.rec[r] = new
    <3>1. Applied(new) /\ new.history = rec.history
      BY <2>1, <2>4 DEF Applied, SameIdentity
    <3>2. Open(data, r) =>
            /\ new.valve = rec.valve /\ new.ack = rec.ack
            /\ new.fault = rec.fault /\ new.applied # None /\ new.life # "RETIRED"
            /\ OffUnconfirmed \in rec.keys => OffUnconfirmed \in new.keys
            /\ new.status = "MISSING" /\ new.valve \in O => NotProvenOff \in new.keys
      BY <2>0, <2>1, <2>2, <2>4 DEF SameIdentity, Dry
    <3> QED BY <2>6, <3>1, <3>2 DEF rec
  <2> QED BY <2>3, <2>5, <2>6
<1>7. Ending(p, data)
  BY <1>5 DEF Ending
<1>8. \A r \in Exist(data) : Open(data, r) => Open(p, r)
  <2>1. \A r \in Exist(data) : data.rec[r].history \in Records
    BY <1>0 DEF RecordSet
  <2> QED BY <1>5, <1>6, <2>1 DEF Open, Session
<1>9. PlanKeeps(O, data, p)
  BY <1>4, <1>6, <1>7, <1>8 DEF PlanKeeps
<1> QED BY <1>1, <1>9 DEF PlansTold, p

(* _plan_reconciled_store.  Every open session survives the plan: with its *)
(* record in use, or with a key that says it is not proven OFF.            *)
LEMMA PlanTold ==
  ASSUME Rows, NEW O, Dry(O), NEW data \in Stores, Linked(data), OnePerValve(data),
         Stored(O, data), NEW snap \in Snapshots,
         NEW new, new = [rec |-> PlanReconciledStore(data, snap).rec,
                         hist |-> PlanReconciledStore(data, snap).hist],
         Storable(new)
  PROVE  Stored(O, new) /\ Fenced(O, new)
<1> DEFINE p == PlanReconciledStore(data, snap)
<1>1. p \in PlansTold(O, data)
  <2>1. Tombstoned(data, snap) \in PlansTold(O, data)
    BY TombstonedTold
  <2>2. \A z \in DOMAIN snap : z \in Zones /\ snap[z] \in Identities
    BY DEF Snapshots
  <2>3. \A q \in PlansTold(O, data), z \in DOMAIN snap \cap Zones :
          PlanZone(q, data, snap, z) \in PlansTold(O, data)
    BY <2>2, PlanZoneTold
  <2>4. p = PlanFrom(Tombstoned(data, snap), data, snap)
    BY DEF PlanReconciledStore, PlanFrom
  <2> QED BY <2>1, <2>3, <2>4, PlanningStays
<1>2. new.rec = p.rec /\ new.hist = p.hist
  OBVIOUS
<1> HIDE DEF p
<1>3. /\ Exist(new) = Exist(p) /\ Exist(data) \subseteq Exist(p) /\ Exist(p) \subseteq Records
      /\ Exist(data) \subseteq Records
      /\ PlanKeeps(O, data, p) /\ \A r \in Exist(p) : p.rec[r].history \in Records
  <2>1. p \in SoundPlans(Exist(data)) /\ PlanKeeps(O, data, p)
    BY <1>1 DEF PlansTold
  <2>2. Exist(data) \subseteq Exist(p) /\ Exist(p) \subseteq Records
        /\ \A r \in Exist(p) : p.rec[r].history \in Records
    BY <2>1, PlanParts
  <2> QED BY <1>2, <2>1, <2>2 DEF Exist
<1>4. \A r \in Exist(p) : Open(new, r) <=> Open(p, r)
  BY <1>2 DEF Open, Session
<1>5. \A r \in Exist(p) : Open(p, r) => r \in Exist(data) /\ Open(data, r)
  BY <1>3, OpenBefore DEF PlanKeeps
<1>6. \A r \in Exist(new) : Open(new, r) =>
         /\ new.rec[r].ack = None /\ new.rec[r].applied # None
         /\ new.rec[r].life # "RETIRED" /\ new.rec[r].valve # None
         /\ new.rec[r].fault # "none" => OffUnconfirmed \in new.rec[r].keys
  BY <1>2, <1>3, <1>4, <1>5 DEF PlanKeeps, Stored
<1>7. \A v \in O : \E r \in Exist(new) : new.rec[r].valve = v /\ Open(new, r)
  BY <1>2, <1>3, <1>4 DEF PlanKeeps, Stored
<1>8. \A r \in Exist(new) :
         /\ new.rec[r].life = "ACTIVE" => /\ new.rec[r].ack = None /\ new.rec[r].applied # None
                                          /\ new.rec[r].status = "CONFIRMED"
         /\ new.rec[r].active # None => new.rec[r].life = "ACTIVE"
  BY <1>2, <1>3 DEF PlanKeeps, Applied, Storable
<1>9. \A h \in Records : new.hist[h].session # None =>
         new.hist[h].session \in Exist(new) /\ new.rec[new.hist[h].session].history = h
  <2>1. NoHistory.session = None
    BY DEF NoHistory
  <2> QED BY <2>1 DEF Storable
<1>10. Stored(O, new)
  BY <1>6, <1>7, <1>8, <1>9 DEF Stored
<1>11. Fenced(O, new)
  BY <1>2, <1>3, <1>4, <1>5 DEF Fenced, PlanKeeps
<1> QED BY <1>10, <1>11
-----------------------------------------------------------------------------
(* The specification. *)

Ours == {v \in Valves : water[v] = "ours"}
Flowing == Now \in Watered(Exist(store), Ours) /\ \A u, v \in Ours : u = v

(* The inductive invariant. *)
Water == Inv /\ Flowing

LEMMA OursDry ==
  ASSUME Inv
  PROVE  Dry(Ours)
BY Constants DEF Dry, Ours, Assess, Shows

(* What the state says of the world it holds. *)
LEMMA NowTold ==
  ASSUME Water
  PROVE  /\ Now \in Watered(Exist(store), Ours) /\ Now \in Sound(Exist(store)) /\ Told(Ours, Now)
         /\ Now.store = store /\ Now.live = live /\ Dry(Ours)
BY OursDry DEF Water, Flowing, Watered, Now

(* A watered world that is committed is the next state's. *)
LEMMA StillFlowing ==
  ASSUME Water, NEW E, NEW O, NEW w \in Watered(E, O), Commit(w),
         \A v \in Ours' : v \in O /\ v \in Ours
  PROVE  Flowing'
<1>0. w \in Sound(E)
  BY DEF Watered
<1>1. Now' = w
  <2>1. w = [store |-> w.store, live |-> w.live, ghost |-> w.ghost]
    BY <1>0 DEF Sound, Worlds
  <2> QED BY <2>1 DEF Commit, Now
<1>2. Exist(store)' = E
  <2>1. Exist(store)' = Exist(w.store)
    BY DEF Commit, Exist
  <2> QED BY <1>0, <2>1, SoundParts
<1>3. Ours' \in SUBSET O
  OBVIOUS
<1> DEFINE P == Ours'
<1>4. w \in Watered(E, P)
  <2> HIDE DEF P
  <2>1. P \in SUBSET O
    BY <1>3 DEF P
  <2> QED BY <2>1, LessWater
<1>5. \A u, v \in P : u = v
  BY DEF Water, Flowing
<1> QED BY <1>1, <1>2, <1>4, <1>5 DEF Flowing

(* A step that leaves the records of the Store. *)
LEMMA FlowsOn ==
  ASSUME Water, Inv', UNCHANGED water, Now' \in Sound(Exist(store)) => Now' \in Watered(Exist(store), Ours),
         Exist(store)' = Exist(store)
  PROVE  Flowing'
<1>1. Now' \in Sound(Exist(store))
  BY DEF Inv
<1>2. Ours' = Ours
  BY DEF Ours
<1> QED BY <1>1, <1>2 DEF Water, Flowing

(* Only the runtime differs. *)
LEMMA RuntimeFlows ==
  ASSUME Water, Inv', UNCHANGED <<water, store>>,
         live'.keys = live.keys \/ ~Published(live'),
         Published(live') => Published(live) /\ Attached(live) \subseteq Attached(live'),
         Settling(live') => Settling(live),
         live'.phase # "idle" => live'.status # "clean",
         live'.keys \subseteq live.keys
  PROVE  Flowing'
<1> DEFINE E == Exist(store)
           w == Now'
           l == live'
<1>0. /\ w.store = store /\ w.live = l /\ Now.store = store /\ Now.live = live
      /\ Now \in Watered(E, Ours) /\ Exist(store)' = E /\ w \in Sound(E)
      /\ Told(Ours, Now) /\ Exist(store) = E
  <2>1. w.store = store /\ w.live = l
    BY DEF Now
  <2>2. Exist(store)' = E
    BY DEF Exist
  <2>3. w \in Sound(E)
    BY <2>2 DEF Inv
  <2> QED BY <2>1, <2>2, <2>3, NowTold
<1>1. /\ Ending(w.store, Now.store)
      /\ \A r \in E : SameFacts(w.store.rec[r], Now.store.rec[r])
      /\ \A r \in E : Open(w.store, r) <=> Open(Now.store, r)
  BY <1>0 DEF Ending, SameFacts, SameIdentity
<1>2. /\ \A r \in E : Open(store, r) /\ store.rec[r].fault # "none" => OffUnconfirmed \in store.rec[r].keys
      /\ \A r \in E : <<r, OffUnconfirmed>> \in live.keys => OffUnconfirmed \in store.rec[r].keys
      /\ Published(live) => \A r \in E : OffUnconfirmed \in store.rec[r].keys =>
                              <<r, OffUnconfirmed>> \in live.keys
  BY <1>0 DEF Told, Stored
<1>3. \A r \in E : <<r, OffUnconfirmed>> \in l.keys => OffUnconfirmed \in store.rec[r].keys
  BY <1>2
<1> HIDE DEF E, w, l
<1>4. w \in Watered(E, Ours)
  BY <1>0, <1>1, <1>2, <1>3, ToldStays DEF l
<1> QED BY <1>0, <1>4, FlowsOn DEF E, w

LEMMA ChangedFlows ==
  ASSUME Water, Inv', UNCHANGED <<water, store>>, live' = Changed
  PROVE  Flowing'
<1>0. live \in Runtimes /\ (live.phase # "idle" => live.status # "clean")
  BY NowTold, NowSound DEF Water, Inv, Told
<1>1. /\ live'.keys = live.keys /\ live'.phase = live.phase /\ live'.status = "dirty"
      /\ live'.bound = live.bound /\ live'.kept = live.kept
  BY <1>0 DEF Changed, Runtimes
<1> QED BY <1>0, <1>1, RuntimeFlows DEF Published, Settling, Attached, Bound

LEMMA ConfigFlows ==
  ASSUME Water, Inv', ConfigStep
  PROVE  Flowing'
<1>1. live' = Changed /\ UNCHANGED <<store, world>>
  BY DEF ConfigStep, Delete, Configure
<1> QED BY <1>1, ChangedFlows DEF world

LEMMA CrashFlows ==
  ASSUME Water, Inv', Crash
  PROVE  Flowing'
<1>1. live' = Down /\ UNCHANGED <<store, water>>
  BY DEF Crash, world
<1>2. Down.keys = {} /\ Down.phase = "idle" /\ Down.status = "dirty"
  BY DEF Down
<1> QED BY <1>1, <1>2, RuntimeFlows DEF Published, Settling

(* Every listener of a valve is told; none of them is told OFF of a valve  *)
(* that the integration lets flow.                                         *)
LEMMA NotifyFlows ==
  ASSUME Water, NEW v \in Valves, NEW a, NEW b, Notify(v, a, b),
         \A u \in Ours' : u \in Ours /\ (b = "off" => u # v)
  PROVE  Flowing'
<1> DEFINE E == Exist(store)
           O == {u \in Ours : b = "off" => u # v}
           R == Listeners(v)
<1>0. Now \in Watered(E, Ours) /\ Attached(live) \subseteq E /\ Now.store = store
  BY NowTold, NowSound
<1>1. Now \in Watered(E, O)
  <2>1. O \in SUBSET Ours
    OBVIOUS
  <2> HIDE DEF O, E
  <2> QED BY <1>0, <2>1, LessWater
<1>2. R \subseteq E /\ (b = "off" => \A r \in R : Now.store.rec[r].valve \notin O)
  BY <1>0 DEF Listeners
<1>3. \A u \in Ours' : u \in O /\ u \in Ours
  OBVIOUS
<1> HIDE DEF E, O
<1>4. NoticedBy(Now, R, a, b) \in Watered(E, O)
  <2> HIDE DEF R
  <2> QED BY <1>1, <1>2, NoticedByTold
<1>5. \E w \in Watered(E, O) : Commit(w)
  BY <1>1, <1>4 DEF Notify
<1> QED BY <1>3, <1>5, StillFlowing

LEMMA DeviceFlows ==
  ASSUME Water, NEW v \in Valves, Turned(v) \/ Flicker(v)
  PROVE  Flowing'
<1>0. water \in [Valves -> {"closed", "ours", "theirs"}]
  BY DEF Water, Inv
<1>1. CASE Turned(v)
  <2> DEFINE b == Shows(registry[v], IF water[v] = "closed" THEN "theirs" ELSE "closed", seen[v])
  <2>1. Notify(v, Assess(v), b)
    BY <1>1 DEF Turned
  <2>2. \A u \in Ours' : u \in Ours /\ u # v
    BY <1>0, <1>1 DEF Turned, Ours
  <2> HIDE DEF b
  <2> QED BY <2>1, <2>2, NotifyFlows
<1>2. CASE Flicker(v)
  <2> DEFINE b == Shows(registry[v], water[v], ~seen[v])
  <2>1. Notify(v, Assess(v), b)
    BY <1>2 DEF Flicker
  <2>2. \A u \in Ours' : u \in Ours /\ (b = "off" => u # v)
    BY <1>2 DEF Flicker, Ours, Shows
  <2> HIDE DEF b
  <2> QED BY <2>1, <2>2, NotifyFlows
<1> QED BY <1>1, <1>2

LEMMA RegistryFlows ==
  ASSUME Water, Inv', NEW v \in Valves,
         RemoveRow(v) \/ \E n \in Names : RestoreRow(v, n) \/ RenameRow(v, n)
  PROVE  Flowing'
<1>1. CASE RemoveRow(v)
  <2>1. Notify(v, Assess(v), "absent") /\ Ours' = Ours
    BY <1>1 DEF RemoveRow, Ours
  <2> QED BY <2>1, NotifyFlows
<1>2. ASSUME NEW n \in Names, RestoreRow(v, n) PROVE Flowing'
  <2> DEFINE b == Shows(n, water[v], seen[v])
  <2>1. Notify(v, "absent", b) /\ Ours' = Ours
    BY <1>2 DEF RestoreRow, Ours
  <2>2. \A u \in Ours : b = "off" => u # v
    BY Constants DEF Ours, Shows
  <2> HIDE DEF b
  <2> QED BY <2>1, <2>2, NotifyFlows
<1>3. ASSUME NEW n \in Names, RenameRow(v, n) PROVE Flowing'
  <2>1. live' \in {Changed, live} /\ UNCHANGED <<water, store, ghost>>
    BY <1>3 DEF RenameRow
  <2>2. CASE live' = Changed
    BY <2>1, <2>2, ChangedFlows
  <2>3. CASE live' = live
    <3>1. Now' = Now /\ Ours' = Ours /\ Exist(store)' = Exist(store)
      BY <2>1, <2>3 DEF Now, Ours, Exist
    <3> QED BY <3>1 DEF Water, Flowing
  <2> QED BY <2>1, <2>2, <2>3
<1> QED BY <1>1, <1>2, <1>3
(* When the entry is clean, no hazard blocks and every watched session is  *)
(* over or under a fault, no water flows.                                  *)
LEMMA NothingFlows ==
  ASSUME Water, NEW z \in Zones, StartWater(z)
  PROVE  Ours = {}
<1>0. /\ Told(Ours, Now) /\ Now.store = store /\ Now.live = live
      /\ \A r \in Exist(store) : store.rec[r] \in RecordSet
  BY NowTold, SoundParts
<1>1. live.status = "clean" /\ live.keys = {} /\ Published(live) /\ Settling(live)
  BY DEF StartWater, Published, Settling
<1>2. ASSUME NEW v \in Ours PROVE FALSE
  <2>1. PICK r \in Exist(store) : store.rec[r].valve = v /\ Open(store, r)
    BY <1>0 DEF Told, Stored
  <2>2. r \notin Attached(live)
    <3>1. OffUnconfirmed \notin store.rec[r].keys
      BY <1>0, <1>1, <2>1 DEF Told
    <3>2. store.rec[r].fault = "none"
      BY <1>0, <2>1, <3>1 DEF Told, Stored
    <3> QED BY <2>1, <3>2 DEF StartWater, Open
  <2>3. store.rec[r].status # "CONFIRMED"
    BY <1>0, <1>1, <2>1, <2>2 DEF Told
  <2>4. store.rec[r].status = "MISSING"
    BY <1>0, <2>1, <2>3 DEF RecordSet
  <2> QED BY <1>0, <1>1, <2>1, <2>2, <2>4 DEF Told
<1> QED BY <1>2

(* A pulse starts. *)
LEMMA StartWaterFlows ==
  ASSUME Water, Inv', NEW z \in Zones, StartWater(z)
  PROVE  Flowing'
<1> DEFINE E == Exist(store)
           r == live.bound[z]
           v == store.rec[r].valve
           h == store.rec[r].history
           w == Persist(Now, r, r, "none")
           O == {v}
<1>0. /\ Now \in Sound(E) /\ Told(Ours, Now) /\ Now.store = store /\ Now.live = live
      /\ Attached(live) \subseteq E /\ E \subseteq Records /\ OnePerValve(store)
      /\ \A q \in E : store.rec[q] \in RecordSet /\ store.rec[q].history \in Records
  BY NowTold, NowSound, SoundParts
<1>1. /\ r \in Attached(live) /\ store.rec[r].life = "ACTIVE" /\ v # None
      /\ live.phase = "idle" /\ live.status = "clean" /\ live.keys = {} /\ Commit(w)
      /\ water' = [water EXCEPT ![v] = "ours"]
  BY DEF StartWater, Attached, Bound, Assess
<1>2. Ours = {}
  BY NothingFlows
<1>3. r \in E /\ v \in Valves
  BY <1>0, <1>1 DEF RecordSet, Optional
<1>4. /\ w.live = live /\ w.store.hist[h].session = r
      /\ \A g \in Records \ {h} : w.store.hist[g] = store.hist[g]
      /\ w.store.rec[r].fault = "none"
      /\ \A q \in E : /\ SameFacts(w.store.rec[q], store.rec[q])
                      /\ w.store.rec[q].keys = store.rec[q].keys
                      /\ q # r => w.store.rec[q].fault = store.rec[q].fault
  <2> HIDE DEF r, E
  <2> QED BY <1>0, <1>3, PersistDoes
<1>5. w \in Sound(E) /\ Exist(w.store) = E
  <2>1. r \in Optional(Records)
    BY <1>0, <1>3 DEF Optional
  <2> HIDE DEF r, E
  <2>2. w \in Sound(E)
    BY <1>0, <1>3, <2>1, PersistSound
  <2> HIDE DEF w
  <2> QED BY <2>2, SoundParts
<1> HIDE DEF r, E, w
<1>6. Open(w.store, r) /\ \A q \in E : Open(w.store, q) => q = r \/ Open(store, q)
  BY <1>0, <1>3, <1>4 DEF Open, Session, SameFacts, SameIdentity
<1>7. /\ store.rec[r].ack = None /\ store.rec[r].applied # None /\ store.rec[r].status = "CONFIRMED"
      /\ h \in Records
  BY <1>0, <1>1, <1>3 DEF Told, Stored, E
<1>8. Stored(O, w.store)
  <2>1. \A u \in O : \E q \in E : w.store.rec[q].valve = u /\ Open(w.store, q)
    BY <1>3, <1>4, <1>6 DEF SameFacts, SameIdentity
  <2>2. \A q \in E : Open(w.store, q) =>
         /\ w.store.rec[q].ack = None /\ w.store.rec[q].applied # None
         /\ w.store.rec[q].life # "RETIRED" /\ w.store.rec[q].valve # None
         /\ w.store.rec[q].fault # "none" => OffUnconfirmed \in w.store.rec[q].keys
    BY <1>0, <1>1, <1>3, <1>4, <1>6, <1>7 DEF Told, Stored, SameFacts, SameIdentity, E
  <2>3. \A q \in E :
         /\ w.store.rec[q].life = "ACTIVE" => /\ w.store.rec[q].ack = None /\ w.store.rec[q].applied # None
                                              /\ w.store.rec[q].status = "CONFIRMED"
         /\ w.store.rec[q].active # None => w.store.rec[q].life = "ACTIVE"
    BY <1>0, <1>4 DEF Told, Stored, SameFacts, SameIdentity, E
  <2>4. ASSUME NEW g \in Records, w.store.hist[g].session # None
        PROVE  w.store.hist[g].session \in E /\ w.store.rec[w.store.hist[g].session].history = g
    <3>1. \A q \in E : w.store.rec[q].history = store.rec[q].history
      BY <1>4 DEF SameFacts, SameIdentity
    <3>2. CASE g = h
      BY <1>3, <1>4, <3>1, <3>2
    <3>3. CASE g # h
      <4>1. w.store.hist[g] = store.hist[g]
        BY <1>4, <3>3
      <4>2. store.hist[g].session \in E /\ store.rec[store.hist[g].session].history = g
        BY <1>0, <2>4, <4>1 DEF Told, Stored, E
      <4> QED BY <3>1, <4>1, <4>2
    <3> QED BY <3>2, <3>3
  <2> QED BY <1>5, <2>1, <2>2, <2>3, <2>4 DEF Stored
<1>9. \A q \in E : ~(w.store.rec[q].status = "MISSING" /\ w.store.rec[q].valve \in O)
  BY <1>0, <1>1, <1>3, <1>4, <1>7 DEF OnePerValve, SameFacts, SameIdentity, E
<1>10. \A q \in E : Open(w.store, q) /\ w.store.rec[q].status = "CONFIRMED" => q \in Attached(live)
  BY <1>0, <1>1, <1>4, <1>6 DEF Told, Settling, SameFacts, SameIdentity, E
<1>11. \A q \in E : OffUnconfirmed \notin w.store.rec[q].keys
  BY <1>0, <1>1, <1>4 DEF Told, Published, E
<1>12. w \in Watered(E, O)
  BY <1>1, <1>4, <1>5, <1>8, <1>9, <1>10, <1>11 DEF Watered, Told
<1>13. Ours' = O
  <2>1. water \in [Valves -> {"closed", "ours", "theirs"}]
    BY DEF Water, Inv
  <2> QED BY <1>1, <1>2, <1>3, <2>1 DEF Ours
<1>14. Now' \in Watered(Exist(store)', O)
  <2>1. w = [store |-> w.store, live |-> w.live, ghost |-> w.ghost]
    BY <1>5 DEF Sound, Worlds
  <2>2. Now' = w /\ Exist(store)' = E
    BY <1>1, <1>5, <2>1 DEF Commit, Now, Exist
  <2> QED BY <1>12, <2>2
<1> HIDE DEF O
<1>15. \A x, y \in O : x = y
  BY DEF O
<1> QED BY <1>13, <1>14, <1>15 DEF Flowing

(* OFF is confirmed. *)
LEMMA EndWaterFlows ==
  ASSUME Water, NEW r \in Records, EndWater(r)
  PROVE  Flowing'
<1> DEFINE E == Exist(store)
           v == store.rec[r].valve
           O == Ours \ {v}
           x == CloseSession(Now, r)
           w == DropKey(x, r, NotProvenOff)
<1>0. /\ Now \in Watered(E, Ours) /\ Now \in Sound(E) /\ Now.store = store /\ Now.live = live
      /\ Attached(live) \subseteq E
  BY NowTold, NowSound
<1>1. /\ r \in Attached(live) /\ Open(store, r) /\ Commit(w)
      /\ water' = [water EXCEPT ![v] = "closed"]
  BY DEF EndWater, Open
<1>2. r \in E /\ v \notin O /\ O \in SUBSET Ours
  BY <1>0, <1>1
<1>3. \A u \in Ours' : u \in O /\ u \in Ours
  <2>1. water \in [Valves -> {"closed", "ours", "theirs"}]
    BY DEF Water, Inv
  <2> QED BY <1>1, <2>1 DEF Ours
<1> HIDE DEF E, O
<1>4. Now \in Watered(E, O)
  BY <1>0, <1>2, LessWater
<1>5. x \in Watered(E, O)
  BY <1>0, <1>1, <1>2, <1>4, CloseSessionTold
<1>6. r \in Attached(x.live)
  <2>1. Watches(x, Now, E)
    BY <1>0, <1>2, CloseSessionWatches
  <2> QED BY <1>0, <1>1, <2>1 DEF Watches
<1> HIDE DEF x
<1>7. w \in Watered(E, O)
  BY <1>2, <1>5, <1>6, KeysStayTold DEF KeyKinds
<1> HIDE DEF w
<1> QED BY <1>1, <1>3, <1>7, StillFlowing

(* OFF is not confirmed. *)
LEMMA OffFailsFlows ==
  ASSUME Water, NEW r \in Records, OffFails(r)
  PROVE  Flowing'
<1> DEFINE E == Exist(store)
           h == store.rec[r].history
           x == Persist(Now, r, r, "OFF_TIMEOUT")
           w == AddKey(x, r, OffUnconfirmed)
<1>0. /\ Now \in Watered(E, Ours) /\ Now \in Sound(E) /\ Now.store = store /\ Now.live = live
      /\ Attached(live) \subseteq E /\ Told(Ours, Now) /\ E \subseteq Records
      /\ \A q \in E : store.rec[q].history \in Records
  BY NowTold, NowSound, SoundParts
<1>1. r \in E /\ Open(store, r) /\ Commit(w) /\ UNCHANGED water
  BY <1>0 DEF OffFails, Open, world
<1>2. /\ x.live = live /\ x.store.hist[h].session = r
      /\ \A g \in Records \ {h} : x.store.hist[g] = store.hist[g]
      /\ \A q \in E : /\ SameFacts(x.store.rec[q], store.rec[q])
                      /\ x.store.rec[q].keys = store.rec[q].keys
                      /\ q # r => x.store.rec[q].fault = store.rec[q].fault
  <2> HIDE DEF E
  <2> QED BY <1>0, <1>1, PersistDoes
<1>3. x \in Sound(E) /\ Exist(x.store) = E
  <2>1. r \in Optional(Records)
    BY DEF Optional
  <2> HIDE DEF E
  <2>2. x \in Sound(E)
    BY <1>0, <1>1, <2>1, PersistSound
  <2> HIDE DEF x
  <2> QED BY <2>2, SoundParts
<1> HIDE DEF E, x
<1>4. /\ JustKeys(w, x, r) /\ w.live.keys = live.keys \cup {<<r, OffUnconfirmed>>}
      /\ w.store.rec[r].keys =
           IF <<r, OffUnconfirmed>> \in live.keys THEN store.rec[r].keys
           ELSE store.rec[r].keys \cup {OffUnconfirmed}
  <2>1. /\ JustKeys(w, x, r) /\ w.live.keys = x.live.keys \cup {<<r, OffUnconfirmed>>}
        /\ <<r, OffUnconfirmed>> \in x.live.keys => w.store.rec[r].keys = x.store.rec[r].keys
        /\ <<r, OffUnconfirmed>> \notin x.live.keys =>
             w.store.rec[r].keys = x.store.rec[r].keys \cup {OffUnconfirmed}
    BY <1>1, <1>3, KeysDo
  <2> HIDE DEF w
  <2> QED BY <1>1, <1>2, <2>1
<1>5. w \in Sound(E)
  BY <1>1, <1>3, KeysSound DEF KeyKinds
<1> HIDE DEF w
<1>6. /\ w.store.hist[h].session = r
      /\ \A g \in Records \ {h} : w.store.hist[g] = store.hist[g]
      /\ SameRuntime(w.live, live)
      /\ \A q \in E : /\ SameFacts(w.store.rec[q], store.rec[q])
                      /\ q # r => /\ w.store.rec[q].fault = store.rec[q].fault
                                  /\ w.store.rec[q].keys = store.rec[q].keys
  BY <1>2, <1>3, <1>4 DEF JustKeys, SameFacts, SameIdentity
<1>7. /\ \A q \in E : Open(store, q) /\ store.rec[q].fault # "none" => OffUnconfirmed \in store.rec[q].keys
      /\ \A q \in E : <<q, OffUnconfirmed>> \in live.keys => OffUnconfirmed \in store.rec[q].keys
      /\ Published(live) => \A q \in E : OffUnconfirmed \in store.rec[q].keys =>
                              <<q, OffUnconfirmed>> \in live.keys
      /\ live.phase # "idle" => live.status # "clean"
  BY <1>0 DEF Told, Stored, E
<1>8. OffUnconfirmed \in w.store.rec[r].keys
  BY <1>1, <1>4, <1>7
<1>9. Ending(w.store, store) /\ \A q \in E : Open(w.store, q) <=> Open(store, q)
  <2>1. store.hist[h].session = r
    BY <1>1 DEF Open, Session
  <2>2. \A g \in Records : w.store.hist[g].session = store.hist[g].session
    BY <1>6, <2>1
  <2>3. \A q \in E : w.store.rec[q].history = store.rec[q].history /\ store.rec[q].history \in Records
    BY <1>0, <1>6 DEF SameFacts, SameIdentity
  <2> QED BY <2>2, <2>3 DEF Ending, Open, Session
<1>10. /\ \A q \in E : Open(w.store, q) /\ w.store.rec[q].fault # "none" =>
                        OffUnconfirmed \in w.store.rec[q].keys
       /\ \A q \in E : <<q, OffUnconfirmed>> \in w.live.keys =>
                        OffUnconfirmed \in w.store.rec[q].keys
       /\ Published(live) => \A q \in E : OffUnconfirmed \in w.store.rec[q].keys =>
                                             <<q, OffUnconfirmed>> \in w.live.keys
  BY <1>4, <1>6, <1>7, <1>8, <1>9
<1>11. /\ Attached(w.live) = Attached(live) /\ (Published(w.live) <=> Published(live))
       /\ (Settling(w.live) <=> Settling(live))
       /\ w.live.phase # "idle" => w.live.status # "clean"
       /\ live.keys \subseteq w.live.keys
  BY <1>4, <1>6, <1>7, SameRuntimeSays DEF SameRuntime
<1>12. w \in Watered(E, Ours)
  BY <1>0, <1>5, <1>6, <1>9, <1>10, <1>11, ToldStays
<1>13. Ours' = Ours
  BY <1>1 DEF Ours
<1> QED BY <1>1, <1>12, <1>13, StillFlowing
(* An operator certifies a removed actuator. *)
LEMMA CertifyFlows ==
  ASSUME Water, NEW r \in Records, Certify(r)
  PROVE  Flowing'
<1> DEFINE E == Exist(store)
           rec == store.rec[r]
           new == [rec EXCEPT !.ack = rec.valve]
           u == [Now EXCEPT !.store.rec[r] = new]
           x == RefreshTombstones(u)
           w == [x EXCEPT !.live.keys = StoreKeys(x.store)]
<1>0. /\ Now \in Watered(E, Ours) /\ Now \in Sound(E) /\ Now.store = store /\ Now.live = live
      /\ Told(Ours, Now) /\ Dry(Ours) /\ Rows /\ E \subseteq Records /\ Exist(store) = E
      /\ \A q \in E : store.rec[q] \in RecordSet /\ store.rec[q].history \in Records
      /\ r \in E /\ store \in Stores
  BY NowTold, NowSound, SoundParts DEF Water, Inv, Certify
<1>1. /\ rec.life # "ACTIVE" /\ Session(store, r) = None /\ UNCHANGED water
  BY DEF Certify, Certifiable, world
<1>2. new \in RecordSet /\ SameIdentity(new, rec)
  <2>1. rec \in RecordSet
    BY <1>0
  <2> QED BY <2>1 DEF RecordSet, SameIdentity
<1>3. u \in Sound(E)
  <2> HIDE DEF new, E
  <2> QED BY <1>0, <1>2, PutRecord
<1>4. /\ u.live = live /\ u.store.hist = store.hist /\ u.store.rec[r] = new
      /\ \A q \in E \ {r} : u.store.rec[q] = store.rec[q]
  <2>1. store.rec \in [Records -> RecordSet \cup {NoRecord}] /\ store = [rec |-> store.rec, hist |-> store.hist]
    BY <1>0 DEF Stores, RecordMaps
  <2> HIDE DEF new
  <2> QED BY <1>0, <2>1 DEF Now
<1>5. new.life = rec.life /\ new.status = rec.status /\ new.applied = rec.applied
      /\ new.keys = rec.keys /\ new.fault = rec.fault
  BY <1>0 DEF RecordSet
<1>6. Commit(w)
  <2>1. u = [Now EXCEPT !.store.rec[r].ack = rec.valve]
    BY <1>0
  <2> QED BY <2>1 DEF Certify
<1> HIDE DEF u, E
<1>7. Stored(Ours, u.store)
  <2>1. ~Open(store, r)
    BY <1>0, <1>1, Constants DEF Open
  <2>2. \A q \in E : Open(u.store, q) <=> Open(store, q)
    BY <1>2, <1>4 DEF Open, Session, SameIdentity
  <2>3. Exist(u.store) = E /\ Stored(Ours, store)
    BY <1>0, <1>3, SoundParts DEF Told
  <2>4. \A q \in E : /\ SameIdentity(u.store.rec[q], store.rec[q])
                     /\ u.store.rec[q].applied = store.rec[q].applied
                     /\ u.store.rec[q].life = store.rec[q].life
                     /\ u.store.rec[q].status = store.rec[q].status
                     /\ u.store.rec[q].keys = store.rec[q].keys
                     /\ u.store.rec[q].fault = store.rec[q].fault
                     /\ q # r => u.store.rec[q].ack = store.rec[q].ack
    <3> HIDE DEF new
    <3> QED BY <1>2, <1>4, <1>5 DEF SameIdentity
  <2>5. \A q \in E : Open(store, q) /\ store.rec[q].fault # "none" => OffUnconfirmed \in store.rec[q].keys
    BY <2>3 DEF Stored, E
  <2>6. Ending(u.store, store)
    BY <1>4 DEF Ending
  <2>7. \A q \in E : \/ u.store.rec[q].ack = store.rec[q].ack
                     \/ ~Open(u.store, q) /\ u.store.rec[q].life # "ACTIVE"
    BY <1>1, <2>1, <2>2, <2>4
  <2> QED BY <1>0, <2>2, <2>3, <2>4, <2>5, <2>6, <2>7, StoredStays
<1>8. /\ x \in Sound(E) /\ Stored(Ours, x.store) /\ Fenced(Ours, x.store)
      /\ \A q \in E : Open(x.store, q) =>
           /\ Open(u.store, q)
           /\ x.store.rec[q].status = "CONFIRMED" => u.store.rec[q].status = "CONFIRMED"
           /\ q \in Attached(u.live) => q \in Attached(x.live)
      /\ x.live.phase = u.live.phase /\ x.live.status = u.live.status
  BY <1>0, <1>3, <1>7, RefreshStored, RefreshDoes
<1> HIDE DEF x
<1>9. Settling(x.live) => \A q \in E :
        Open(x.store, q) /\ x.store.rec[q].status = "CONFIRMED" => q \in Attached(x.live)
  <2>1. \A q \in E : u.store.rec[q].status = store.rec[q].status
    BY <1>4, <1>5
  <2>2. \A q \in E : Open(u.store, q) => Open(store, q)
    BY <1>2, <1>4 DEF Open, Session, SameIdentity
  <2>3. Settling(live) => \A q \in E :
          Open(store, q) /\ store.rec[q].status = "CONFIRMED" => q \in Attached(live)
    BY <1>0 DEF Told, E
  <2> HIDE DEF new
  <2> QED BY <1>4, <1>8, <2>1, <2>2, <2>3 DEF Settling
<1>10. /\ w.store = x.store /\ w.live.keys = StoreKeys(w.store)
       /\ w.live.bound = x.live.bound /\ w.live.kept = x.live.kept
       /\ w.live.phase = x.live.phase /\ w.live.status = x.live.status
  BY <1>8 DEF Sound, Worlds, Runtimes
<1>11. w \in Sound(E)
  BY <1>8, StoreKeysTyped
<1> HIDE DEF w
<1>12. Attached(w.live) = Attached(x.live) /\ (Settling(w.live) <=> Settling(x.live))
  BY <1>10 DEF Attached, Bound, Settling
<1>13. w.live.phase # "idle" => w.live.status # "clean"
  BY <1>0, <1>4, <1>8, <1>10 DEF Told
<1>14. w \in Watered(E, Ours)
  BY <1>8, <1>9, <1>10, <1>11, <1>12, <1>13, PublishTold
<1>15. Ours' = Ours
  BY <1>1 DEF Ours
<1> QED BY <1>6, <1>14, <1>15, StillFlowing

(* A fault is acknowledged. *)
LEMMA AcknowledgeFaultFlows ==
  ASSUME Water, Inv', NEW r \in Records, AcknowledgeFault(r)
  PROVE  Flowing'
<1> DEFINE E == Exist(store)
           x == Persist(Now, r, None, "none")
           w == Now'
<1>0. /\ Now \in Watered(E, Ours) /\ Now \in Sound(E) /\ Now.store = store /\ Now.live = live
      /\ Told(Ours, Now) /\ E \subseteq Records /\ Exist(store) = E /\ r \in E /\ store \in Stores
      /\ \A q \in E : store.rec[q] \in RecordSet /\ store.rec[q].history \in Records
  BY NowTold, NowSound, SoundParts DEF AcknowledgeFault
<1>1. Session(store, r) = None /\ ~Open(store, r) /\ UNCHANGED water
  BY <1>0, Constants DEF AcknowledgeFault, Open, world
<1>2. w \in Sound(Exist(store)') /\ w.store = store' /\ w.live = live' /\ Ours' = Ours
  BY <1>1 DEF Inv, Now, Ours
<1>3. CASE store' = x.store /\ live' = x.live
  <2>1. x \in Watered(E, Ours)
    <3> HIDE DEF E
    <3> QED BY <1>0, <1>1, PersistTold
  <2>2. Exist(store)' = E
    <3>1. Exist(x.store) = E
      BY <2>1, SoundParts DEF Watered
    <3> QED BY <1>3, <3>1 DEF Exist
  <2>3. x.live.phase # "idle" => x.live.status # "clean"
    BY <2>1 DEF Watered, Told
  <2> HIDE DEF E, x, w
  <2>4. w \in Watered(E, Ours)
    BY <1>2, <1>3, <2>1, <2>2, <2>3, LiveStays
  <2> QED BY <1>1, <1>2, <2>2, <2>4 DEF w, Water, Flowing
<1>4. CASE store' = [store EXCEPT !.rec[r].fault = "none"] /\ live' = live
  <2>1. store.rec \in [Records -> RecordSet \cup {NoRecord}] /\ store = [rec |-> store.rec, hist |-> store.hist]
    BY <1>0 DEF Stores, RecordMaps
  <2>2. /\ store'.hist = store.hist /\ store'.rec[r] = [store.rec[r] EXCEPT !.fault = "none"]
        /\ store'.rec \in [Records -> {store.rec[q] : q \in Records} \cup {store'.rec[r]}]
        /\ \A q \in Records \ {r} : store'.rec[q] = store.rec[q]
    BY <1>0, <1>4, <2>1
  <2>3. /\ SameFacts(store'.rec[r], store.rec[r]) /\ store'.rec[r].keys = store.rec[r].keys
        /\ store'.rec[r].fault = "none" /\ store'.rec[r] # NoRecord
    <3> DEFINE old == store.rec[r]
               new == [old EXCEPT !.fault = "none"]
    <3>1. old \in RecordSet
      BY <1>0
    <3> HIDE DEF old
    <3>2. new \in RecordSet /\ new.fault = "none" /\ new.keys = old.keys
      BY <3>1 DEF RecordSet
    <3>3. SameFacts(new, old)
      BY <3>1 DEF SameFacts, SameIdentity, RecordSet
    <3>4. new # NoRecord
      <4>1. store.rec \in RecordMaps
        BY <2>1 DEF RecordMaps
      <4> QED BY <3>2, <4>1, Existing
    <3> HIDE DEF new
    <3> QED BY <2>2, <3>2, <3>3, <3>4 DEF old, new
  <2>4. Exist(store)' = E
    BY <1>0, <2>2, <2>3 DEF Exist
  <2>5. \A q \in E : /\ SameFacts(store'.rec[q], store.rec[q]) /\ store'.rec[q].keys = store.rec[q].keys
                     /\ store'.rec[q].fault \in {store.rec[q].fault, "none"}
    BY <1>0, <2>2, <2>3 DEF SameFacts, SameIdentity
  <2>6. Ending(store', store) /\ \A q \in E : Open(store', q) <=> Open(store, q)
    BY <2>2, <2>5 DEF Ending, Open, Session, SameFacts, SameIdentity
  <2>7. /\ \A q \in E : Open(store, q) /\ store.rec[q].fault # "none" => OffUnconfirmed \in store.rec[q].keys
        /\ \A q \in E : <<q, OffUnconfirmed>> \in live.keys => OffUnconfirmed \in store.rec[q].keys
        /\ Published(live) => \A q \in E : OffUnconfirmed \in store.rec[q].keys =>
                                <<q, OffUnconfirmed>> \in live.keys
        /\ live.phase # "idle" => live.status # "clean"
    BY <1>0 DEF Told, Stored
  <2> HIDE DEF E, w
  <2>8. /\ w \in Sound(E) /\ Now.store = store /\ Now.live = live
        /\ w.store = store' /\ w.live = live
    BY <1>0, <1>2, <1>4, <2>4
  <2>9. \A q \in E : Open(store', q) /\ store'.rec[q].fault # "none" => OffUnconfirmed \in store'.rec[q].keys
    BY <2>5, <2>6, <2>7
  <2>10. w \in Watered(E, Ours)
    BY <1>0, <2>5, <2>6, <2>7, <2>8, <2>9, ToldStays
  <2> QED BY <1>1, <1>2, <2>4, <2>10 DEF w, Water, Flowing
<1>5. \/ store' = x.store /\ live' = x.live
      \/ store' = [store EXCEPT !.rec[r].fault = "none"] /\ live' = live
  <2> DEFINE theirs == \E q \in Exist(store) \ {r} : /\ store.rec[q].history = store.rec[r].history
                                                     /\ store.rec[q].life = "ACTIVE"
             y == [x EXCEPT !.ghost.overwritten = @ \/ theirs]
             f == [Now EXCEPT !.store.rec[r].fault = "none"]
  <2>1. Commit(y) \/ Commit(f)
    BY DEF AcknowledgeFault
  <2>2. x \in Sound(E)
    BY <1>0, PersistSound DEF Optional
  <2>3. y.store = x.store /\ y.live = x.live
    <3> HIDE DEF theirs, x, E
    <3> QED BY <2>2 DEF Sound, Worlds
  <2>4. f.store = [store EXCEPT !.rec[r].fault = "none"] /\ f.live = live
    BY DEF Now
  <2> HIDE DEF y, f, x
  <2> QED BY <2>1, <2>3, <2>4 DEF Commit
<1> QED BY <1>3, <1>4, <1>5
(* Starting to apply a snapshot. *)
LEMMA BeginFlows ==
  ASSUME Water, Begin
  PROVE  Flowing'
<1> DEFINE E == Exist(store)
           snap == BuildSnapshot(store)
           l == [live EXCEPT !.phase = "plan", !.snap = snap, !.moved = FALSE]
           start == [Now EXCEPT !.live.phase = "plan", !.live.snap = snap, !.live.moved = FALSE]
           w == Retain(start, Displaced(snap))
<1>0. /\ Now \in Watered(E, Ours) /\ Now \in Sound(E) /\ Rows /\ store \in Stores /\ live \in Runtimes
      /\ Attached(live) \subseteq E /\ Now.store = store /\ Now.live = live /\ Dry(Ours)
  BY NowTold, NowSound DEF Water, Inv
<1>1. snap \in Snapshots /\ Displaced(snap) \subseteq E
  BY <1>0, SnapshotTyped DEF Displaced
<1>2. live.status # "clean" /\ Commit(w) /\ Ours' = Ours
  BY DEF Begin, world, Ours
<1> HIDE DEF snap
<1>3. /\ l \in Runtimes /\ l.bound = live.bound /\ l.kept = live.kept
      /\ l.keys = live.keys /\ l.phase = "plan" /\ l.status = live.status
  BY <1>0, <1>1 DEF Runtimes
<1>4. start = [Now EXCEPT !.live = l]
  BY DEF Now
<1>5. Attached(l) \subseteq E
  BY <1>0, <1>3 DEF Attached, Bound
<1> HIDE DEF l, E
<1>6. start.store = store /\ start.live = l
  BY <1>4 DEF Now
<1>7. start \in Sound(E)
  BY <1>0, <1>3, <1>4, <1>5, PutLive
<1> HIDE DEF start
<1>8. start \in Watered(E, Ours)
  BY <1>0, <1>2, <1>3, <1>6, <1>7, IdleTold
<1>9. w \in Watered(E, Ours)
  BY <1>0, <1>1, <1>8, RetainTold
<1> HIDE DEF w
<1> QED BY <1>2, <1>9, StillFlowing

(* The plan is saved. *)
LEMMA PlanFlows ==
  ASSUME Water, Inv', Plan
  PROVE  Flowing'
<1> DEFINE E == Exist(store)
           p == PlanReconciledStore(store, live.snap)
           data == [rec |-> p.rec, hist |-> p.hist]
           saved == [Now EXCEPT !.store = data, !.live.keys = StoreKeys(data)]
           sync == [saved EXCEPT !.live.phase = "sync"]
<1>0. /\ Now \in Watered(E, Ours) /\ Now \in Sound(E) /\ Rows /\ store \in Stores /\ live \in Runtimes
      /\ Linked(store) /\ OnePerValve(store) /\ Now.store = store /\ Now.live = live
      /\ Dry(Ours) /\ Told(Ours, Now)
  BY NowTold, NowSound DEF Water, Inv
<1>1. live.phase = "plan" /\ live.status # "clean" /\ live.snap \in Snapshots /\ Ours' = Ours
  BY <1>0 DEF Plan, Told, Runtimes, world, Ours
<1>2. \/ \E w \in {Superseded(Now), Failed(Now)} : Commit(w)
      \/ Storable(data) /\ \E w \in {Failed(saved), sync} : Commit(w)
  <2>1. Commit(IF live.moved THEN Superseded(Now)
               ELSE IF ~Storable(data) THEN Failed(Now)
               ELSE IF p.conflict THEN Failed(saved)
               ELSE sync)
    BY DEF Plan
  <2> HIDE DEF p, data, saved, sync
  <2> QED BY <2>1
<1>3. ASSUME NEW w \in {Superseded(Now), Failed(Now)}, Commit(w)
      PROVE  Flowing'
  <2>1. w \in Watered(E, Ours)
    BY <1>0, <1>1, FailedTold
  <2> QED BY <1>1, <1>3, <2>1, StillFlowing
<1>4. ASSUME Storable(data), NEW w \in {Failed(saved), sync}, Commit(w)
      PROVE  Flowing'
  <2>1. Stored(Ours, data) /\ Fenced(Ours, data)
    <3>1. Stored(Ours, store)
      BY <1>0 DEF Told
    <3> QED BY <1>0, <1>1, <1>4, <3>1, PlanTold
  <2> HIDE DEF p, data, E
  <2>2. /\ w.store = data /\ w.live.keys = StoreKeys(data) /\ w.live.status # "clean"
        /\ w.live.phase \in {"idle", "sync"}
    <3> DEFINE K == StoreKeys(data)
               L == [live EXCEPT !.keys = K]
    <3>1. live = [phase |-> live.phase, status |-> live.status, snap |-> live.snap,
                  moved |-> live.moved, bound |-> live.bound, kept |-> live.kept,
                  ext |-> live.ext, keys |-> live.keys, mem |-> live.mem]
      BY <1>0 DEF Runtimes
    <3>2. L = [phase |-> live.phase, status |-> live.status, snap |-> live.snap,
               moved |-> live.moved, bound |-> live.bound, kept |-> live.kept,
               ext |-> live.ext, keys |-> K, mem |-> live.mem]
      BY <3>1
    <3>3. saved = [store |-> data, live |-> L, ghost |-> ghost]
      <4> DEFINE X == [Now EXCEPT !.store = data]
      <4>1. X = [store |-> data, live |-> live, ghost |-> ghost]
        BY DEF Now
      <4>2. saved = [X EXCEPT !.live = [X.live EXCEPT !.keys = K]]
        OBVIOUS
      <4> HIDE DEF X, saved
      <4> QED BY <4>1, <4>2
    <3> HIDE DEF saved, K, L
    <3>4. CASE w = Failed(saved)
      <4>1. w.store = data /\ w.live = [L EXCEPT !.phase = "idle", !.status = "failed"]
        BY <3>3, <3>4 DEF Failed
      <4> QED BY <3>2, <4>1 DEF K
    <3>5. CASE w = sync
      <4>1. w.store = data /\ w.live = [L EXCEPT !.phase = "sync"]
        BY <3>3, <3>5
      <4> QED BY <1>1, <3>2, <4>1 DEF K
    <3> QED BY <1>4, <3>4, <3>5
  <2> HIDE DEF saved, sync
  <2>3. /\ Now'.store = data /\ Now'.live = w.live /\ Exist(store)' = Exist(data)
        /\ Now' \in Sound(Exist(store)')
    <3>1. store' = data /\ live' = w.live
      BY <1>4, <2>2 DEF Commit
    <3> QED BY <3>1 DEF Now, Exist, Inv
  <2> DEFINE x == Now'
  <2>4. /\ x \in Sound(Exist(data)) /\ x.store = data /\ x.live.keys = StoreKeys(data)
        /\ x.live.status # "clean" /\ ~Settling(x.live)
    BY <2>2, <2>3 DEF Settling
  <2> HIDE DEF x
  <2>5. x \in Watered(Exist(data), Ours)
    BY <2>1, <2>4, PublishTold
  <2> QED BY <1>1, <2>3, <2>5 DEF x, Water, Flowing
<1> HIDE DEF data, saved, sync
<1> QED BY <1>2, <1>3, <1>4

(* Controllers follow the plan. *)
LEMMA SynchronizeFlows ==
  ASSUME Water, Synchronize
  PROVE  Flowing'
<1> DEFINE E == Exist(store)
           u == Rebind(Now)
           bound == FoldLeft(BindZone, u, ZoneOrder)
           all == FoldLeft(Watch, bound, [r \in Records |-> r])
           done == [all EXCEPT !.live.phase = "finish"]
<1>0. /\ Now \in Watered(E, Ours) /\ Now.live = live /\ Dry(Ours)
  BY NowTold
<1>1. live.phase = "sync" /\ Ours' = Ours
  BY DEF Synchronize, world, Ours
<1>2. \/ Commit(Superseded(Now)) \/ Commit(all)
      \/ all.live.phase # "idle" /\ Commit(done)
  <2>1. Commit(IF live.moved THEN Superseded(Now) ELSE IF all.live.phase = "idle" THEN all ELSE done)
    BY DEF Synchronize
  <2> HIDE DEF all, done
  <2> QED BY <2>1
<1> HIDE DEF E
<1>3. Superseded(Now) \in Watered(E, Ours)
  BY <1>0, <1>1, FailedTold
<1>4. u \in Watered(E, Ours) /\ u.live.phase = "sync"
  BY <1>0, <1>1, RebindTold
<1> HIDE DEF u
<1>5. bound \in Watered(E, Ours)
  BY <1>0, <1>4, AllBound
<1>6. all.live.phase \in {"sync", "idle"}
  BY <1>0, <1>4, PhaseStays
<1> HIDE DEF bound
<1>7. all \in Watered(E, Ours) /\ WatchedUpTo(E, MaxRecords, all)
  BY <1>0, <1>5, AllWatched
<1> HIDE DEF all
<1>8. ASSUME all.live.phase # "idle" PROVE done \in Watered(E, Ours)
  <2>1. /\ all \in Sound(E) /\ Told(Ours, all) /\ Exist(all.store) = E /\ E \subseteq Records
        /\ all.live.status # "clean" /\ Published(all.live)
    BY <1>6, <1>7, <1>8, SoundParts DEF Watered, Told, Published
  <2>2. /\ done.store = all.store /\ done.live.keys = all.live.keys
        /\ done.live.bound = all.live.bound /\ done.live.kept = all.live.kept
        /\ done.live.phase = "finish" /\ done.live.status = all.live.status
    BY <2>1 DEF Sound, Worlds, Runtimes
  <2>3. done \in Sound(E)
    BY <2>1, PhaseSound
  <2> HIDE DEF done
  <2>4. Attached(done.live) = Attached(all.live)
    BY <2>2 DEF Attached, Bound
  <2>5. \A r \in E : r <= MaxRecords
    BY <2>1, Constants
  <2>6. \A r \in E : Open(all.store, r) /\ all.store.rec[r].status = "CONFIRMED" => r \in Attached(all.live)
    BY <1>7, <1>8, <2>5 DEF WatchedUpTo
  <2>7. Told(Ours, done)
    BY <2>1, <2>2, <2>4, <2>6 DEF Told
  <2> QED BY <2>3, <2>7 DEF Watered
<1> HIDE DEF done
<1>9. \E w \in Watered(E, Ours) : Commit(w)
  BY <1>2, <1>3, <1>7, <1>8
<1> QED BY <1>1, <1>9, StillFlowing

(* The snapshot is applied. *)
LEMMA FinishFlows ==
  ASSUME Water, Finish
  PROVE  Flowing'
<1> DEFINE E == Exist(store)
           u == RefreshTombstones(Now)
           all == FoldLeft(Reread, u, ZoneOrder)
           done == [all EXCEPT !.live.phase = "idle", !.live.status = "clean"]
<1>0. /\ Now \in Watered(E, Ours) /\ Now \in Sound(E) /\ Now.live = live /\ Dry(Ours) /\ Rows
  BY NowTold DEF Water, Inv
<1>1. live.phase = "finish" /\ Ours' = Ours /\ \E w \in {Superseded(u), done} : Commit(w)
  BY DEF Finish, world, Ours
<1> HIDE DEF E
<1>2. u \in Watered(E, Ours) /\ u.live.phase = "finish"
  <2>1. Settling(Now.live)
    BY <1>0, <1>1 DEF Settling
  <2> QED BY <1>0, <1>1, <2>1, RefreshTold, RefreshDoes
<1> HIDE DEF u
<1>3. Superseded(u) \in Watered(E, Ours)
  BY <1>2, FailedTold
<1>4. all \in Watered(E, Ours) /\ all.live.phase = "finish"
  BY <1>2, AllReread
<1> HIDE DEF all
<1>5. done \in Watered(E, Ours)
  <2>0. all \in Sound(E)
    BY <1>4 DEF Watered
  <2>1. /\ done.store = all.store /\ done.live.keys = all.live.keys
        /\ done.live.bound = all.live.bound /\ done.live.kept = all.live.kept
        /\ done.live.phase = "idle"
    BY <2>0 DEF Sound, Worlds, Runtimes
  <2>2. done \in Sound(E)
    BY <2>0, PhaseSound
  <2> HIDE DEF done
  <2>3. Attached(done.live) = Attached(all.live)
    BY <2>1 DEF Attached, Bound
  <2>4. Published(all.live) /\ Settling(all.live)
    BY <1>4 DEF Published, Settling
  <2> QED BY <1>4, <2>1, <2>2, <2>3, <2>4, LiveStays
<1> HIDE DEF done
<1> QED BY <1>1, <1>3, <1>5, StillFlowing

(* A new installation, or one whose Store was lost. *)
LEMMA StartsFlowing == Init => Water
<1> SUFFICES ASSUME Init PROVE Water
  OBVIOUS
<1>1. Inv
  BY StartsSound
<1>2. /\ Ours = {} /\ live = Down /\ Now.store = store /\ Now.live = live
      /\ Down.phase = "idle" /\ Down.status = "dirty" /\ Down.keys = {}
  BY DEF Init, Ours, Now, Down
<1>3. PICK z \in Zones : store \in {NoStore, LostStore(z)}
  BY DEF Init
<1>4. /\ \A r \in Exist(store) : r = 1 /\ store.rec[r] = LostRecord(z, 1)
      /\ \A h \in Records : store.hist[h].session = None
  <2>1. 1 \in Records
    BY RecordsAssumption DEF Records
  <2> QED BY <1>3, <2>1 DEF NoStore, LostStore, Exist, NoHistory, LostHistory, NewHistory
<1>5. /\ \A r \in Exist(store) : ~Open(store, r)
      /\ \A r \in Exist(store) : store.rec[r].life # "ACTIVE" /\ store.rec[r].active = None
  <2>1. \A r \in Exist(store) : store.rec[r].history = 1 /\ store.rec[r].life = "DELETE_PENDING"
                                /\ store.rec[r].active = None /\ r \in Records
    <3>1. /\ LostRecord(z, 1).history = 1 /\ LostRecord(z, 1).life = "DELETE_PENDING"
          /\ LostRecord(z, 1).active = None
      BY DEF LostRecord, NewRecord
    <3> QED BY <1>4, <3>1 DEF Exist
  <2>2. 1 \in Records /\ None \notin Records
    BY Constants, RecordsAssumption DEF Records
  <2> QED BY <1>4, <2>1, <2>2 DEF Open, Session
<1>6. Stored(Ours, store)
  BY <1>2, <1>4, <1>5 DEF Stored
<1>7. Told(Ours, Now)
  BY <1>2, <1>5, <1>6 DEF Told, Published, Settling
<1> QED BY <1>1, <1>2, <1>7 DEF Water, Flowing, Watered, Inv

(* Every step keeps the invariant. *)
LEMMA StepFlows == Water /\ [Next]_vars => Water'
<1> SUFFICES ASSUME Water, [Next]_vars PROVE Water'
  OBVIOUS
<1>0. Inv'
  BY StepSound DEF Water
<1>1. CASE Begin \/ Plan \/ Synchronize \/ Finish
  BY <1>0, <1>1, BeginFlows, PlanFlows, SynchronizeFlows, FinishFlows DEF Water
<1>2. CASE ControllerStep
  BY <1>0, <1>2, StartWaterFlows, EndWaterFlows, OffFailsFlows DEF ControllerStep, Water
<1>3. CASE ConfigStep
  BY <1>0, <1>3, ConfigFlows DEF Water
<1>4. CASE RegistryStep
  BY <1>0, <1>4, RegistryFlows DEF RegistryStep, Water
<1>5. CASE DeviceStep
  BY <1>0, <1>5, DeviceFlows DEF DeviceStep, Water
<1>6. CASE OperatorStep
  BY <1>0, <1>6, CertifyFlows, AcknowledgeFaultFlows DEF OperatorStep, Water
<1>7. CASE Crash
  BY <1>0, <1>7, CrashFlows DEF Water
<1>8. CASE Settled \/ UNCHANGED vars
  <2>1. Now' = Now /\ Exist(store)' = Exist(store) /\ Ours' = Ours
    BY <1>8 DEF Settled, vars, Now, Exist, Ours
  <2> QED BY <1>0, <2>1 DEF Water, Flowing
<1> QED BY <1>1, <1>2, <1>3, <1>4, <1>5, <1>6, <1>7, <1>8 DEF Next

(* Whatever happens between a start and its confirmed OFF (another         *)
(* actuator for the zone, its deletion, a removed row, a crash), the water *)
(* that the integration lets flow stays the open session of that valve's   *)
(* record (runtime.py, _plan_reconciled_store, _reconcile_retained_record; *)
(* storage.py): the plan never ends a session whose valve it has not seen  *)
(* closed.                                                                 *)
THEOREM WaterIsRecorded == Spec => []WaterRecorded
<1>1. Water => WaterRecorded
  <2> SUFFICES ASSUME Water, NEW v \in Valves, water[v] = "ours"
               PROVE  \E r \in Exist(store) :
                        /\ store.rec[r].valve = v
                        /\ Session(store, r) = r \/ OffUnconfirmed \in store.rec[r].keys
    BY DEF WaterRecorded
  <2>1. v \in Ours /\ Stored(Ours, store)
    BY NowTold DEF Ours, Told
  <2> QED BY <2>1 DEF Stored, Open
<1> QED BY <1>1, StartsFlowing, StepFlows, PTL DEF Spec

(* The slot and the blockers allow one flow: no start is granted while any *)
(* valve may still give water of an earlier session, also one whose zone   *)
(* has another valve since, whose row is gone, whose OFF was never         *)
(* confirmed, or that a crash interrupted (slot_manager.py; runtime.py,    *)
(* the blockers published from the Store).                                 *)
THEOREM OneFlowAtOnce == Spec => []OneFlow
<1>1. Water => OneFlow
  <2> SUFFICES ASSUME Water PROVE Cardinality(Ours) <= 1
    BY DEF OneFlow, Ours
  <2>1. CASE Ours = {}
    BY <2>1, FS_EmptySet
  <2>2. CASE Ours # {}
    <3>1. PICK v : v \in Ours
      BY <2>2
    <3>2. Ours = {v}
      BY <3>1 DEF Water, Flowing
    <3>3. Cardinality({v}) = 1
      BY FS_Singleton
    <3> HIDE DEF Ours
    <3> QED BY <3>2, <3>3
  <2> QED BY <2>1, <2>2
<1> QED BY <1>1, StartsFlowing, StepFlows, PTL DEF Spec

(* Once a configuration is applied, every session that is open on disk and *)
(* whose actuator is known has a controller that can command its OFF       *)
(* (runtime.py, _synchronize_controllers: the retained controllers).       *)
THEOREM SessionsAreWatched == Spec => []SessionsWatched
<1>1. Water => SessionsWatched
  <2> SUFFICES ASSUME Water, live.status = "clean", NEW r \in Exist(store),
                      Session(store, r) = r, store.rec[r].status = "CONFIRMED"
               PROVE  r \in Attached(live)
    BY DEF SessionsWatched
  <2>1. Told(Ours, Now) /\ Now.store = store /\ Now.live = live
    BY NowTold
  <2> QED BY <2>1 DEF Told, Settling, Open
<1> QED BY <1>1, StartsFlowing, StepFlows, PTL DEF Spec
=============================================================================
