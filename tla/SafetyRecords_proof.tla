------------------------ MODULE SafetyRecords_proof ------------------------
(***************************************************************************)
(* Proofs about SafetyRecords, for any zones, valves and names, any number *)
(* of records and any history of inputs: types, and the one canonical      *)
(* record per durable actuator.                                            *)
(*                                                                         *)
(* The operators work on worlds, a Store and a runtime together.  A sound  *)
(* world has typed parts, every record's history in the Store, no two      *)
(* records for one valve, and controllers only for records that exist.     *)
(* Each operator, loops included, is shown to keep worlds sound; each      *)
(* action is then one of them.                                             *)
(***************************************************************************)
EXTENDS SafetyRecords, FoldLemmas, FiniteSetTheorems

KeyKinds == {NotProvenOff, OffUnconfirmed, ExternalKey}

RecordSet ==
    [zone : Zones, active : Optional(Zones), history : Records, former : SUBSET Records,
     life : {"ACTIVE", "DELETE_PENDING", "RETIRED"},
     applied : Optional(Zones \X Names \X Optional(Valves)),
     valve : Optional(Valves), name : Optional(Names), status : {"CONFIRMED", "MISSING"},
     keys : SUBSET KeyKinds, owner : {"none", "INTEGRATION", "EXTERNAL"},
     incident : {"none", "lost", "missing", "conflict"},
     fault : {"none", "OFF_TIMEOUT", "RESTORED"}, ack : Optional(Valves)]

HistorySet ==
    [active : Optional(Zones), session : Optional(Records), spent : Nat, lost : SUBSET Records]

RecordMaps == [Records -> RecordSet \cup {NoRecord}]
HistoryMaps == [Records -> HistorySet \cup {NoHistory}]
Stores == [rec : RecordMaps, hist : HistoryMaps]

(* What the snapshot says of a zone. *)
Identities == [name : Names, valve : Optional(Valves), entity : Names, ambiguous : BOOLEAN]
Snapshots == UNION {[S -> Identities] : S \in SUBSET Zones}

Runtimes ==
    [phase : {"idle", "plan", "sync", "finish"}, status : {"dirty", "clean", "failed"},
     snap : Snapshots, moved : BOOLEAN, bound : [Zones -> Optional(Records)],
     kept : SUBSET Records, ext : SUBSET Records, keys : SUBSET (Records \X KeyKinds),
     mem : [Records -> [home : Optional(Records), daily : Nat]]]

(* One record per durable actuator. *)
OnePerValve(data) ==
    \A r, q \in Exist(data) :
      data.rec[r].valve # None /\ data.rec[r].valve = data.rec[q].valve => r = q

(* The history of every record is in the Store. *)
Linked(data) == \A r \in Exist(data) : data.hist[data.rec[r].history] \in HistorySet

-----------------------------------------------------------------------------
(* What the constants are. *)
LEMMA Constants ==
  /\ MaxRecords \in Nat /\ Records = 1 .. MaxRecords /\ Records \subseteq Nat
  /\ None \notin Records /\ None \notin Zones /\ None \notin Valves /\ None \notin Names
  /\ ZoneOrder \in Seq(Zones) /\ DOMAIN ZoneOrder = 1 .. Len(ZoneOrder) /\ Len(ZoneOrder) \in Nat
  /\ \A n \in DOMAIN ZoneOrder : ZoneOrder[n] \in Zones
<1>1. ZoneOrder \in Seq(Zones)
  BY RecordsAssumption DEF Zones
<1>2. DOMAIN ZoneOrder = 1 .. Len(ZoneOrder) /\ Len(ZoneOrder) \in Nat
  BY <1>1
<1>3. \A n \in DOMAIN ZoneOrder : ZoneOrder[n] \in Zones
  BY DEF Zones, Range
<1>4. MaxRecords \in Nat /\ Records = 1 .. MaxRecords /\ Records \subseteq Nat
  BY RecordsAssumption DEF Records
<1> QED BY <1>1, <1>2, <1>3, <1>4, RecordsAssumption DEF Zones

(* A record is a record, and what is not one exists nowhere. *)
LEMMA Existing ==
  ASSUME NEW data, data.rec \in RecordMaps
  PROVE  /\ NoRecord \notin RecordSet
         /\ Exist(data) \subseteq Records
         /\ \A r \in Exist(data) : data.rec[r] \in RecordSet
         /\ \A r \in Records : data.rec[r] \in RecordSet => r \in Exist(data)
<1>1. NoRecord \notin RecordSet
  BY DEF NoRecord, RecordSet
<1> QED BY <1>1 DEF Exist, RecordMaps

(* Which fields a judgement of the actuator leaves alone. *)
SameIdentity(new, old) ==
    /\ new.valve = old.valve /\ new.history = old.history
    /\ new.zone = old.zone /\ new.active = old.active

(* _reconcile_active_record *)
LEMMA ReconcileActiveSound ==
  ASSUME NEW rec \in RecordSet, NEW open, NEW a, NEW certified
  PROVE  LET new == ReconcileActive(rec, open, a, certified) IN
         new \in RecordSet /\ SameIdentity(new, rec)
<1> DEFINE cleared == rec.keys \ {NotProvenOff, ExternalKey}
           new == ReconcileActive(rec, open, a, certified)
<1>1. cleared \in SUBSET KeyKinds /\ rec.keys \in SUBSET KeyKinds
  BY DEF RecordSet
<1>2. PICK keys \in SUBSET KeyKinds, owner \in {"none", "INTEGRATION", "EXTERNAL"} :
        new = [rec EXCEPT !.keys = keys, !.owner = owner]
  <2>0. rec.keys \cup {NotProvenOff} \in SUBSET KeyKinds /\ rec.keys \cup {ExternalKey} \in SUBSET KeyKinds
    BY <1>1 DEF KeyKinds
  <2>1. CASE a = "off" \/ (a = "absent" /\ certified)
    BY <1>1, <2>1 DEF ReconcileActive, RecordSet
  <2>2. CASE ~(a = "off" \/ (a = "absent" /\ certified)) /\ a = "on" /\ ~open
    BY <2>0, <2>2 DEF ReconcileActive
  <2>3. CASE ~(a = "off" \/ (a = "absent" /\ certified)) /\ ~(a = "on" /\ ~open)
    <3>1. new = [rec EXCEPT !.keys = rec.keys \cup {NotProvenOff}]
      BY <2>3 DEF ReconcileActive
    <3>2. new = [rec EXCEPT !.keys = rec.keys \cup {NotProvenOff}, !.owner = rec.owner]
      BY <3>1 DEF RecordSet
    <3>3. rec.owner \in {"none", "INTEGRATION", "EXTERNAL"}
      BY DEF RecordSet
    <3> QED BY <2>0, <3>2, <3>3
  <2> QED BY <2>1, <2>2, <2>3
<1> HIDE DEF new
<1>3. new \in RecordSet /\ SameIdentity(new, rec)
  BY <1>2 DEF RecordSet, SameIdentity
<1> QED BY <1>3 DEF new

(* The names of the registry's rows. *)
Rows == registry \in [Valves -> Optional(Names)]

(* What shows something has a row. *)
LEMMA ShownHasRow ==
  ASSUME Rows, NEW v \in Optional(Valves), Assess(v) # "absent"
  PROVE  v \in Valves /\ registry[v] \in Names
BY DEF Rows, Assess, Shows, Optional

(* _reconcile_retained_record *)
LEMMA ReconcileRetainedSound ==
  ASSUME Rows, NEW rec \in RecordSet, NEW open
  PROVE  LET new == ReconcileRetained(rec, open) IN
         new \in RecordSet /\ SameIdentity(new, rec)
<1> DEFINE a == Assess(rec.valve)
           certified == a = "absent" /\ rec.ack # None /\ rec.ack = rec.valve
           judged == ReconcileActive(rec, open, a, certified)
           new == ReconcileRetained(rec, open)
<1>0. rec.valve \in Optional(Valves)
  BY DEF RecordSet
<1>1. judged \in RecordSet /\ SameIdentity(judged, rec)
  BY ReconcileActiveSound
<1>2. a # "absent" => registry[rec.valve] \in Optional(Names)
  BY <1>0, ShownHasRow DEF Optional
<1>3. PICK life \in {"RETIRED", "DELETE_PENDING"} :
        new = [(IF a # "absent" THEN [judged EXCEPT !.name = registry[rec.valve]]
                ELSE [judged EXCEPT !.status = "MISSING",
                                    !.incident = IF certified THEN "none" ELSE "missing"])
               EXCEPT !.life = life]
  BY DEF ReconcileRetained
<1> HIDE DEF new, judged, certified, a
<1>4. CASE a # "absent"
  <2>1. new = [judged EXCEPT !.name = registry[rec.valve], !.life = life]
    BY <1>3, <1>4
  <2>2. new \in RecordSet /\ SameIdentity(new, judged)
    BY <2>1, <1>1, <1>2, <1>4 DEF RecordSet, SameIdentity
  <2> QED BY <2>2, <1>1 DEF new, SameIdentity
<1>5. CASE a = "absent"
  <2>1. PICK incident \in {"none", "missing"} :
          new = [judged EXCEPT !.status = "MISSING", !.incident = incident, !.life = life]
    BY <1>3, <1>5
  <2>2. new \in RecordSet /\ SameIdentity(new, judged)
    BY <2>1, <1>1 DEF RecordSet, SameIdentity
  <2> QED BY <2>2, <1>1 DEF new, SameIdentity
<1> QED BY <1>4, <1>5

-----------------------------------------------------------------------------
(* Worlds. *)

Ghosts == [charged : {c \in SUBSET (Records \X Zones \X Nat) : IsFiniteSet(c)},
           overwritten : BOOLEAN]
Worlds == [store : Stores, live : Runtimes, ghost : Ghosts]

(* Sound worlds in which just the records in E exist. *)
Sound(E) == {w \in Worlds : /\ Exist(w.store) = E
                            /\ Linked(w.store) /\ OnePerValve(w.store)
                            /\ Attached(w.live) \subseteq E}

(* A Store whose records keep their identities and their histories. *)
LEMMA SameRecords ==
  ASSUME NEW old \in Stores, Linked(old), OnePerValve(old),
         NEW new \in Stores, Exist(new) = Exist(old),
         \A r \in Exist(old) : SameIdentity(new.rec[r], old.rec[r]),
         \A h \in Records : old.hist[h] \in HistorySet => new.hist[h] \in HistorySet
  PROVE  Linked(new) /\ OnePerValve(new)
<1>1. \A r \in Exist(old) : old.rec[r].history \in Records
  <2>1. \A r \in Exist(old) : old.rec[r] \in RecordSet
    BY Existing DEF Stores
  <2> QED BY <2>1 DEF RecordSet
<1>2. Linked(new)
  BY <1>1 DEF Linked, SameIdentity
<1>3. OnePerValve(new)
  BY DEF OnePerValve, SameIdentity
<1> QED BY <1>2, <1>3

(* The parts of a sound world. *)
LEMMA SoundParts ==
  ASSUME NEW E, NEW w \in Sound(E)
  PROVE  /\ w.store \in Stores /\ w.live \in Runtimes /\ w.ghost \in Ghosts
         /\ Exist(w.store) = E /\ Linked(w.store) /\ OnePerValve(w.store)
         /\ Attached(w.live) \subseteq E /\ E \subseteq Records
         /\ w.store.rec \in RecordMaps /\ w.store.hist \in HistoryMaps
         /\ \A r \in E : /\ w.store.rec[r] \in RecordSet
                         /\ w.store.rec[r].history \in Records
                         /\ w.store.hist[w.store.rec[r].history] \in HistorySet
<1>1. /\ w.store \in Stores /\ w.live \in Runtimes /\ w.ghost \in Ghosts
      /\ Exist(w.store) = E /\ Linked(w.store) /\ OnePerValve(w.store)
      /\ Attached(w.live) \subseteq E
  BY DEF Sound, Worlds
<1>2. w.store.rec \in RecordMaps /\ w.store.hist \in HistoryMaps
  BY <1>1 DEF Stores
<1>3. E \subseteq Records /\ \A r \in E : w.store.rec[r] \in RecordSet
  BY <1>1, <1>2, Existing
<1>4. \A r \in E : w.store.rec[r].history \in Records
  BY <1>3 DEF RecordSet
<1> QED BY <1>1, <1>2, <1>3, <1>4 DEF Linked

(* Another runtime. *)
LEMMA PutLive ==
  ASSUME NEW E, NEW w \in Sound(E), NEW l \in Runtimes, Attached(l) \subseteq E
  PROVE  [w EXCEPT !.live = l] \in Sound(E)
<1>1. [w EXCEPT !.live = l] \in Worlds
  BY DEF Sound, Worlds
<1>2. /\ [w EXCEPT !.live = l].store = w.store
      /\ [w EXCEPT !.live = l].live = l
  BY DEF Sound, Worlds
<1> QED BY <1>1, <1>2 DEF Sound

(* Another record of the same identity. *)
LEMMA PutRecord ==
  ASSUME NEW E, NEW w \in Sound(E), NEW r \in E,
         NEW rec \in RecordSet, SameIdentity(rec, w.store.rec[r])
  PROVE  [w EXCEPT !.store.rec[r] = rec] \in Sound(E)
<1> DEFINE new == [w.store EXCEPT !.rec[r] = rec]
           u == [w EXCEPT !.store = new]
<1>0. /\ w.store \in Stores /\ Exist(w.store) = E /\ E \subseteq Records
      /\ w.store.rec \in RecordMaps /\ Linked(w.store) /\ OnePerValve(w.store)
  BY SoundParts
<1>1. /\ new.rec = [w.store.rec EXCEPT ![r] = rec] /\ new.hist = w.store.hist
      /\ new.rec \in RecordMaps /\ new \in Stores
  BY <1>0 DEF Stores, RecordMaps
<1>2. Exist(new) = E
  <2>1. \A q \in Records : new.rec[q] # NoRecord <=> w.store.rec[q] # NoRecord
    BY <1>0, <1>1, Existing DEF RecordMaps, Exist
  <2> QED BY <1>0, <2>1 DEF Exist
<1>3. \A q \in E : SameIdentity(new.rec[q], w.store.rec[q])
  BY <1>0, <1>1 DEF SameIdentity, RecordMaps
<1>4. Linked(new) /\ OnePerValve(new)
  <2> HIDE DEF new
  <2> QED BY <1>0, <1>1, <1>2, <1>3, SameRecords
<1>5. u \in Worlds /\ u.store = new /\ u.live = w.live
  BY <1>1 DEF Sound, Worlds
<1>6. u \in Sound(E)
  <2> HIDE DEF new, u
  <2> QED BY <1>2, <1>4, <1>5 DEF Sound
<1> QED BY <1>6

(* Another history in the place of one. *)
LEMMA PutHistory ==
  ASSUME NEW E, NEW w \in Sound(E), NEW h \in Records, NEW x \in HistorySet
  PROVE  [w EXCEPT !.store.hist[h] = x] \in Sound(E)
<1> DEFINE new == [w.store EXCEPT !.hist[h] = x]
           u == [w EXCEPT !.store = new]
<1>0. /\ w.store \in Stores /\ Exist(w.store) = E /\ E \subseteq Records
      /\ w.store.hist \in HistoryMaps /\ Linked(w.store) /\ OnePerValve(w.store)
  BY SoundParts
<1>1. /\ new.hist = [w.store.hist EXCEPT ![h] = x] /\ new.rec = w.store.rec
      /\ new.hist \in HistoryMaps /\ new \in Stores
  BY <1>0 DEF Stores, HistoryMaps
<1>2. Exist(new) = E
  BY <1>0, <1>1 DEF Exist
<1>3. \A q \in E : SameIdentity(new.rec[q], w.store.rec[q])
  BY <1>1 DEF SameIdentity
<1>3a. \A g \in Records : w.store.hist[g] \in HistorySet => new.hist[g] \in HistorySet
  BY <1>0, <1>1 DEF HistoryMaps
<1>4. Linked(new) /\ OnePerValve(new)
  <2> HIDE DEF new
  <2> QED BY <1>0, <1>1, <1>2, <1>3, <1>3a, SameRecords
<1>5. u \in Worlds /\ u.store = new /\ u.live = w.live
  BY <1>1 DEF Sound, Worlds
<1>6. u \in Sound(E)
  <2> HIDE DEF new, u
  <2> QED BY <1>2, <1>4, <1>5 DEF Sound
<1> QED BY <1>6

(* Other charges. *)
LEMMA PutGhost ==
  ASSUME NEW E, NEW w \in Sound(E), NEW g \in Ghosts
  PROVE  [w EXCEPT !.ghost = g] \in Sound(E)
<1>1. [w EXCEPT !.ghost = g] \in Worlds
  BY DEF Sound, Worlds
<1>2. /\ [w EXCEPT !.ghost = g].store = w.store
      /\ [w EXCEPT !.ghost = g].live = w.live
  BY DEF Sound, Worlds
<1> QED BY <1>1, <1>2 DEF Sound

(* Fields of the runtime that attach nobody. *)
LEMMA LiveFields ==
  ASSUME NEW l \in Runtimes
  PROVE  /\ \A K \in SUBSET (Records \X KeyKinds) :
              [l EXCEPT !.keys = K] \in Runtimes /\ Attached([l EXCEPT !.keys = K]) = Attached(l)
         /\ \A X \in SUBSET Records :
              [l EXCEPT !.ext = X] \in Runtimes /\ Attached([l EXCEPT !.ext = X]) = Attached(l)
         /\ \A M \in [Records -> [home : Optional(Records), daily : Nat]] :
              [l EXCEPT !.mem = M] \in Runtimes /\ Attached([l EXCEPT !.mem = M]) = Attached(l)
BY DEF Runtimes, Attached, Bound

(* _add_blocker, _remove_blocker *)
LEMMA KeysSound ==
  ASSUME NEW E, NEW w \in Sound(E), NEW r \in E, NEW k \in KeyKinds
  PROVE  AddKey(w, r, k) \in Sound(E) /\ DropKey(w, r, k) \in Sound(E)
<1> DEFINE rec == w.store.rec[r]
<1>0. /\ w.live \in Runtimes /\ Attached(w.live) \subseteq E /\ E \subseteq Records
      /\ rec \in RecordSet
  BY SoundParts
<1>1. /\ rec.keys \in SUBSET KeyKinds /\ rec.owner \in {"none", "INTEGRATION", "EXTERNAL"}
      /\ w.live.keys \in SUBSET (Records \X KeyKinds)
  BY <1>0 DEF RecordSet, Runtimes
<1>2. \A keys : OwnerOf(keys) \in {"none", "INTEGRATION", "EXTERNAL"}
  BY DEF OwnerOf
<1> DEFINE Keyed(K, keys, owner) ==
             [w EXCEPT !.live.keys = K,
                       !.store.rec[r] = [rec EXCEPT !.keys = keys, !.owner = owner]]
<1>3. ASSUME NEW K \in SUBSET (Records \X KeyKinds), NEW keys \in SUBSET KeyKinds,
             NEW owner \in {"none", "INTEGRATION", "EXTERNAL"}
      PROVE  Keyed(K, keys, owner) \in Sound(E)
  <2> DEFINE l == [w.live EXCEPT !.keys = K]
             new == [rec EXCEPT !.keys = keys, !.owner = owner]
             u == [w EXCEPT !.live = l]
  <2>1. u \in Sound(E)
    <3>1. l \in Runtimes /\ Attached(l) \subseteq E
      BY <1>0, LiveFields
    <3> HIDE DEF l
    <3> QED BY <3>1, PutLive
  <2>2. new \in RecordSet /\ SameIdentity(new, rec)
    BY <1>0 DEF RecordSet, SameIdentity
  <2>3. u.store = w.store
    BY DEF Sound, Worlds
  <2> HIDE DEF new, u
  <2>4. [u EXCEPT !.store.rec[r] = new] \in Sound(E)
    BY <2>1, <2>2, <2>3, PutRecord
  <2>5. [u EXCEPT !.store.rec[r] = new] = [w EXCEPT !.live.keys = K, !.store.rec[r] = new]
    BY <2>3 DEF u
  <2> QED BY <2>4, <2>5 DEF new
<1>4. AddKey(w, r, k) \in Sound(E)
  <2> DEFINE owner == IF k \in rec.keys THEN rec.owner
                      ELSE IF k = NotProvenOff THEN rec.owner ELSE OwnerOf({k})
  <2>1. CASE <<r, k>> \in w.live.keys
    BY <2>1 DEF AddKey
  <2>2. CASE <<r, k>> \notin w.live.keys
    <3>1. AddKey(w, r, k) = Keyed(w.live.keys \cup {<<r, k>>}, rec.keys \cup {k}, owner)
      BY <2>2 DEF AddKey
    <3>2. /\ w.live.keys \cup {<<r, k>>} \in SUBSET (Records \X KeyKinds)
          /\ rec.keys \cup {k} \in SUBSET KeyKinds
          /\ owner \in {"none", "INTEGRATION", "EXTERNAL"}
      BY <1>0, <1>1, <1>2
    <3> HIDE DEF owner, Keyed
    <3> QED BY <1>3, <3>1, <3>2
  <2> QED BY <2>1, <2>2
<1>5. DropKey(w, r, k) \in Sound(E)
  <2> DEFINE owner == IF k \in rec.keys THEN OwnerOf(rec.keys \ {k}) ELSE rec.owner
  <2>1. CASE <<r, k>> \notin w.live.keys
    BY <2>1 DEF DropKey
  <2>2. CASE <<r, k>> \in w.live.keys
    <3>1. DropKey(w, r, k) = Keyed(w.live.keys \ {<<r, k>>}, rec.keys \ {k}, owner)
      BY <2>2 DEF DropKey
    <3>2. /\ w.live.keys \ {<<r, k>>} \in SUBSET (Records \X KeyKinds)
          /\ rec.keys \ {k} \in SUBSET KeyKinds
          /\ owner \in {"none", "INTEGRATION", "EXTERNAL"}
      BY <1>0, <1>1, <1>2
    <3> HIDE DEF owner, Keyed
    <3> QED BY <1>3, <3>1, <3>2
  <2> QED BY <2>1, <2>2
<1> QED BY <1>4, <1>5

(* _persist_runtime *)
LEMMA PersistSound ==
  ASSUME NEW E, NEW w \in Sound(E), NEW r \in E, NEW session \in Optional(Records),
         NEW fault \in {"none", "OFF_TIMEOUT", "RESTORED"}
  PROVE  Persist(w, r, session, fault) \in Sound(E)
<1> DEFINE rec == w.store.rec[r]
           h == rec.history
<1>0. /\ w.live \in Runtimes /\ rec \in RecordSet /\ h \in Records
      /\ w.store.hist[h] \in HistorySet /\ E \subseteq Records
  BY SoundParts
<1>1. PICK owner \in {"none", "INTEGRATION", "EXTERNAL"} :
        Persist(w, r, session, fault) =
          [w EXCEPT !.store.rec[r] = [rec EXCEPT !.fault = fault, !.owner = owner],
                    !.store.hist[h] = [@ EXCEPT !.session = session,
                                                !.spent = w.live.mem[r].daily]]
  BY DEF Persist, OwnerOf
<1> DEFINE new == [rec EXCEPT !.fault = fault, !.owner = owner]
           x == [w.store.hist[h] EXCEPT !.session = session, !.spent = w.live.mem[r].daily]
           u == [w EXCEPT !.store.rec[r] = new]
<1>2. new \in RecordSet /\ SameIdentity(new, rec)
  BY <1>0 DEF RecordSet, SameIdentity
<1>3. w.live.mem[r].daily \in Nat
  BY <1>0 DEF Runtimes
<1>4. x \in HistorySet
  BY <1>0, <1>3 DEF HistorySet
<1>5. u \in Sound(E)
  <2> HIDE DEF new
  <2> QED BY <1>2, PutRecord
<1>6. u.store.hist = w.store.hist
  BY DEF Sound, Worlds, Stores
<1>7. [u EXCEPT !.store.hist[h] = x] \in Sound(E)
  <2> HIDE DEF u, x
  <2> QED BY <1>0, <1>4, <1>5, PutHistory
<1>8. Persist(w, r, session, fault) = [u EXCEPT !.store.hist[h] = x]
  BY <1>1, <1>6
<1> QED BY <1>7, <1>8

(* One pulse is charged. *)
LEMMA ChargedSound ==
  ASSUME NEW E, NEW w \in Sound(E), NEW r \in E
  PROVE  [w EXCEPT !.live.mem[r].daily = @ + 1,
                   !.ghost.charged = @ \cup {<<r, w.store.rec[r].zone, Cardinality(@)>>}] \in Sound(E)
<1> DEFINE rec == w.store.rec[r]
           M == [w.live.mem EXCEPT ![r].daily = @ + 1]
           l == [w.live EXCEPT !.mem = M]
           C == w.ghost.charged \cup {<<r, rec.zone, Cardinality(w.ghost.charged)>>}
           g == [w.ghost EXCEPT !.charged = C]
           u == [w EXCEPT !.live = l]
           v == [u EXCEPT !.ghost = g]
<1>0. /\ w.live \in Runtimes /\ w.ghost \in Ghosts /\ rec \in RecordSet /\ E \subseteq Records
      /\ Attached(w.live) \subseteq E
  BY SoundParts
<1>1. u \in Sound(E)
  <2>0. w.live.mem \in [Records -> [home : Optional(Records), daily : Nat]]
    BY <1>0 DEF Runtimes
  <2>1. M \in [Records -> [home : Optional(Records), daily : Nat]]
    BY <1>0, <2>0
  <2>2. l \in Runtimes /\ Attached(l) \subseteq E
    <3> HIDE DEF M
    <3> QED BY <1>0, <2>1, LiveFields
  <2> HIDE DEF l
  <2> QED BY <2>2, PutLive
<1>2. g \in Ghosts
  <2>1. w.ghost.charged \in SUBSET (Records \X Zones \X Nat) /\ IsFiniteSet(w.ghost.charged)
    BY <1>0 DEF Ghosts
  <2>2. Cardinality(w.ghost.charged) \in Nat
    BY <2>1, FS_CardinalityType
  <2>3. rec.zone \in Zones
    BY <1>0 DEF RecordSet
  <2>4. C \in SUBSET (Records \X Zones \X Nat)
    BY <1>0, <2>1, <2>2, <2>3
  <2>5. IsFiniteSet(C)
    BY <2>1, FS_AddElement
  <2> HIDE DEF C
  <2> QED BY <1>0, <2>4, <2>5 DEF Ghosts
<1>3. v \in Sound(E)
  <2> HIDE DEF u, g
  <2> QED BY <1>1, <1>2, PutGhost
<1>4. v = [w EXCEPT !.live.mem[r].daily = @ + 1,
                    !.ghost.charged = @ \cup {<<r, rec.zone, Cardinality(@)>>}]
  <2>1. u.ghost = w.ghost
    BY DEF Sound, Worlds
  <2> QED BY <2>1
<1> QED BY <1>3, <1>4

(* _finalize_session *)
LEMMA CloseSessionSound ==
  ASSUME NEW E, NEW w \in Sound(E), NEW r \in E
  PROVE  CloseSession(w, r) \in Sound(E)
<1> DEFINE rec == w.store.rec[r]
           v == [w EXCEPT !.live.mem[r].daily = @ + 1,
                          !.ghost.charged = @ \cup {<<r, rec.zone, Cardinality(@)>>}]
<1>1. rec.fault \in {"none", "OFF_TIMEOUT", "RESTORED"} /\ None \in Optional(Records)
  BY SoundParts DEF RecordSet, Optional
<1>2. v \in Sound(E)
  BY ChargedSound
<1>3. CloseSession(w, r) = DropKey(Persist(v, r, None, rec.fault), r, OffUnconfirmed)
  BY DEF CloseSession
<1> HIDE DEF v
<1>4. Persist(v, r, None, rec.fault) \in Sound(E)
  BY <1>1, <1>2, PersistSound
<1> QED BY <1>3, <1>4, KeysSound DEF KeyKinds

-----------------------------------------------------------------------------
(* Controllers. *)

(* What a controller makes of its valve. *)
LEMMA NoticedSound ==
  ASSUME NEW E, NEW w \in Sound(E), NEW r \in E, NEW a, NEW b
  PROVE  Noticed(w, r, a, b) \in Sound(E)
<1> DEFINE open == Session(w.store, r) = r
           faulted == w.store.rec[r].fault # "none"
           proven == DropKey(w, r, NotProvenOff)
<1>0. NotProvenOff \in KeyKinds /\ OffUnconfirmed \in KeyKinds /\ ExternalKey \in KeyKinds
  BY DEF KeyKinds
<1>1. proven \in Sound(E)
  BY <1>0, KeysSound
<1>2. ASSUME NEW u \in Sound(E)
      PROVE  /\ [u EXCEPT !.live.ext = @ \ {r}] \in Sound(E)
             /\ [u EXCEPT !.live.ext = @ \cup {r}] \in Sound(E)
  <2>1. u.live \in Runtimes /\ Attached(u.live) \subseteq E /\ E \subseteq Records
    BY SoundParts
  <2>2. u.live.ext \in SUBSET Records
    BY <2>1 DEF Runtimes
  <2>3. u.live.ext \ {r} \in SUBSET Records /\ u.live.ext \cup {r} \in SUBSET Records
    BY <2>1, <2>2
  <2>4. /\ [u.live EXCEPT !.ext = u.live.ext \ {r}] \in Runtimes
        /\ Attached([u.live EXCEPT !.ext = u.live.ext \ {r}]) \subseteq E
        /\ [u.live EXCEPT !.ext = u.live.ext \cup {r}] \in Runtimes
        /\ Attached([u.live EXCEPT !.ext = u.live.ext \cup {r}]) \subseteq E
    BY <2>1, <2>3, LiveFields
  <2> QED BY <2>4, PutLive
<1>3. DropKey([proven EXCEPT !.live.ext = @ \ {r}], r, ExternalKey) \in Sound(E)
  <2> HIDE DEF proven
  <2>1. [proven EXCEPT !.live.ext = @ \ {r}] \in Sound(E)
    BY <1>1, <1>2
  <2> QED BY <2>1, <1>0, KeysSound
<1>4. AddKey([w EXCEPT !.live.ext = @ \cup {r}], r, ExternalKey) \in Sound(E)
  <2>1. [w EXCEPT !.live.ext = @ \cup {r}] \in Sound(E)
    BY <1>2
  <2> QED BY <2>1, <1>0, KeysSound
<1>5. CloseSession(proven, r) \in Sound(E)
  BY <1>1, CloseSessionSound
<1>6. Noticed(w, r, a, b) \in
        {w, proven, CloseSession(proven, r),
         DropKey([proven EXCEPT !.live.ext = @ \ {r}], r, ExternalKey),
         AddKey([w EXCEPT !.live.ext = @ \cup {r}], r, ExternalKey)}
  <2> DEFINE out == {w, proven, CloseSession(proven, r),
                     DropKey([proven EXCEPT !.live.ext = @ \ {r}], r, ExternalKey),
                     AddKey([w EXCEPT !.live.ext = @ \cup {r}], r, ExternalKey)}
  <2>1. CASE b = "off" /\ open
    BY <2>1 DEF Noticed
  <2>2. CASE b = "off" /\ ~open /\ r \in w.live.ext
    BY <2>2 DEF Noticed
  <2>3. CASE b = "off" /\ ~open /\ r \notin w.live.ext
    BY <2>3 DEF Noticed
  <2>4. CASE b = "on" /\ (~open \/ faulted) /\ r \notin w.live.ext
    BY <2>4 DEF Noticed
  <2>5. CASE b # "off" /\ ~(b = "on" /\ (~open \/ faulted) /\ r \notin w.live.ext)
    BY <2>5 DEF Noticed
  <2> QED BY <2>1, <2>2, <2>3, <2>4, <2>5
<1> QED BY <1>1, <1>3, <1>4, <1>5, <1>6

(* Every listening controller in turn. *)
LEMMA NoticedByStays ==
  ASSUME NEW W, NEW base \in W, NEW R, NEW a, NEW b,
         \A w \in W, r \in R \cap Records : Noticed(w, r, a, b) \in W
  PROVE  NoticedBy(base, R, a, b) \in W
<1> DEFINE N == MaxRecords
           Op(w, r) == IF r \in R THEN Noticed(w, r, a, b) ELSE w
           seq == [r \in Records |-> r]
           step == [x \in W \X (1 .. N) |-> Op(x[1], seq[x[2]])]
           Solves(it) == it = [s \in SUBSET (1 .. N) |->
                                 IF s = {} THEN base ELSE Op(it[s \ {Max(s)}], seq[Max(s)])]
           iter == CHOOSE it : Solves(it)
<1>0. N \in Nat /\ DOMAIN seq = 1 .. N /\ Records = 1 .. N
  BY Constants
<1>1. NoticedBy(base, R, a, b) = iter[1 .. N]
  BY <1>0 DEF NoticedBy, FoldLeft, MapThenFoldSet
<1>2. \A w \in W, n \in 1 .. N : Op(w, seq[n]) \in W
  BY <1>0
<1> HIDE DEF Op, seq
<1>3. step \in [W \X (1 .. N) -> W]
  BY <1>2
<1>4. \A x \in W, n \in 1 .. N : step[<<x, n>>] = Op(x, seq[n])
  OBVIOUS
<1> HIDE DEF step
<1>5. PICK it \in [SUBSET (1 .. N) -> W] : Folds(it, N, base, step)
  BY <1>0, <1>3, FoldExists
<1>6. \A s \in SUBSET (1 .. N) : s # {} => Max(s) \in 1 .. N /\ s \ {Max(s)} \in SUBSET (1 .. N)
  BY <1>0, MaxIsMember
<1>7. Solves(it)
  BY <1>4, <1>5, <1>6 DEF Folds
<1>8. Solves(iter)
  <2> HIDE DEF Solves
  <2> QED BY <1>7
<1>9. iter[1 .. N] \in W
  <2> HIDE DEF iter
  <2>1. iter[{}] = base
    BY <1>8
  <2>2. \A s \in SUBSET (1 .. N) : s # {} /\ iter[s \ {Max(s)}] \in W
                                     => iter[s] = step[<<iter[s \ {Max(s)}], Max(s)>>]
    BY <1>4, <1>6, <1>8
  <2> HIDE DEF N, Solves
  <2> QED BY <1>0, <1>3, <2>1, <2>2, FoldStays
<1> QED BY <1>1, <1>9

LEMMA NoticedByAll ==
  ASSUME NEW E, NEW base \in Sound(E), NEW R, R \subseteq E, NEW a, NEW b
  PROVE  NoticedBy(base, R, a, b) \in Sound(E)
BY NoticedSound, NoticedByStays

-----------------------------------------------------------------------------
(* Controllers come and go. *)

(* A record whose controller is retained. *)
LEMMA KeptSound ==
  ASSUME NEW E, NEW w \in Sound(E), NEW R \in SUBSET E
  PROVE  [w EXCEPT !.live.kept = @ \cup R] \in Sound(E)
<1> DEFINE l == [w.live EXCEPT !.kept = @ \cup R]
<1>0. w.live \in Runtimes /\ Attached(w.live) \subseteq E /\ E \subseteq Records
  BY SoundParts
<1>1. l \in Runtimes
  BY <1>0 DEF Runtimes
<1>2. l.bound = w.live.bound /\ l.kept = w.live.kept \cup R
  BY <1>0 DEF Runtimes
<1>3. Attached(l) \subseteq E
  BY <1>0, <1>2 DEF Attached, Bound
<1> QED BY <1>1, <1>3, PutLive

(* A controller reads the runtime of its record. *)
LEMMA ReadSound ==
  ASSUME NEW E, NEW w \in Sound(E), NEW r \in E
  PROVE  [w EXCEPT !.live.mem[r] = [home |-> w.store.rec[r].history,
                                    daily |-> w.store.hist[w.store.rec[r].history].spent],
                   !.live.ext = @ \ {r}] \in Sound(E)
<1> DEFINE rec == w.store.rec[r]
           memory == [home |-> rec.history, daily |-> w.store.hist[rec.history].spent]
           M == [w.live.mem EXCEPT ![r] = memory]
           read == [w EXCEPT !.live.mem[r] = memory, !.live.ext = @ \ {r}]
           l == [w.live EXCEPT !.mem = M]
           k == [l EXCEPT !.ext = w.live.ext \ {r}]
<1>0. /\ w.live \in Runtimes /\ Attached(w.live) \subseteq E /\ E \subseteq Records
      /\ rec.history \in Records /\ w.store.hist[rec.history] \in HistorySet
  BY SoundParts
<1>1. memory \in [home : Optional(Records), daily : Nat]
  BY <1>0 DEF HistorySet, Optional
<1>2. M \in [Records -> [home : Optional(Records), daily : Nat]]
  <2> HIDE DEF memory
  <2> QED BY <1>0, <1>1 DEF Runtimes
<1>3. l \in Runtimes /\ Attached(l) \subseteq E
  <2> HIDE DEF M
  <2> QED BY <1>0, <1>2, LiveFields
<1>4. k \in Runtimes /\ Attached(k) \subseteq E
  <2>1. w.live.ext \ {r} \in SUBSET Records
    BY <1>0 DEF Runtimes
  <2> HIDE DEF l
  <2> QED BY <1>3, <2>1, LiveFields
<1>5. [w EXCEPT !.live = k] \in Sound(E)
  <2> HIDE DEF k
  <2> QED BY <1>4, PutLive
<1>6. read = [w EXCEPT !.live = k]
  BY <1>0 DEF Sound, Worlds, Runtimes
<1> QED BY <1>5, <1>6

(* Attach *)
LEMMA AttachSound ==
  ASSUME NEW E, NEW w \in Sound(E), NEW r \in E
  PROVE  Attach(w, r) \in Sound(E)
<1> DEFINE rec == w.store.rec[r]
           memory == [home |-> rec.history, daily |-> w.store.hist[rec.history].spent]
           read == [w EXCEPT !.live.mem[r] = memory, !.live.ext = @ \ {r}]
<1>1. read \in Sound(E)
  BY ReadSound
<1>2. Attach(w, r) \in {read, CloseSession(read, r)}
  BY DEF Attach
<1> HIDE DEF read
<1> QED BY <1>1, <1>2, CloseSessionSound

(* Detached *)
LEMMA DetachedSound ==
  ASSUME NEW E, NEW w \in Sound(E), NEW gone
  PROVE  Detached(w, gone) \in Sound(E)
<1> DEFINE M == [r \in Records |-> IF r \in gone THEN NoMemory ELSE w.live.mem[r]]
           l == [w.live EXCEPT !.kept = @ \ gone, !.ext = @ \ gone, !.mem = M]
<1>0. w.live \in Runtimes /\ Attached(w.live) \subseteq E /\ E \subseteq Records
  BY SoundParts
<1>1. M \in [Records -> [home : Optional(Records), daily : Nat]]
  BY <1>0 DEF Runtimes, NoMemory, Optional
<1> HIDE DEF M
<1>2. l \in Runtimes
  BY <1>0, <1>1 DEF Runtimes
<1>3. l.bound = w.live.bound /\ l.kept = w.live.kept \ gone
  BY <1>0 DEF Runtimes
<1>4. Attached(l) \subseteq E
  BY <1>0, <1>3 DEF Attached, Bound
<1>5. Detached(w, gone) = [w EXCEPT !.live = l]
  BY <1>0 DEF Detached, M, Sound, Worlds, Runtimes
<1> HIDE DEF l
<1> QED BY <1>2, <1>4, <1>5, PutLive

(* The phase and the status. *)
LEMMA PhaseSound ==
  ASSUME NEW E, NEW w \in Sound(E), NEW phase \in {"idle", "plan", "sync", "finish"},
         NEW status \in {"dirty", "clean", "failed"}
  PROVE  /\ [w EXCEPT !.live.phase = phase] \in Sound(E)
         /\ [w EXCEPT !.live.phase = phase, !.live.status = status] \in Sound(E)
<1> DEFINE l == [w.live EXCEPT !.phase = phase]
           k == [w.live EXCEPT !.phase = phase, !.status = status]
<1>0. w.live \in Runtimes /\ Attached(w.live) \subseteq E
  BY SoundParts
<1>1. l \in Runtimes /\ k \in Runtimes
  BY <1>0 DEF Runtimes
<1>2. /\ l.bound = w.live.bound /\ l.kept = w.live.kept
      /\ k.bound = w.live.bound /\ k.kept = w.live.kept
  BY <1>0 DEF Runtimes
<1>3. Attached(l) \subseteq E /\ Attached(k) \subseteq E
  BY <1>0, <1>2 DEF Attached, Bound
<1>4. [w EXCEPT !.live.phase = phase, !.live.status = status] = [w EXCEPT !.live = k]
  BY <1>0 DEF Sound, Worlds, Runtimes
<1>5. [w EXCEPT !.live = k] \in Sound(E)
  <2> HIDE DEF k
  <2> QED BY <1>1, <1>3, PutLive
<1>6. [w EXCEPT !.live = l] \in Sound(E)
  <2> HIDE DEF l
  <2> QED BY <1>1, <1>3, PutLive
<1> QED BY <1>4, <1>5, <1>6

LEMMA FailedSound ==
  ASSUME NEW E, NEW w \in Sound(E)
  PROVE  Failed(w) \in Sound(E) /\ Superseded(w) \in Sound(E)
BY PhaseSound DEF Failed, Superseded

(* Every displaced session gets a controller. *)
LEMMA RetainStays ==
  ASSUME NEW W, NEW base \in W, NEW R,
         \A w \in W, r \in R \cap Records : [Attach(w, r) EXCEPT !.live.kept = @ \cup {r}] \in W
  PROVE  Retain(base, R) \in W
<1> DEFINE N == MaxRecords
           Op(w, r) == IF r \in R THEN [Attach(w, r) EXCEPT !.live.kept = @ \cup {r}] ELSE w
           seq == [r \in Records |-> r]
           step == [x \in W \X (1 .. N) |-> Op(x[1], seq[x[2]])]
           Solves(it) == it = [s \in SUBSET (1 .. N) |->
                                 IF s = {} THEN base ELSE Op(it[s \ {Max(s)}], seq[Max(s)])]
           iter == CHOOSE it : Solves(it)
<1>0. N \in Nat /\ DOMAIN seq = 1 .. N /\ Records = 1 .. N
  BY Constants
<1>1. Retain(base, R) = iter[1 .. N]
  BY <1>0 DEF Retain, FoldLeft, MapThenFoldSet
<1>2. \A w \in W, n \in 1 .. N : Op(w, seq[n]) \in W
  BY <1>0
<1> HIDE DEF Op, seq
<1>3. step \in [W \X (1 .. N) -> W]
  BY <1>2
<1>4. \A x \in W, n \in 1 .. N : step[<<x, n>>] = Op(x, seq[n])
  OBVIOUS
<1> HIDE DEF step
<1>5. PICK it \in [SUBSET (1 .. N) -> W] : Folds(it, N, base, step)
  BY <1>0, <1>3, FoldExists
<1>6. \A s \in SUBSET (1 .. N) : s # {} => Max(s) \in 1 .. N /\ s \ {Max(s)} \in SUBSET (1 .. N)
  BY <1>0, MaxIsMember
<1>7. Solves(it)
  BY <1>4, <1>5, <1>6 DEF Folds
<1>8. Solves(iter)
  <2> HIDE DEF Solves
  <2> QED BY <1>7
<1>9. iter[1 .. N] \in W
  <2> HIDE DEF iter
  <2>1. iter[{}] = base
    BY <1>8
  <2>2. \A s \in SUBSET (1 .. N) : s # {} /\ iter[s \ {Max(s)}] \in W
                                     => iter[s] = step[<<iter[s \ {Max(s)}], Max(s)>>]
    BY <1>4, <1>6, <1>8
  <2> HIDE DEF N, Solves
  <2> QED BY <1>0, <1>3, <2>1, <2>2, FoldStays
<1> QED BY <1>1, <1>9

LEMMA RetainSound ==
  ASSUME NEW E, NEW base \in Sound(E), NEW R, R \subseteq E
  PROVE  Retain(base, R) \in Sound(E)
<1>1. ASSUME NEW w \in Sound(E), NEW r \in R
      PROVE  [Attach(w, r) EXCEPT !.live.kept = @ \cup {r}] \in Sound(E)
  <2>1. Attach(w, r) \in Sound(E)
    BY AttachSound
  <2> QED BY <2>1, KeptSound
<1> QED BY <1>1, RetainStays

(* _synchronize_controllers: who stays. *)
LEMMA RebindSound ==
  ASSUME NEW E, NEW w \in Sound(E)
  PROVE  Rebind(w) \in Sound(E)
<1>0. w.live \in Runtimes /\ Attached(w.live) \subseteq E /\ E \subseteq Records
  BY SoundParts
<1>1. PICK gone \in SUBSET {z \in Zones : w.live.bound[z] # None}, pending \in SUBSET E :
        /\ pending \in SUBSET {w.live.bound[z] : z \in gone}
        /\ Rebind(w) = Detached([w EXCEPT !.live.bound = [z \in Zones |-> IF z \in gone THEN None
                                                                       ELSE @[z]],
                                          !.live.kept = @ \cup pending],
                                {w.live.bound[z] : z \in gone} \ pending)
  <2> DEFINE Keeps(z) == LET rec == w.store.rec[w.live.bound[z]] IN
                 /\ z \in DOMAIN w.live.snap /\ rec.life = "ACTIVE" /\ rec.active = z
                 /\ rec.applied = <<z, w.live.snap[z].name, w.live.snap[z].valve>>
             gone == {z \in Zones : w.live.bound[z] # None /\ ~Keeps(z)}
             loose == {w.live.bound[z] : z \in gone}
             pending == {r \in loose : w.store.rec[r].life = "DELETE_PENDING"}
  <2>1. gone \in SUBSET {z \in Zones : w.live.bound[z] # None} /\ pending \in SUBSET loose
    OBVIOUS
  <2>2. Rebind(w) = Detached([w EXCEPT !.live.bound = [z \in Zones |-> IF z \in gone THEN None
                                                                       ELSE @[z]],
                                       !.live.kept = @ \cup pending],
                             loose \ pending)
    BY DEF Rebind
  <2>3. pending \in SUBSET E
    <3>1. loose \subseteq Attached(w.live)
      BY DEF Attached, Bound
    <3> QED BY <1>0, <3>1
  <2> HIDE DEF gone, pending
  <2> QED BY <2>1, <2>2, <2>3
<1> DEFINE B == [z \in Zones |-> IF z \in gone THEN None ELSE w.live.bound[z]]
           l == [w.live EXCEPT !.bound = B, !.kept = @ \cup pending]
           u == [w EXCEPT !.live = l]
<1>2. pending \subseteq Attached(w.live)
  <2>1. pending \subseteq {w.live.bound[z] : z \in gone}
    BY <1>1
  <2> QED BY <2>1 DEF Attached, Bound
<1>3. B \in [Zones -> Optional(Records)]
  BY <1>0 DEF Runtimes, Optional
<1>4. \A z \in Zones : B[z] \in {None, w.live.bound[z]}
  OBVIOUS
<1> HIDE DEF B
<1>5. l \in Runtimes /\ l.bound = B /\ l.kept = w.live.kept \cup pending
  BY <1>0, <1>2, <1>3 DEF Runtimes
<1>6. Attached(l) \subseteq E
  BY <1>0, <1>2, <1>4, <1>5 DEF Attached, Bound
<1>7. [w EXCEPT !.live.bound = [z \in Zones |-> IF z \in gone THEN None ELSE @[z]],
                !.live.kept = @ \cup pending] = u
  BY <1>0 DEF B, Sound, Worlds, Runtimes
<1>8. u \in Sound(E)
  <2> HIDE DEF l
  <2> QED BY <1>5, <1>6, PutLive
<1> HIDE DEF u
<1> QED BY <1>1, <1>7, <1>8, DetachedSound

(* A controller bound to a zone. *)
LEMMA BoundSound ==
  ASSUME NEW E, NEW w \in Sound(E), NEW r \in E, NEW z \in Zones
  PROVE  [w EXCEPT !.live.bound[z] = r, !.live.kept = @ \ {r}] \in Sound(E)
<1> DEFINE B == [w.live.bound EXCEPT ![z] = r]
           l == [w.live EXCEPT !.bound = B, !.kept = @ \ {r}]
<1>0. w.live \in Runtimes /\ Attached(w.live) \subseteq E /\ E \subseteq Records
  BY SoundParts
<1>1. w.live.bound \in [Zones -> Optional(Records)]
  BY <1>0 DEF Runtimes
<1>2. B \in [Zones -> Optional(Records)]
  BY <1>0, <1>1 DEF Optional
<1>3. \A y \in Zones : B[y] \in {r, w.live.bound[y]}
  BY <1>1
<1> HIDE DEF B
<1>4. l \in Runtimes /\ l.bound = B /\ l.kept = w.live.kept \ {r}
  BY <1>0, <1>2 DEF Runtimes
<1>5. Attached(l) \subseteq E
  BY <1>0, <1>3, <1>4 DEF Attached, Bound
<1>6. [w EXCEPT !.live.bound[z] = r, !.live.kept = @ \ {r}] = [w EXCEPT !.live = l]
  BY <1>0 DEF B, Sound, Worlds, Runtimes
<1> HIDE DEF l
<1> QED BY <1>4, <1>5, <1>6, PutLive

(* A valve that is open without a session belongs to somebody else. *)
LEMMA ExternalSound ==
  ASSUME NEW E, NEW w \in Sound(E), NEW r \in E
  PROVE  AddKey([w EXCEPT !.live.ext = @ \cup {r}], r, ExternalKey) \in Sound(E)
<1> DEFINE l == [w.live EXCEPT !.ext = w.live.ext \cup {r}]
<1>0. w.live \in Runtimes /\ Attached(w.live) \subseteq E /\ E \subseteq Records
  BY SoundParts
<1>1. w.live.ext \cup {r} \in SUBSET Records
  BY <1>0 DEF Runtimes
<1>2. l \in Runtimes /\ Attached(l) \subseteq E
  BY <1>0, <1>1, LiveFields
<1>3. [w EXCEPT !.live = l] \in Sound(E)
  <2> HIDE DEF l
  <2> QED BY <1>2, PutLive
<1> QED BY <1>3, KeysSound DEF KeyKinds

(* _synchronize_controllers: one zone. *)
LEMMA BindZoneSound ==
  ASSUME NEW E, NEW w \in Sound(E), NEW z \in Zones
  PROVE  BindZone(w, z) \in Sound(E)
<1> DEFINE matches == {q \in Exist(w.store) : w.store.rec[q].active = z}
           r == CHOOSE q \in matches : TRUE
           bound == [Attach(w, r) EXCEPT !.live.bound[z] = r, !.live.kept = @ \ {r}]
<1>1. BindZone(w, z) \in {w, Failed(w)} \/
      /\ Cardinality(matches) = 1
      /\ BindZone(w, z) \in {Failed(Detached(w, {r})), bound,
                             AddKey([bound EXCEPT !.live.ext = @ \cup {r}], r, ExternalKey)}
  <2> DEFINE open == Session(w.store, r) = r /\ w.store.rec[r].fault = "none"
             on == AssessName(w.live.snap[z].entity) = "on"
  <2>1. BindZone(w, z) =
          IF w.live.phase = "idle" \/ z \notin DOMAIN w.live.snap THEN w
          ELSE IF Cardinality(matches) # 1 THEN Failed(w)
          ELSE IF w.live.bound[z] # None THEN w
          ELSE IF Foreign(w, r) THEN Failed(Detached(w, {r}))
          ELSE IF on /\ ~open
          THEN AddKey([bound EXCEPT !.live.ext = @ \cup {r}], r, ExternalKey) ELSE bound
    BY DEF BindZone
  <2> HIDE DEF matches, bound, open, on, r
  <2> QED BY <2>1
<1>2. CASE BindZone(w, z) \in {w, Failed(w)}
  BY <1>2, FailedSound
<1>3. ASSUME Cardinality(matches) = 1 PROVE r \in E
  <2>1. matches # {}
    BY <1>3, FS_EmptySet
  <2>2. Exist(w.store) = E
    BY SoundParts
  <2> QED BY <2>1, <2>2
<1> HIDE DEF r, matches
<1>4. ASSUME r \in E PROVE bound \in Sound(E)
  <2>1. Attach(w, r) \in Sound(E)
    BY <1>4, AttachSound
  <2> QED BY <1>4, <2>1, BoundSound
<1> HIDE DEF bound
<1> QED BY <1>1, <1>2, <1>3, <1>4, ExternalSound, FailedSound, DetachedSound

(* Every zone in turn. *)
LEMMA BindingStays ==
  ASSUME NEW W, NEW base \in W, \A w \in W, z \in Zones : BindZone(w, z) \in W
  PROVE  FoldLeft(BindZone, base, ZoneOrder) \in W
<1> DEFINE N == Len(ZoneOrder)
           Op(w, r) == BindZone(w, r)
           seq == ZoneOrder
           step == [x \in W \X (1 .. N) |-> Op(x[1], seq[x[2]])]
           Solves(it) == it = [s \in SUBSET (1 .. N) |->
                                 IF s = {} THEN base ELSE Op(it[s \ {Max(s)}], seq[Max(s)])]
           iter == CHOOSE it : Solves(it)
<1>0. N \in Nat /\ DOMAIN seq = 1 .. N /\ \A n \in 1 .. N : seq[n] \in Zones
  BY Constants
<1>1. FoldLeft(BindZone, base, ZoneOrder) = iter[1 .. N]
  BY <1>0 DEF FoldLeft, MapThenFoldSet
<1>2. \A w \in W, n \in 1 .. N : Op(w, seq[n]) \in W
  BY <1>0
<1> HIDE DEF Op, seq
<1>3. step \in [W \X (1 .. N) -> W]
  BY <1>2
<1>4. \A x \in W, n \in 1 .. N : step[<<x, n>>] = Op(x, seq[n])
  OBVIOUS
<1> HIDE DEF step
<1>5. PICK it \in [SUBSET (1 .. N) -> W] : Folds(it, N, base, step)
  BY <1>0, <1>3, FoldExists
<1>6. \A s \in SUBSET (1 .. N) : s # {} => Max(s) \in 1 .. N /\ s \ {Max(s)} \in SUBSET (1 .. N)
  BY <1>0, MaxIsMember
<1>7. Solves(it)
  BY <1>4, <1>5, <1>6 DEF Folds
<1>8. Solves(iter)
  <2> HIDE DEF Solves
  <2> QED BY <1>7
<1>9. iter[1 .. N] \in W
  <2> HIDE DEF iter
  <2>1. iter[{}] = base
    BY <1>8
  <2>2. \A s \in SUBSET (1 .. N) : s # {} /\ iter[s \ {Max(s)}] \in W
                                     => iter[s] = step[<<iter[s \ {Max(s)}], Max(s)>>]
    BY <1>4, <1>6, <1>8
  <2> HIDE DEF N, Solves
  <2> QED BY <1>0, <1>3, <2>1, <2>2, FoldStays
<1> QED BY <1>1, <1>9

LEMMA ZonesBound ==
  ASSUME NEW E, NEW base \in Sound(E)
  PROVE  FoldLeft(BindZone, base, ZoneOrder) \in Sound(E)
BY BindZoneSound, BindingStays

(* _synchronize_controllers: one retained record. *)
LEMMA WatchSound ==
  ASSUME NEW E, NEW w \in Sound(E), NEW r
  PROVE  Watch(w, r) \in Sound(E)
<1>0. Exist(w.store) = E
  BY SoundParts
<1>1. CASE r \notin E
  BY <1>0, <1>1 DEF Watch
<1>2. CASE r \in E
  <2>1. Attach(w, r) \in Sound(E)
    BY <1>2, AttachSound
  <2>2. [Attach(w, r) EXCEPT !.live.kept = @ \cup {r}] \in Sound(E)
    BY <1>2, <2>1, KeptSound
  <2>3. Watch(w, r) \in {w, Failed(w), [Attach(w, r) EXCEPT !.live.kept = @ \cup {r}]}
    BY DEF Watch
  <2> QED BY <2>2, <2>3, FailedSound
<1> QED BY <1>1, <1>2

(* Every record in turn. *)
LEMMA WatchingStays ==
  ASSUME NEW W, NEW base \in W, \A w \in W, z \in Records : Watch(w, z) \in W
  PROVE  FoldLeft(Watch, base, [r \in Records |-> r]) \in W
<1> DEFINE N == MaxRecords
           Op(w, r) == Watch(w, r)
           seq == [r \in Records |-> r]
           step == [x \in W \X (1 .. N) |-> Op(x[1], seq[x[2]])]
           Solves(it) == it = [s \in SUBSET (1 .. N) |->
                                 IF s = {} THEN base ELSE Op(it[s \ {Max(s)}], seq[Max(s)])]
           iter == CHOOSE it : Solves(it)
<1>0. N \in Nat /\ DOMAIN seq = 1 .. N /\ Records = 1 .. N
  BY Constants
<1>1. FoldLeft(Watch, base, [r \in Records |-> r]) = iter[1 .. N]
  BY <1>0 DEF FoldLeft, MapThenFoldSet
<1>2. \A w \in W, n \in 1 .. N : Op(w, seq[n]) \in W
  BY <1>0
<1> HIDE DEF Op, seq
<1>3. step \in [W \X (1 .. N) -> W]
  BY <1>2
<1>4. \A x \in W, n \in 1 .. N : step[<<x, n>>] = Op(x, seq[n])
  OBVIOUS
<1> HIDE DEF step
<1>5. PICK it \in [SUBSET (1 .. N) -> W] : Folds(it, N, base, step)
  BY <1>0, <1>3, FoldExists
<1>6. \A s \in SUBSET (1 .. N) : s # {} => Max(s) \in 1 .. N /\ s \ {Max(s)} \in SUBSET (1 .. N)
  BY <1>0, MaxIsMember
<1>7. Solves(it)
  BY <1>4, <1>5, <1>6 DEF Folds
<1>8. Solves(iter)
  <2> HIDE DEF Solves
  <2> QED BY <1>7
<1>9. iter[1 .. N] \in W
  <2> HIDE DEF iter
  <2>1. iter[{}] = base
    BY <1>8
  <2>2. \A s \in SUBSET (1 .. N) : s # {} /\ iter[s \ {Max(s)}] \in W
                                     => iter[s] = step[<<iter[s \ {Max(s)}], Max(s)>>]
    BY <1>4, <1>6, <1>8
  <2> HIDE DEF N, Solves
  <2> QED BY <1>0, <1>3, <2>1, <2>2, FoldStays
<1> QED BY <1>1, <1>9

LEMMA RecordsWatched ==
  ASSUME NEW E, NEW base \in Sound(E)
  PROVE  FoldLeft(Watch, base, [r \in Records |-> r]) \in Sound(E)
BY WatchSound, WatchingStays

(* The last look at one zone's actuator. *)
LEMMA RereadSound ==
  ASSUME NEW E, NEW w \in Sound(E), NEW z \in Zones
  PROVE  Reread(w, z) \in Sound(E)
<1> DEFINE r == w.live.bound[z]
<1>0. Attached(w.live) \subseteq E
  BY SoundParts
<1>1. CASE r = None
  BY <1>1 DEF Reread
<1>2. CASE r # None
  <2>1. r \in E
    BY <1>0, <1>2 DEF Attached, Bound
  <2>2. NotProvenOff \in KeyKinds /\ OffUnconfirmed \in KeyKinds /\ ExternalKey \in KeyKinds
    BY DEF KeyKinds
  <2>3. DropKey(w, r, NotProvenOff) \in Sound(E)
    BY <2>1, <2>2, KeysSound
  <2>4. Reread(w, z) \in {w, DropKey(DropKey(w, r, NotProvenOff), r, ExternalKey),
                          AddKey(w, r, NotProvenOff), AddKey(w, r, ExternalKey)}
    BY <1>2 DEF Reread
  <2> HIDE DEF r
  <2> QED BY <2>1, <2>2, <2>3, <2>4, KeysSound
<1> QED BY <1>1, <1>2

(* Every zone in turn. *)
LEMMA RereadingStays ==
  ASSUME NEW W, NEW base \in W, \A w \in W, z \in Zones : Reread(w, z) \in W
  PROVE  FoldLeft(Reread, base, ZoneOrder) \in W
<1> DEFINE N == Len(ZoneOrder)
           Op(w, r) == Reread(w, r)
           seq == ZoneOrder
           step == [x \in W \X (1 .. N) |-> Op(x[1], seq[x[2]])]
           Solves(it) == it = [s \in SUBSET (1 .. N) |->
                                 IF s = {} THEN base ELSE Op(it[s \ {Max(s)}], seq[Max(s)])]
           iter == CHOOSE it : Solves(it)
<1>0. N \in Nat /\ DOMAIN seq = 1 .. N /\ \A n \in 1 .. N : seq[n] \in Zones
  BY Constants
<1>1. FoldLeft(Reread, base, ZoneOrder) = iter[1 .. N]
  BY <1>0 DEF FoldLeft, MapThenFoldSet
<1>2. \A w \in W, n \in 1 .. N : Op(w, seq[n]) \in W
  BY <1>0
<1> HIDE DEF Op, seq
<1>3. step \in [W \X (1 .. N) -> W]
  BY <1>2
<1>4. \A x \in W, n \in 1 .. N : step[<<x, n>>] = Op(x, seq[n])
  OBVIOUS
<1> HIDE DEF step
<1>5. PICK it \in [SUBSET (1 .. N) -> W] : Folds(it, N, base, step)
  BY <1>0, <1>3, FoldExists
<1>6. \A s \in SUBSET (1 .. N) : s # {} => Max(s) \in 1 .. N /\ s \ {Max(s)} \in SUBSET (1 .. N)
  BY <1>0, MaxIsMember
<1>7. Solves(it)
  BY <1>4, <1>5, <1>6 DEF Folds
<1>8. Solves(iter)
  <2> HIDE DEF Solves
  <2> QED BY <1>7
<1>9. iter[1 .. N] \in W
  <2> HIDE DEF iter
  <2>1. iter[{}] = base
    BY <1>8
  <2>2. \A s \in SUBSET (1 .. N) : s # {} /\ iter[s \ {Max(s)}] \in W
                                     => iter[s] = step[<<iter[s \ {Max(s)}], Max(s)>>]
    BY <1>4, <1>6, <1>8
  <2> HIDE DEF N, Solves
  <2> QED BY <1>0, <1>3, <2>1, <2>2, FoldStays
<1> QED BY <1>1, <1>9

LEMMA ZonesReread ==
  ASSUME NEW E, NEW base \in Sound(E)
  PROVE  FoldLeft(Reread, base, ZoneOrder) \in Sound(E)
BY RereadSound, RereadingStays

(* _refresh_tombstones *)
LEMMA RefreshTombstonesSound ==
  ASSUME Rows, NEW E, NEW w \in Sound(E)
  PROVE  RefreshTombstones(w) \in Sound(E)
<1> DEFINE recs == [r \in Records |->
                      IF r \in Exist(w.store) /\ w.store.rec[r].life # "ACTIVE"
                      THEN ReconcileRetained(w.store.rec[r], Session(w.store, r) # None)
                      ELSE w.store.rec[r]]
           data == [w.store EXCEPT !.rec = recs]
           u == [w EXCEPT !.store = data]
<1>0. /\ w.store \in Stores /\ Exist(w.store) = E /\ E \subseteq Records
      /\ w.store.rec \in RecordMaps /\ Linked(w.store) /\ OnePerValve(w.store)
      /\ \A r \in E : w.store.rec[r] \in RecordSet
  BY SoundParts
<1>1. \A r \in E : recs[r] \in RecordSet /\ SameIdentity(recs[r], w.store.rec[r])
  BY <1>0, ReconcileRetainedSound DEF SameIdentity
<1>2. \A r \in Records \ E : recs[r] = w.store.rec[r] /\ recs[r] = NoRecord
  BY <1>0 DEF Exist
<1>3. recs \in RecordMaps
  <2>1. \A r \in Records : recs[r] \in RecordSet \cup {NoRecord}
    <3> HIDE DEF recs
    <3> QED BY <1>0, <1>1, <1>2
  <2>2. recs = [r \in Records |-> recs[r]]
    OBVIOUS
  <2> HIDE DEF recs
  <2> QED BY <2>1, <2>2 DEF RecordMaps
<1> HIDE DEF recs
<1>4. data.rec = recs /\ data.hist = w.store.hist /\ data \in Stores
  BY <1>0, <1>3 DEF Stores
<1>5. Exist(data) = E
  <2>1. NoRecord \notin RecordSet
    BY <1>0, Existing
  <2> QED BY <1>0, <1>1, <1>2, <1>4, <2>1 DEF Exist
<1>6. Linked(data) /\ OnePerValve(data)
  <2> HIDE DEF data
  <2> QED BY <1>0, <1>1, <1>4, <1>5, SameRecords
<1>7. u \in Worlds /\ u.store = data /\ u.live = w.live
  BY <1>4 DEF Sound, Worlds
<1>8. u \in Sound(E)
  <2> HIDE DEF data, u
  <2> QED BY <1>5, <1>6, <1>7 DEF Sound
<1>9. \E done : RefreshTombstones(w) = Detached(u, done)
  BY DEF RefreshTombstones, recs
<1> HIDE DEF u
<1> QED BY <1>8, <1>9, DetachedSound

-----------------------------------------------------------------------------
(* The plan. *)

Plans == [conflict : BOOLEAN, full : BOOLEAN, rec : RecordMaps, hist : HistoryMaps]

(* One record per valve, of the records there are. *)
Distinct(recs) ==
    \A r, q \in {x \in Records : recs[x] # NoRecord} :
      recs[r].valve # None /\ recs[r].valve = recs[q].valve => r = q

(* Plans that keep the records in E and have one record per valve. *)
SoundPlans(E) == {p \in Plans : E \subseteq Exist(p) /\ OnePerValve(p)}

LEMMA PlanParts ==
  ASSUME NEW E, NEW p \in SoundPlans(E)
  PROVE  /\ p.rec \in RecordMaps /\ p.hist \in HistoryMaps
         /\ p.conflict \in BOOLEAN /\ p.full \in BOOLEAN
         /\ Exist(p) \subseteq Records /\ E \subseteq Exist(p) /\ OnePerValve(p)
         /\ \A r \in Exist(p) : p.rec[r] \in RecordSet /\ p.rec[r].history \in Records
         /\ NoRecord \notin RecordSet
<1>1. /\ p.rec \in RecordMaps /\ p.hist \in HistoryMaps /\ E \subseteq Exist(p) /\ OnePerValve(p)
      /\ p.conflict \in BOOLEAN /\ p.full \in BOOLEAN
  BY DEF SoundPlans, Plans
<1>2. /\ Exist(p) \subseteq Records /\ \A r \in Exist(p) : p.rec[r] \in RecordSet
      /\ NoRecord \notin RecordSet
  BY <1>1, Existing
<1>3. \A r \in Exist(p) : p.rec[r].history \in Records
  BY <1>2 DEF RecordSet
<1> QED BY <1>1, <1>2, <1>3

(* What a plan becomes with other records and histories. *)
LEMMA PutPlan ==
  ASSUME NEW E, NEW p \in SoundPlans(E), NEW recs \in RecordMaps, NEW hist \in HistoryMaps,
         NEW conflict \in BOOLEAN, NEW q,
         q = [p EXCEPT !.conflict = conflict, !.rec = recs, !.hist = hist],
         E \subseteq {r \in Records : recs[r] # NoRecord},
         Distinct(recs)
  PROVE  q \in SoundPlans(E)
<1>1. p \in Plans
  BY DEF SoundPlans
<1>2. q \in Plans /\ q.rec = recs
  BY <1>1 DEF Plans
<1>3. E \subseteq Exist(q) /\ OnePerValve(q)
  BY <1>2 DEF Exist, OnePerValve, Distinct
<1> QED BY <1>2, <1>3 DEF SoundPlans

(* The plan with its own records. *)
LEMMA PlanRecords ==
  ASSUME NEW E, NEW p \in SoundPlans(E)
  PROVE  /\ E \subseteq {r \in Records : p.rec[r] # NoRecord}
         /\ Distinct(p.rec)
BY PlanParts DEF Exist, OnePerValve, Distinct

(* A conflict. *)
LEMMA ConflictSound ==
  ASSUME NEW E, NEW p \in SoundPlans(E), NEW marked \in SUBSET Exist(p),
         NEW kind \in {"none", "conflict"}
  PROVE  Conflict(p, marked, kind) \in SoundPlans(E)
<1> DEFINE recs == [r \in Records |-> IF r \notin marked THEN p.rec[r]
                         ELSE [p.rec[r] EXCEPT !.incident = kind, !.keys = @ \cup {NotProvenOff}]]
<1>0. /\ p.rec \in RecordMaps /\ p.hist \in HistoryMaps /\ Exist(p) \subseteq Records
      /\ \A r \in Exist(p) : p.rec[r] \in RecordSet
      /\ NoRecord \notin RecordSet
  BY PlanParts
<1>1. \A r \in marked : recs[r] \in RecordSet /\ recs[r].valve = p.rec[r].valve
  <2> SUFFICES ASSUME NEW r \in marked
               PROVE  recs[r] \in RecordSet /\ recs[r].valve = p.rec[r].valve
    OBVIOUS
  <2> DEFINE K == p.rec[r].keys \cup {NotProvenOff}
             new == [p.rec[r] EXCEPT !.incident = kind, !.keys = K]
  <2>1. p.rec[r] \in RecordSet /\ r \in Records
    BY <1>0
  <2>2. K \in SUBSET KeyKinds
    BY <2>1 DEF RecordSet, KeyKinds
  <2>3. recs[r] = new
    BY <2>1
  <2> HIDE DEF K, recs
  <2>4. new \in RecordSet /\ new.valve = p.rec[r].valve
    BY <2>1, <2>2 DEF RecordSet
  <2> QED BY <2>3, <2>4
<1>2. \A r \in Records \ marked : recs[r] = p.rec[r]
  OBVIOUS
<1>3. recs \in RecordMaps
  <2>1. \A r \in Records : recs[r] \in RecordSet \cup {NoRecord}
    <3> HIDE DEF recs
    <3> QED BY <1>0, <1>1, <1>2 DEF RecordMaps
  <2>2. recs = [r \in Records |-> recs[r]]
    OBVIOUS
  <2> HIDE DEF recs
  <2> QED BY <2>1, <2>2 DEF RecordMaps
<1>4. Conflict(p, marked, kind) = [p EXCEPT !.conflict = TRUE, !.rec = recs, !.hist = p.hist]
  BY DEF Conflict, SoundPlans, Plans
<1> HIDE DEF recs
<1>5. \A r \in Records : recs[r] # NoRecord => p.rec[r] # NoRecord /\ recs[r].valve = p.rec[r].valve
  BY <1>1, <1>2 DEF Exist
<1>6. \A r \in Records : p.rec[r] # NoRecord => recs[r] # NoRecord
  BY <1>0, <1>1, <1>2
<1>7. E \subseteq {r \in Records : recs[r] # NoRecord}
  BY <1>6, PlanRecords
<1>8. Distinct(recs)
  BY <1>5, PlanRecords DEF Distinct
<1> QED BY <1>0, <1>3, <1>4, <1>7, <1>8, PutPlan

(* _merge_history *)
LEMMA MergeHistoryTyped ==
  ASSUME NEW E, NEW p \in SoundPlans(E), NEW r \in Exist(p), NEW h \in Records,
         p.rec[r].history # h, p.hist[h] \in HistorySet, p.hist[p.rec[r].history] \in HistorySet
  PROVE  LET hist == MergeHistory(p, r, h) IN hist \in HistoryMaps /\ hist[h] \in HistorySet
<1> DEFINE old == p.rec[r].history
           x == [p.hist[h] EXCEPT !.spent = @ + p.hist[old].spent, !.lost = @ \cup p.hist[old].lost]
<1>0. p.hist \in HistoryMaps /\ old \in Records
  BY PlanParts
<1>1. x \in HistorySet
  <2>1. p.hist[h].spent + p.hist[old].spent \in Nat
    BY DEF HistorySet
  <2>2. p.hist[h].lost \cup p.hist[old].lost \in SUBSET Records
    BY DEF HistorySet
  <2> QED BY <2>1, <2>2 DEF HistorySet
<1>2. PICK y \in HistorySet \cup {NoHistory} :
        MergeHistory(p, r, h) = [p.hist EXCEPT ![h].spent = @ + p.hist[old].spent,
                                               ![h].lost = @ \cup p.hist[old].lost,
                                               ![old] = y]
  <2>1. CASE \E q \in Exist(p) \ {r} : p.rec[q].history = old
    BY <1>0, <2>1 DEF MergeHistory, HistoryMaps
  <2>2. CASE ~ \E q \in Exist(p) \ {r} : p.rec[q].history = old
    BY <2>2 DEF MergeHistory
  <2> QED BY <2>1, <2>2
<1>3. MergeHistory(p, r, h) = [[p.hist EXCEPT ![h] = x] EXCEPT ![old] = y]
  BY <1>0, <1>2 DEF HistoryMaps
<1> HIDE DEF x
<1> QED BY <1>0, <1>1, <1>3 DEF HistoryMaps

(* A record becomes zone z's. *)
LEMMA ActivateSound ==
  ASSUME NEW E, NEW p \in SoundPlans(E), NEW hist \in HistoryMaps, NEW z \in Zones,
         NEW s \in Identities, NEW r \in Exist(p), NEW h \in Records, hist[h] \in HistorySet,
         \A q \in Exist(p) \ {r} : s.valve = None \/ p.rec[q].valve # s.valve
  PROVE  Activate(p, hist, z, s, r, h) \in SoundPlans(E)
<1> DEFINE old == p.rec[r].history
           F == IF old # h THEN p.rec[r].former \cup {old} ELSE p.rec[r].former
           rec == [p.rec[r] EXCEPT
                  !.zone = z, !.active = z, !.life = "ACTIVE",
                  !.applied = <<z, s.name, s.valve>>, !.valve = s.valve, !.name = s.entity,
                  !.status = "CONFIRMED", !.incident = "none",
                  !.former = F, !.history = h]
           new == ReconcileActive(rec, hist[h].session # None, AssessName(s.entity), FALSE)
           recs == [p.rec EXCEPT ![r] = new]
           hists == [hist EXCEPT ![h].active = z]
<1>0. /\ p.rec \in RecordMaps /\ p.hist \in HistoryMaps /\ Exist(p) \subseteq Records
      /\ p.rec[r] \in RecordSet /\ old \in Records /\ p.conflict \in BOOLEAN
      /\ NoRecord \notin RecordSet
  BY PlanParts
<1>1. /\ s.name \in Names /\ s.valve \in Optional(Valves) /\ s.entity \in Optional(Names)
      /\ <<z, s.name, s.valve>> \in Optional(Zones \X Names \X Optional(Valves))
      /\ z \in Optional(Zones)
  BY DEF Identities, Optional
<1>2. F \in SUBSET Records
  BY <1>0 DEF RecordSet
<1>3. rec \in RecordSet /\ rec.valve = s.valve
  <2> HIDE DEF F
  <2> QED BY <1>0, <1>1, <1>2 DEF RecordSet
<1>4. new \in RecordSet /\ new.valve = s.valve
  <2> DEFINE open == hist[h].session # None
             a == AssessName(s.entity)
  <2> HIDE DEF rec, open, a
  <2>1. /\ ReconcileActive(rec, open, a, FALSE) \in RecordSet
        /\ SameIdentity(ReconcileActive(rec, open, a, FALSE), rec)
    BY <1>3, ReconcileActiveSound
  <2> QED BY <1>3, <2>1 DEF SameIdentity, open, a
<1>5. Activate(p, hist, z, s, r, h) = [p EXCEPT !.hist = hists, !.rec[r] = new]
  BY DEF Activate
<1>6. hists \in HistoryMaps
  <2>1. [hist[h] EXCEPT !.active = z] \in HistorySet
    BY <1>1 DEF HistorySet
  <2> QED BY <2>1 DEF HistoryMaps
<1> HIDE DEF new, hists
<1>7. /\ recs \in RecordMaps /\ recs[r] = new
      /\ \A q \in Records \ {r} : recs[q] = p.rec[q]
  BY <1>0, <1>4 DEF RecordMaps
<1>8. Activate(p, hist, z, s, r, h) = [p EXCEPT !.conflict = p.conflict, !.rec = recs, !.hist = hists]
  BY <1>5 DEF SoundPlans, Plans
<1> HIDE DEF recs
<1>9. E \subseteq {q \in Records : recs[q] # NoRecord}
  BY <1>0, <1>4, <1>7, PlanRecords
<1>10. Distinct(recs)
  <2>1. \A q \in Records \ {r} : recs[q] # NoRecord => s.valve = None \/ recs[q].valve # s.valve
    BY <1>7 DEF Exist
  <2>2. \A q, o \in {x \in Records : recs[x] # NoRecord} \ {r} :
          recs[q].valve # None /\ recs[q].valve = recs[o].valve => q = o
    BY <1>7, PlanRecords DEF Distinct
  <2> QED BY <1>4, <1>7, <2>1, <2>2 DEF Distinct
<1> QED BY <1>0, <1>6, <1>7, <1>8, <1>9, <1>10, PutPlan

(* Zone z takes record r. *)
LEMMA TakeRecordSound ==
  ASSUME NEW E, NEW p \in SoundPlans(E), NEW data \in Stores, NEW z \in Zones, NEW s \in Identities,
         NEW r \in Exist(p), NEW prior \in Exist(data) \cup {None},
         \A q \in Exist(p) \ {r} : s.valve = None \/ p.rec[q].valve # s.valve
  PROVE  TakeRecord(p, data, z, s, r, prior) \in SoundPlans(E)
<1> DEFINE old == p.rec[r].history
           h == IF prior # None THEN data.rec[prior].history ELSE old
           merges == old # h
           hist == IF merges THEN MergeHistory(p, r, h) ELSE p.hist
           continues == IF prior = None THEN SameActuator(p.rec[r], s)
                        ELSE r = prior /\ SameActuator(data.rec[prior], s)
<1>0. p.hist \in HistoryMaps /\ p.rec \in RecordMaps /\ old \in Records /\ p.conflict \in BOOLEAN
  BY PlanParts
<1>1. h \in Records
  <2>1. \A q \in Exist(data) : data.rec[q] \in RecordSet
    BY Existing DEF Stores
  <2> QED BY <1>0, <2>1 DEF RecordSet
<1>2. TakeRecord(p, data, z, s, r, prior) =
        IF NoHistory \in {p.hist[h], p.hist[old]} THEN p
        ELSE IF merges /\ p.hist[old].session # None THEN Conflict(p, {}, "none")
        ELSE IF hist[h].session # None /\ ~continues
        THEN [Conflict(p, {}, "none") EXCEPT !.hist = hist]
        ELSE Activate(p, hist, z, s, r, h)
  BY DEF TakeRecord
<1> HIDE DEF h, continues
<1>3. CASE NoHistory \in {p.hist[h], p.hist[old]}
  BY <1>2, <1>3
<1>4. CASE NoHistory \notin {p.hist[h], p.hist[old]}
  <2>1. p.hist[h] \in HistorySet /\ p.hist[old] \in HistorySet
    BY <1>0, <1>1, <1>4 DEF HistoryMaps
  <2>2. hist \in HistoryMaps /\ hist[h] \in HistorySet
    BY <1>0, <1>1, <2>1, MergeHistoryTyped
  <2> HIDE DEF hist
  <2>3. Conflict(p, {}, "none") \in SoundPlans(E)
    BY ConflictSound
  <2>4. [Conflict(p, {}, "none") EXCEPT !.hist = hist] \in SoundPlans(E)
    <3> DEFINE c == Conflict(p, {}, "none")
    <3> HIDE DEF c
    <3>1. c \in SoundPlans(E)
      BY <2>3 DEF c
    <3>2. c.rec \in RecordMaps /\ c.conflict \in BOOLEAN
      BY <3>1, PlanParts
    <3>3. [c EXCEPT !.hist = hist] = [c EXCEPT !.conflict = c.conflict, !.rec = c.rec, !.hist = hist]
      BY <3>1 DEF SoundPlans, Plans
    <3>4. E \subseteq {q \in Records : c.rec[q] # NoRecord} /\ Distinct(c.rec)
      BY <3>1, PlanRecords
    <3>5. [c EXCEPT !.hist = hist] \in SoundPlans(E)
      BY <2>2, <3>1, <3>2, <3>3, <3>4, PutPlan
    <3> QED BY <3>5 DEF c
  <2>5. Activate(p, hist, z, s, r, h) \in SoundPlans(E)
    BY <1>1, <2>2, ActivateSound
  <2> QED BY <1>2, <1>4, <2>3, <2>4, <2>5
<1> QED BY <1>3, <1>4

(* The record id handed out is an unused one. *)
LEMMA FreshIsUnused ==
  ASSUME NEW p, Unused(p) # {}
  PROVE  Fresh(p) \in Unused(p)
<1> DEFINE U == Unused(p)
<1>1. U \in SUBSET Nat
  BY Constants DEF Unused
<1>2. U # {}
  OBVIOUS
<1> HIDE DEF U
<1>3. \E r \in U : \A q \in U : r <= q
  BY <1>1, <1>2, LeastNatural
<1>4. Fresh(p) = CHOOSE r \in U : \A q \in U : r <= q
  BY DEF Fresh, U
<1>5. Fresh(p) \in U
  BY <1>3, <1>4
<1> QED BY <1>5 DEF U

(* A clean record for a valve that has none. *)
LEMMA MintedSound ==
  ASSUME NEW E, NEW p \in SoundPlans(E), NEW z \in Zones, NEW s \in Identities,
         Exact(p, s) = {}, Unused(p) # {}
  PROVE  LET r == Fresh(p)
             minted == [p EXCEPT !.rec[r] = NewRecord(z, s, r), !.hist[r] = NewHistory(z)]
         IN  /\ minted \in SoundPlans(E) /\ r \in Exist(minted)
             /\ \A q \in Exist(minted) \ {r} : s.valve = None \/ minted.rec[q].valve # s.valve
<1> DEFINE r == Fresh(p)
           new == NewRecord(z, s, r)
           x == NewHistory(z)
           minted == [p EXCEPT !.rec[r] = new, !.hist[r] = x]
           recs == [p.rec EXCEPT ![r] = new]
           hist == [p.hist EXCEPT ![r] = x]
<1>0. /\ p.rec \in RecordMaps /\ p.hist \in HistoryMaps /\ p.conflict \in BOOLEAN
      /\ NoRecord \notin RecordSet
  BY PlanParts
<1>1. r \in Records
  BY FreshIsUnused DEF Unused
<1>2. new \in RecordSet /\ new.valve = s.valve
  <2>1. /\ s.name \in Names /\ s.valve \in Optional(Valves) /\ s.entity \in Optional(Names)
        /\ <<z, s.name, s.valve>> \in Optional(Zones \X Names \X Optional(Valves))
        /\ z \in Optional(Zones) /\ None \in Optional(Valves)
    BY DEF Identities, Optional
  <2>2. {} \in SUBSET KeyKinds /\ {} \in SUBSET Records
    OBVIOUS
  <2> HIDE DEF r
  <2> QED BY <1>1, <2>1, <2>2 DEF NewRecord, RecordSet
<1>3. x \in HistorySet
  BY DEF NewHistory, HistorySet, Optional
<1> HIDE DEF r, new, x
<1>4. /\ recs \in RecordMaps /\ recs[r] = new /\ hist \in HistoryMaps
      /\ \A q \in Records \ {r} : recs[q] = p.rec[q]
  BY <1>0, <1>1, <1>2, <1>3 DEF RecordMaps, HistoryMaps
<1>5. minted = [p EXCEPT !.conflict = p.conflict, !.rec = recs, !.hist = hist] /\ minted.rec = recs
  BY DEF SoundPlans, Plans
<1>6. \A q \in Records \ {r} : recs[q] # NoRecord => s.valve = None \/ recs[q].valve # s.valve
  BY <1>4 DEF Exact, Exist
<1> HIDE DEF recs, hist, minted
<1>7. E \subseteq {q \in Records : recs[q] # NoRecord}
  BY <1>0, <1>2, <1>4, PlanRecords
<1>8. Distinct(recs)
  <2>1. \A q, o \in {y \in Records : recs[y] # NoRecord} \ {r} :
          recs[q].valve # None /\ recs[q].valve = recs[o].valve => q = o
    BY <1>4, PlanRecords DEF Distinct
  <2> QED BY <1>2, <1>4, <1>6, <2>1 DEF Distinct
<1>9. minted \in SoundPlans(E)
  BY <1>0, <1>4, <1>5, <1>7, <1>8, PutPlan
<1>10. r \in Exist(minted)
  BY <1>0, <1>1, <1>2, <1>4, <1>5 DEF Exist
<1>11. \A q \in Exist(minted) \ {r} : s.valve = None \/ minted.rec[q].valve # s.valve
  BY <1>5, <1>6 DEF Exist
<1> QED BY <1>9, <1>10, <1>11 DEF minted, new, x, r

(* _plan_reconciled_store, one zone. *)
LEMMA PlanZoneSound ==
  ASSUME NEW E, NEW p \in SoundPlans(E), NEW data \in Stores, NEW z \in Zones,
         NEW snap, snap[z] \in Identities
  PROVE  PlanZone(p, data, snap, z) \in SoundPlans(E)
<1> DEFINE s == snap[z]
           priors == {r \in Exist(data) : data.rec[r].active = z}
           prior == IF priors = {} THEN None ELSE CHOOSE r \in priors : TRUE
           exact == Exact(p, s)
           textual == {r \in Exist(p) : p.rec[r].name = s.entity
                                          /\ p.rec[r].valve \notin {None, s.valve}}
           claimed == {r \in Exist(p) : p.rec[r].active = z \/ p.rec[r].zone = z}
           chosen == Select(p, z, s)
           r0 == Fresh(p)
           c == CHOOSE r \in chosen : TRUE
           minted == [p EXCEPT !.rec[r0] = NewRecord(z, s, r0), !.hist[r0] = NewHistory(z)]
<1>1. PlanZone(p, data, snap, z) =
        IF s.ambiguous THEN Conflict(p, exact \cup claimed, "conflict")
        ELSE IF Cardinality(exact) > 1 \/ textual # {}
        THEN Conflict(p, exact \cup textual, "conflict")
        ELSE IF chosen # {} THEN TakeRecord(p, data, z, s, c, prior)
        ELSE IF Named(s.entity) = {} THEN Conflict(p, {}, "none")
        ELSE IF Unused(p) = {} THEN [p EXCEPT !.full = TRUE]
        ELSE TakeRecord(minted, data, z, s, r0, prior)
  BY DEF PlanZone
<1>2. prior \in Exist(data) \cup {None}
  OBVIOUS
<1>3. exact \cup claimed \in SUBSET Exist(p) /\ exact \cup textual \in SUBSET Exist(p)
  BY DEF Exact
<1>4. /\ Conflict(p, exact \cup claimed, "conflict") \in SoundPlans(E)
      /\ Conflict(p, exact \cup textual, "conflict") \in SoundPlans(E)
      /\ Conflict(p, {}, "none") \in SoundPlans(E)
  <2> HIDE DEF exact, claimed, textual
  <2> QED BY <1>3, ConflictSound
<1>5. ASSUME chosen # {} PROVE TakeRecord(p, data, z, s, c, prior) \in SoundPlans(E)
  <2>1. c \in chosen
    BY <1>5
  <2>2. CASE exact # {}
    <3>1. c \in Exist(p) /\ s.valve # None /\ p.rec[c].valve = s.valve
      BY <2>1, <2>2 DEF Select, Exact
    <3>2. \A q \in Exist(p) \ {c} : p.rec[q].valve # s.valve
      BY <3>1, PlanParts DEF OnePerValve
    <3> HIDE DEF c, prior
    <3> QED BY <1>2, <3>1, <3>2, TakeRecordSound
  <2>3. CASE exact = {}
    <3>1. c \in Exist(p)
      BY <2>1, <2>3 DEF Select
    <3>2. \A q \in Exist(p) \ {c} : s.valve = None \/ p.rec[q].valve # s.valve
      BY <2>3 DEF Exact
    <3> HIDE DEF c, prior
    <3> QED BY <1>2, <3>1, <3>2, TakeRecordSound
  <2> QED BY <2>2, <2>3
<1>6. [p EXCEPT !.full = TRUE] \in SoundPlans(E)
  <2>1. /\ [p EXCEPT !.full = TRUE] \in Plans /\ [p EXCEPT !.full = TRUE].rec = p.rec
        /\ E \subseteq Exist(p) /\ OnePerValve(p)
    BY DEF SoundPlans, Plans
  <2> QED BY <2>1 DEF SoundPlans, Exist, OnePerValve
<1>7. ASSUME chosen = {}, Unused(p) # {}
      PROVE  TakeRecord(minted, data, z, s, r0, prior) \in SoundPlans(E)
  <2>1. Exact(p, s) = {}
    BY <1>7 DEF Select
  <2>2. /\ minted \in SoundPlans(E) /\ r0 \in Exist(minted)
        /\ \A q \in Exist(minted) \ {r0} : s.valve = None \/ minted.rec[q].valve # s.valve
    BY <1>7, <2>1, MintedSound
  <2> HIDE DEF minted, r0, prior
  <2> QED BY <1>2, <2>2, TakeRecordSound
<1> HIDE DEF s, prior, exact, textual, claimed, chosen, r0, c, minted
<1> QED BY <1>1, <1>4, <1>5, <1>6, <1>7

(* First the records whose zone is gone or has another valve. *)
LEMMA TombstonedSound ==
  ASSUME Rows, NEW data \in Stores, Linked(data), OnePerValve(data), NEW snap
  PROVE  Tombstoned(data, snap) \in SoundPlans(Exist(data))
<1> DEFINE recs == [r \in Records |-> IF r \in Exist(data) THEN Tombstone(data, snap, r)
                                      ELSE NoRecord]
           left_ == {data.rec[r].history : r \in {q \in Exist(data) :
                     data.rec[q].active # None /\ data.rec[q].active \notin DOMAIN snap}}
           hist == [h \in Records |-> IF h \in left_ THEN [data.hist[h] EXCEPT !.active = None]
                                      ELSE data.hist[h]]
           p == [conflict |-> Duplicates(snap), full |-> FALSE, rec |-> recs, hist |-> hist]
<1>0. /\ data.rec \in RecordMaps /\ data.hist \in HistoryMaps /\ Exist(data) \subseteq Records
      /\ \A r \in Exist(data) : data.rec[r] \in RecordSet
      /\ NoRecord \notin RecordSet
  BY Existing DEF Stores
<1>1. \A r \in Exist(data) : recs[r] \in RecordSet /\ recs[r].valve = data.rec[r].valve
  <2> SUFFICES ASSUME NEW r \in Exist(data)
               PROVE  recs[r] \in RecordSet /\ recs[r].valve = data.rec[r].valve
    OBVIOUS
  <2> DEFINE rec == data.rec[r]
             freed == [rec EXCEPT !.active = None]
             open == Session(data, r) # None
  <2>1. rec \in RecordSet
    BY <1>0
  <2>2. freed \in RecordSet /\ freed.valve = rec.valve
    BY <2>1 DEF RecordSet, Optional
  <2>3. recs[r] = rec \/ recs[r] = ReconcileRetained(freed, open)
    BY <1>0 DEF Tombstone
  <2> HIDE DEF freed, open, recs
  <2>4. ReconcileRetained(freed, open) \in RecordSet /\ SameIdentity(ReconcileRetained(freed, open), freed)
    BY <2>2, ReconcileRetainedSound
  <2> QED BY <2>1, <2>2, <2>3, <2>4 DEF SameIdentity
<1>2. \A r \in Records \ Exist(data) : recs[r] = NoRecord
  OBVIOUS
<1>3. recs \in RecordMaps
  <2>1. \A r \in Records : recs[r] \in RecordSet \cup {NoRecord}
    <3> HIDE DEF recs
    <3> QED BY <1>1, <1>2
  <2>2. recs = [r \in Records |-> recs[r]]
    OBVIOUS
  <2> HIDE DEF recs
  <2> QED BY <2>1, <2>2 DEF RecordMaps
<1> HIDE DEF recs
<1>4. hist \in HistoryMaps
  <2>1. \A h \in left_ : data.hist[h] \in HistorySet
    BY DEF Linked
  <2> HIDE DEF left_
  <2>2. \A h \in Records : hist[h] \in HistorySet \cup {NoHistory}
    <3> SUFFICES ASSUME NEW h \in Records PROVE hist[h] \in HistorySet \cup {NoHistory}
      OBVIOUS
    <3>1. CASE h \in left_
      BY <2>1, <3>1 DEF HistorySet, Optional
    <3>2. CASE h \notin left_
      BY <1>0, <3>2 DEF HistoryMaps
    <3> QED BY <3>1, <3>2
  <2>3. hist = [h \in Records |-> hist[h]]
    OBVIOUS
  <2> HIDE DEF hist
  <2> QED BY <2>2, <2>3 DEF HistoryMaps
<1>5. Tombstoned(data, snap) = p
  BY DEF Tombstoned, recs
<1> HIDE DEF hist
<1>6. Duplicates(snap) \in BOOLEAN
  BY DEF Duplicates
<1>7. p \in Plans /\ p.rec = recs
  BY <1>3, <1>4, <1>6 DEF Plans
<1> HIDE DEF p
<1>8. Exist(p) = Exist(data)
  BY <1>0, <1>1, <1>2, <1>7 DEF Exist
<1>9. OnePerValve(p)
  BY <1>1, <1>7, <1>8 DEF OnePerValve
<1> QED BY <1>5, <1>7, <1>8, <1>9 DEF SoundPlans

(* The zones are planned one after the other. *)
PlanFrom(base, data, snap) ==
    FoldLeft(LAMBDA p, z : IF z \in DOMAIN snap THEN PlanZone(p, data, snap, z) ELSE p,
             base, ZoneOrder)

(* Every zone in turn. *)
LEMMA PlanningStays ==
  ASSUME NEW W, NEW base \in W, NEW data, NEW snap,
         \A p \in W, z \in DOMAIN snap \cap Zones : PlanZone(p, data, snap, z) \in W
  PROVE  PlanFrom(base, data, snap) \in W
<1> DEFINE N == Len(ZoneOrder)
           Op(w, r) == IF r \in DOMAIN snap THEN PlanZone(w, data, snap, r) ELSE w
           seq == ZoneOrder
           step == [x \in W \X (1 .. N) |-> Op(x[1], seq[x[2]])]
           Solves(it) == it = [s \in SUBSET (1 .. N) |->
                                 IF s = {} THEN base ELSE Op(it[s \ {Max(s)}], seq[Max(s)])]
           iter == CHOOSE it : Solves(it)
<1>0. N \in Nat /\ DOMAIN seq = 1 .. N /\ \A n \in 1 .. N : seq[n] \in Zones
  BY Constants
<1>1. PlanFrom(base, data, snap) = iter[1 .. N]
  BY <1>0 DEF PlanFrom, FoldLeft, MapThenFoldSet
<1>2. \A w \in W, n \in 1 .. N : Op(w, seq[n]) \in W
  BY <1>0
<1> HIDE DEF Op, seq
<1>3. step \in [W \X (1 .. N) -> W]
  BY <1>2
<1>4. \A x \in W, n \in 1 .. N : step[<<x, n>>] = Op(x, seq[n])
  OBVIOUS
<1> HIDE DEF step
<1>5. PICK it \in [SUBSET (1 .. N) -> W] : Folds(it, N, base, step)
  BY <1>0, <1>3, FoldExists
<1>6. \A s \in SUBSET (1 .. N) : s # {} => Max(s) \in 1 .. N /\ s \ {Max(s)} \in SUBSET (1 .. N)
  BY <1>0, MaxIsMember
<1>7. Solves(it)
  BY <1>4, <1>5, <1>6 DEF Folds
<1>8. Solves(iter)
  <2> HIDE DEF Solves
  <2> QED BY <1>7
<1>9. iter[1 .. N] \in W
  <2> HIDE DEF iter
  <2>1. iter[{}] = base
    BY <1>8
  <2>2. \A s \in SUBSET (1 .. N) : s # {} /\ iter[s \ {Max(s)}] \in W
                                     => iter[s] = step[<<iter[s \ {Max(s)}], Max(s)>>]
    BY <1>4, <1>6, <1>8
  <2> HIDE DEF N, Solves
  <2> QED BY <1>0, <1>3, <2>1, <2>2, FoldStays
<1> QED BY <1>1, <1>9

LEMMA ZonesPlanned ==
  ASSUME NEW E, NEW base \in SoundPlans(E), NEW data \in Stores, NEW snap \in Snapshots
  PROVE  PlanFrom(base, data, snap) \in SoundPlans(E)
<1>1. \A z \in DOMAIN snap : z \in Zones /\ snap[z] \in Identities
  BY DEF Snapshots
<1>2. \A p \in SoundPlans(E), z \in DOMAIN snap \cap Zones :
        PlanZone(p, data, snap, z) \in SoundPlans(E)
  BY <1>1, PlanZoneSound
<1> QED BY <1>2, PlanningStays

(* _plan_reconciled_store *)
LEMMA PlanSound ==
  ASSUME Rows, NEW data \in Stores, Linked(data), OnePerValve(data), NEW snap \in Snapshots
  PROVE  PlanReconciledStore(data, snap) \in SoundPlans(Exist(data))
<1>1. Tombstoned(data, snap) \in SoundPlans(Exist(data))
  BY TombstonedSound
<1>2. PlanReconciledStore(data, snap) = PlanFrom(Tombstoned(data, snap), data, snap)
  BY DEF PlanReconciledStore, PlanFrom
<1> QED BY <1>1, <1>2, ZonesPlanned

-----------------------------------------------------------------------------
(* The snapshot. *)

(* The identity of a configured zone. *)
LEMMA ResolveTyped ==
  ASSUME Rows, NEW data \in Stores, NEW z, config[z] \in Names
  PROVE  Resolve(data, z) \in Identities
<1> DEFINE n == config[z]
           held == {r \in Exist(data) : /\ data.rec[r].active = z
                                        /\ data.rec[r].applied[2] = n
                                        /\ Assess(data.rec[r].valve) # "absent"}
           v == data.rec[CHOOSE r \in held : TRUE].valve
           u == CHOOSE x \in Named(n) : TRUE
<1>1. Resolve(data, z) =
        IF held # {}
        THEN [name |-> n, valve |-> v, entity |-> registry[v], ambiguous |-> Named(n) \ {v} # {}]
        ELSE IF Named(n) # {}
        THEN [name |-> n, valve |-> u, entity |-> n, ambiguous |-> FALSE]
        ELSE [name |-> n, valve |-> None, entity |-> n, ambiguous |-> FALSE]
  BY DEF Resolve
<1>2. ASSUME held # {} PROVE v \in Valves /\ registry[v] \in Names
  <2>1. PICK r \in held : v = data.rec[r].valve
    BY <1>2
  <2>2. data.rec[r] \in RecordSet /\ Assess(v) # "absent"
    BY <2>1, Existing DEF Stores
  <2>3. v \in Optional(Valves)
    BY <2>1, <2>2 DEF RecordSet
  <2> QED BY <2>2, <2>3, ShownHasRow
<1>3. ASSUME Named(n) # {} PROVE u \in Valves
  BY <1>3 DEF Named
<1> HIDE DEF held, v, u
<1>4. (Named(n) \ {v} # {}) \in BOOLEAN
  OBVIOUS
<1> QED BY <1>1, <1>2, <1>3, <1>4 DEF Identities, Optional

LEMMA SnapshotTyped ==
  ASSUME Rows, NEW data \in Stores
  PROVE  BuildSnapshot(data) \in Snapshots
<1>1. \A z \in Configured(config) : Resolve(data, z) \in Identities
  BY ResolveTyped DEF Configured
<1>2. Configured(config) \in SUBSET Zones
  BY DEF Configured
<1>3. BuildSnapshot(data) \in [Configured(config) -> Identities]
  BY <1>1 DEF BuildSnapshot
<1> QED BY <1>2, <1>3 DEF Snapshots

-----------------------------------------------------------------------------
(* The specification. *)

(* The inductive invariant. *)
Inv ==
    /\ config \in [Zones -> Names \cup {"unborn", "deleted"}] /\ Rows
    /\ water \in [Valves -> {"closed", "ours", "theirs"}] /\ seen \in [Valves -> BOOLEAN]
    /\ Now \in Sound(Exist(store))

(* What the state says of the world it holds. *)
LEMMA NowSound ==
  ASSUME Now \in Sound(Exist(store))
  PROVE  /\ store \in Stores /\ live \in Runtimes /\ ghost \in Ghosts
         /\ Linked(store) /\ OnePerValve(store) /\ Attached(live) \subseteq Exist(store)
<1>1. Now.store = store /\ Now.live = live /\ Now.ghost = ghost
  BY DEF Now
<1> QED BY <1>1, SoundParts

(* A sound world that is committed is the next state's. *)
LEMMA Committed ==
  ASSUME NEW E, NEW w \in Sound(E), Commit(w)
  PROVE  Now' \in Sound(Exist(store)')
<1>1. w = [store |-> w.store, live |-> w.live, ghost |-> w.ghost]
  BY DEF Sound, Worlds
<1>2. Now' = w
  BY <1>1 DEF Commit, Now
<1>3. Exist(store)' = Exist(w.store)
  BY DEF Commit, Exist
<1>4. Exist(w.store) = E
  BY SoundParts
<1> QED BY <1>2, <1>3, <1>4

(* A change of the runtime alone. *)
LEMMA LiveChanged ==
  ASSUME Now \in Sound(Exist(store)), NEW l \in Runtimes, Attached(l) \subseteq Exist(store),
         live' = l, UNCHANGED <<store, ghost>>
  PROVE  Now' \in Sound(Exist(store)')
<1> DEFINE w == [Now EXCEPT !.live = l]
<1>1. w \in Sound(Exist(store))
  BY PutLive
<1>2. Commit(w)
  BY DEF Commit, Now
<1> HIDE DEF w
<1> QED BY <1>1, <1>2, Committed

LEMMA ChangedTyped ==
  ASSUME Now \in Sound(Exist(store))
  PROVE  Changed \in Runtimes /\ Attached(Changed) \subseteq Exist(store)
<1>0. live \in Runtimes /\ Attached(live) \subseteq Exist(store)
  BY NowSound
<1>1. Changed \in Runtimes
  BY <1>0 DEF Changed, Runtimes
<1>2. Changed.bound = live.bound /\ Changed.kept = live.kept
  BY <1>0 DEF Changed, Runtimes
<1> QED BY <1>0, <1>1, <1>2 DEF Attached, Bound

(* A process that has just started. *)
LEMMA DownTyped ==
  /\ Down \in Runtimes
  /\ \A E : Attached(Down) \subseteq E
<1>1. << >> \in Snapshots
  <2>1. << >> \in [{} -> Identities]
    OBVIOUS
  <2> QED BY <2>1 DEF Snapshots
<1>2. [r \in Records |-> NoMemory] \in [Records -> [home : Optional(Records), daily : Nat]]
  BY DEF NoMemory, Optional
<1>3. Down \in Runtimes
  BY <1>1, <1>2 DEF Down, Runtimes, Optional
<1>4. Attached(Down) = {}
  BY DEF Down, Attached, Bound
<1> QED BY <1>3, <1>4

LEMMA StartsSound == Init => Inv
<1> SUFFICES ASSUME Init PROVE Inv
  OBVIOUS
<1>0. 1 \in Records
  BY RecordsAssumption DEF Records
<1>1. PICK z \in Zones, v \in Valves :
        /\ config = [y \in Zones |-> IF y = z THEN registry[v] ELSE "unborn"]
        /\ store \in {NoStore, LostStore(z)}
  BY DEF Init
<1>2. /\ config \in [Zones -> Names \cup {"unborn", "deleted"}] /\ Rows
      /\ water \in [Valves -> {"closed", "ours", "theirs"}] /\ seen \in [Valves -> BOOLEAN]
  BY <1>1 DEF Init, Rows, Optional
<1>3. live \in Runtimes /\ Attached(live) \subseteq Exist(store)
  BY DownTyped DEF Init
<1>4. ghost \in Ghosts
  BY FS_EmptySet DEF Init, Ghosts
<1>5. NoStore \in Stores /\ Exist(NoStore) = {}
  BY DEF NoStore, Stores, RecordMaps, HistoryMaps, Exist
<1>6. /\ LostRecord(z, 1) \in RecordSet /\ LostRecord(z, 1).history = 1
      /\ LostHistory(1) \in HistorySet
  <2>1. {NotProvenOff} \in SUBSET KeyKinds /\ {} \in SUBSET Records /\ {1} \in SUBSET Records
    BY <1>0 DEF KeyKinds
  <2>2. \A S : None \in Optional(S)
    BY DEF Optional
  <2>3. LostHistory(1) \in HistorySet
    BY <2>1, <2>2 DEF LostHistory, NewHistory, HistorySet
  <2>4. LostRecord(z, 1) \in RecordSet /\ LostRecord(z, 1).history = 1
    BY <1>0, <2>1, <2>2 DEF LostRecord, NewRecord, RecordSet
  <2> QED BY <2>3, <2>4
<1>7. store \in Stores /\ Linked(store) /\ OnePerValve(store)
  <2>1. CASE store = NoStore
    BY <1>5, <2>1 DEF Linked, OnePerValve
  <2>2. CASE store = LostStore(z)
    <3>1. /\ store.rec = [r \in Records |-> IF r = 1 THEN LostRecord(z, 1) ELSE NoRecord]
          /\ store.hist = [r \in Records |-> IF r = 1 THEN LostHistory(1) ELSE NoHistory]
          /\ store = [rec |-> store.rec, hist |-> store.hist]
      BY <1>0, <2>2 DEF LostStore, NoStore
    <3>2. store \in Stores
      BY <1>6, <3>1 DEF Stores, RecordMaps, HistoryMaps
    <3>3. Exist(store) \subseteq {1} /\ store.rec[1] = LostRecord(z, 1) /\ store.hist[1] = LostHistory(1)
      BY <1>0, <3>1 DEF Exist
    <3> QED BY <1>6, <3>2, <3>3 DEF Linked, OnePerValve
  <2> QED BY <1>1, <2>1, <2>2
<1>8. Now \in Worlds /\ Now.store = store /\ Now.live = live
  BY <1>3, <1>4, <1>7 DEF Now, Worlds
<1>9. Now \in Sound(Exist(store))
  BY <1>3, <1>7, <1>8 DEF Sound
<1> QED BY <1>2, <1>9 DEF Inv

(* Starting to apply a snapshot. *)
LEMMA BeginSound ==
  ASSUME Inv, Begin
  PROVE  Inv'
<1> DEFINE E == Exist(store)
           snap == BuildSnapshot(store)
           l == [live EXCEPT !.phase = "plan", !.snap = snap, !.moved = FALSE]
           start == [Now EXCEPT !.live.phase = "plan", !.live.snap = snap, !.live.moved = FALSE]
<1>0. /\ Now \in Sound(E) /\ Rows /\ store \in Stores /\ live \in Runtimes
      /\ Attached(live) \subseteq E
  BY NowSound DEF Inv
<1>1. snap \in Snapshots
  BY <1>0, SnapshotTyped
<1> HIDE DEF snap
<1>2. l \in Runtimes /\ l.bound = live.bound /\ l.kept = live.kept
  BY <1>0, <1>1 DEF Runtimes
<1>3. Attached(l) \subseteq E
  BY <1>0, <1>2 DEF Attached, Bound
<1>4. start = [Now EXCEPT !.live = l]
  BY DEF Now
<1>5. start \in Sound(E)
  <2> HIDE DEF l, E
  <2> QED BY <1>0, <1>2, <1>3, <1>4, PutLive
<1>6. Displaced(snap) \subseteq E
  BY DEF Displaced
<1>7. Commit(Retain(start, Displaced(snap)))
  BY DEF Begin, snap
<1> HIDE DEF start, E
<1>8. Retain(start, Displaced(snap)) \in Sound(E)
  BY <1>5, <1>6, RetainSound
<1>9. Now' \in Sound(Exist(store)')
  BY <1>7, <1>8, Committed
<1> QED BY <1>9 DEF Begin, Inv, Rows, world

(* The plan is saved. *)
LEMMA PlanStepSound ==
  ASSUME Inv, Plan
  PROVE  Inv'
<1> DEFINE E == Exist(store)
           p == PlanReconciledStore(store, live.snap)
           data == [rec |-> p.rec, hist |-> p.hist]
           l == [live EXCEPT !.keys = StoreKeys(data)]
           saved == [Now EXCEPT !.store = data, !.live.keys = StoreKeys(data)]
<1>0. /\ Now \in Sound(E) /\ Rows /\ store \in Stores /\ live \in Runtimes /\ ghost \in Ghosts
      /\ Attached(live) \subseteq E /\ Linked(store) /\ OnePerValve(store)
  BY NowSound DEF Inv
<1>1. live.snap \in Snapshots
  BY <1>0 DEF Runtimes
<1>2. p \in SoundPlans(E)
  BY <1>0, <1>1, PlanSound
<1>3. \/ \E w \in {Superseded(Now), Failed(Now)} : Commit(w)
      \/ Storable(data) /\ \E w \in {Failed(saved), [saved EXCEPT !.live.phase = "sync"]} : Commit(w)
  <2>1. Commit(IF live.moved THEN Superseded(Now)
               ELSE IF ~Storable(data) THEN Failed(Now)
               ELSE IF p.conflict THEN Failed(saved)
               ELSE [saved EXCEPT !.live.phase = "sync"])
    BY DEF Plan
  <2> HIDE DEF p, data, saved
  <2> QED BY <2>1
<1>4. ASSUME NEW w \in {Superseded(Now), Failed(Now)}, Commit(w)
      PROVE  Now' \in Sound(Exist(store)')
  <2>1. w \in Sound(E)
    BY <1>0, FailedSound
  <2> QED BY <1>4, <2>1, Committed
<1>5. ASSUME Storable(data) PROVE saved \in Sound(Exist(data))
  <2> HIDE DEF p
  <2>1. /\ p.rec \in RecordMaps /\ p.hist \in HistoryMaps /\ E \subseteq Exist(p) /\ OnePerValve(p)
    BY <1>2, PlanParts
  <2>2. data.rec = p.rec /\ data.hist = p.hist /\ data \in Stores
    BY <2>1 DEF Stores
  <2> HIDE DEF data
  <2>3. /\ Exist(data) \subseteq Records
        /\ \A r \in Exist(data) : data.rec[r] \in RecordSet
    BY <2>1, <2>2, Existing
  <2>4. Linked(data)
    <3>1. \A r \in Exist(data) : data.hist[data.rec[r].history] # NoHistory
      BY <1>5 DEF Storable
    <3>2. \A r \in Exist(data) : data.rec[r].history \in Records
      BY <2>3 DEF RecordSet
    <3> QED BY <2>1, <2>2, <3>1, <3>2 DEF Linked, HistoryMaps
  <2>5. Exist(data) = Exist(p) /\ OnePerValve(data)
    BY <2>1, <2>2 DEF Exist, OnePerValve
  <2>6. StoreKeys(data) \in SUBSET (Records \X KeyKinds)
    BY <2>3 DEF StoreKeys, KeyKinds
  <2>7. l \in Runtimes /\ Attached(l) \subseteq Exist(data)
    BY <1>0, <2>1, <2>5, <2>6, LiveFields
  <2>8. saved = [store |-> data, live |-> l, ghost |-> ghost]
    <3> DEFINE X == [Now EXCEPT !.store = data]
    <3>1. X = [store |-> data, live |-> live, ghost |-> ghost]
      BY DEF Now
    <3>2. saved = [X EXCEPT !.live = [X.live EXCEPT !.keys = StoreKeys(data)]]
      OBVIOUS
    <3> HIDE DEF X, saved
    <3>3. X.live = live
      BY <3>1
    <3>4. saved = [X EXCEPT !.live = l]
      BY <3>2, <3>3
    <3> HIDE DEF l
    <3> QED BY <3>1, <3>4
  <2> HIDE DEF saved, l
  <2>9. saved \in Worlds /\ saved.store = data /\ saved.live = l
    BY <1>0, <2>2, <2>7, <2>8 DEF Worlds
  <2> QED BY <2>4, <2>5, <2>7, <2>9 DEF Sound
<1> HIDE DEF saved, data
<1>6. ASSUME Storable(data), NEW w \in {Failed(saved), [saved EXCEPT !.live.phase = "sync"]}, Commit(w)
      PROVE  Now' \in Sound(Exist(store)')
  <2>1. w \in Sound(Exist(data))
    BY <1>5, <1>6, FailedSound, PhaseSound
  <2> QED BY <1>6, <2>1, Committed
<1>7. Now' \in Sound(Exist(store)')
  BY <1>3, <1>4, <1>6
<1> QED BY <1>7 DEF Plan, Inv, Rows, world

(* Controllers follow the plan. *)
LEMMA SynchronizeSound ==
  ASSUME Inv, Synchronize
  PROVE  Inv'
<1> DEFINE E == Exist(store)
           bound == FoldLeft(BindZone, Rebind(Now), ZoneOrder)
           all == FoldLeft(Watch, bound, [r \in Records |-> r])
<1>0. Now \in Sound(E)
  BY DEF Inv
<1>1. bound \in Sound(E)
  <2>1. Rebind(Now) \in Sound(E)
    BY <1>0, RebindSound
  <2> QED BY <2>1, ZonesBound
<1>2. all \in Sound(E)
  <2> HIDE DEF bound
  <2> QED BY <1>1, RecordsWatched
<1>3. \E w \in {Superseded(Now), all, [all EXCEPT !.live.phase = "finish"]} : Commit(w)
  BY DEF Synchronize
<1> HIDE DEF all
<1>4. \A w \in {Superseded(Now), all, [all EXCEPT !.live.phase = "finish"]} : w \in Sound(E)
  BY <1>0, <1>2, FailedSound, PhaseSound
<1>5. Now' \in Sound(Exist(store)')
  BY <1>3, <1>4, Committed
<1> QED BY <1>5 DEF Synchronize, Inv, Rows, world

(* The snapshot is applied. *)
LEMMA FinishSound ==
  ASSUME Inv, Finish
  PROVE  Inv'
<1> DEFINE E == Exist(store)
           refreshed == RefreshTombstones(Now)
           reread == FoldLeft(Reread, refreshed, ZoneOrder)
           done == [reread EXCEPT !.live.phase = "idle", !.live.status = "clean"]
<1>0. Now \in Sound(E) /\ Rows
  BY DEF Inv
<1>1. refreshed \in Sound(E)
  BY <1>0, RefreshTombstonesSound
<1>2. reread \in Sound(E)
  <2> HIDE DEF refreshed
  <2> QED BY <1>1, ZonesReread
<1>3. \E w \in {Superseded(refreshed), done} : Commit(w)
  BY DEF Finish
<1> HIDE DEF refreshed, reread, E
<1>4. \A w \in {Superseded(refreshed), done} : w \in Sound(E)
  <2>1. done \in Sound(E)
    BY <1>2, PhaseSound
  <2>2. Superseded(refreshed) \in Sound(E)
    BY <1>1, FailedSound
  <2> HIDE DEF done
  <2> QED BY <2>1, <2>2
<1>5. Now' \in Sound(Exist(store)')
  BY <1>3, <1>4, Committed
<1> QED BY <1>5 DEF Finish, Inv, Rows, world

(* Every listener of a valve is told. *)
LEMMA NotifySound ==
  ASSUME Now \in Sound(Exist(store)), NEW v, NEW a, NEW b, Notify(v, a, b)
  PROVE  Now' \in Sound(Exist(store)')
<1>1. Listeners(v) \subseteq Exist(store)
  BY NowSound DEF Listeners
<1>2. NoticedBy(Now, Listeners(v), a, b) \in Sound(Exist(store))
  BY <1>1, NoticedByAll
<1> QED BY <1>2, Committed DEF Notify

(* A pulse starts. *)
LEMMA StartWaterSound ==
  ASSUME Inv, NEW z \in Zones, StartWater(z)
  PROVE  Inv'
<1> DEFINE r == live.bound[z]
<1>0. Now \in Sound(Exist(store)) /\ Attached(live) \subseteq Exist(store) /\ store \in Stores
  BY NowSound DEF Inv
<1>1. r \in Exist(store)
  BY <1>0 DEF StartWater, Attached, Bound
<1>2. r \in Optional(Records)
  BY <1>1 DEF Exist, Optional
<1>3. Commit(Persist(Now, r, r, "none"))
  BY DEF StartWater
<1> HIDE DEF r
<1>4. Persist(Now, r, r, "none") \in Sound(Exist(store))
  BY <1>0, <1>1, <1>2, PersistSound
<1>5. Now' \in Sound(Exist(store)')
  BY <1>3, <1>4, Committed
<1> QED BY <1>5 DEF StartWater, Inv, Rows

(* OFF is confirmed, or not. *)
LEMMA WaterEndsSound ==
  ASSUME Inv, NEW r \in Records, EndWater(r) \/ OffFails(r)
  PROVE  Inv'
<1>0. Now \in Sound(Exist(store)) /\ Attached(live) \subseteq Exist(store)
  BY NowSound DEF Inv
<1>1. r \in Exist(store)
  BY <1>0 DEF EndWater, OffFails
<1>2. NotProvenOff \in KeyKinds /\ OffUnconfirmed \in KeyKinds /\ r \in Optional(Records)
  BY DEF KeyKinds, Optional
<1>3. CASE EndWater(r)
  <2>1. CloseSession(Now, r) \in Sound(Exist(store))
    BY <1>0, <1>1, CloseSessionSound
  <2>2. DropKey(CloseSession(Now, r), r, NotProvenOff) \in Sound(Exist(store))
    BY <1>1, <1>2, <2>1, KeysSound
  <2>3. Now' \in Sound(Exist(store)')
    BY <1>3, <2>2, Committed DEF EndWater
  <2> QED BY <1>3, <2>3 DEF EndWater, Inv, Rows
<1>4. CASE OffFails(r)
  <2>1. Persist(Now, r, r, "OFF_TIMEOUT") \in Sound(Exist(store))
    BY <1>0, <1>1, <1>2, PersistSound
  <2>2. AddKey(Persist(Now, r, r, "OFF_TIMEOUT"), r, OffUnconfirmed) \in Sound(Exist(store))
    BY <1>1, <1>2, <2>1, KeysSound
  <2>3. Now' \in Sound(Exist(store)')
    BY <1>4, <2>2, Committed DEF OffFails
  <2> QED BY <1>4, <2>3 DEF OffFails, Inv, Rows, world
<1> QED BY <1>3, <1>4

(* Valves are turned, their states come and go. *)
LEMMA DeviceSound ==
  ASSUME Inv, NEW v \in Valves, Turned(v) \/ Flicker(v)
  PROVE  Inv'
<1>0. Now \in Sound(Exist(store))
  BY DEF Inv
<1>1. CASE Turned(v)
  <2>1. Now' \in Sound(Exist(store)')
    BY <1>0, <1>1, NotifySound DEF Turned
  <2> QED BY <1>1, <2>1 DEF Turned, Inv, Rows
<1>2. CASE Flicker(v)
  <2>1. Now' \in Sound(Exist(store)')
    BY <1>0, <1>2, NotifySound DEF Flicker
  <2> QED BY <1>2, <2>1 DEF Flicker, Inv, Rows
<1> QED BY <1>1, <1>2

(* Rows go, come back and get other names. *)
LEMMA RegistrySound ==
  ASSUME Inv, NEW v \in Valves,
         RemoveRow(v) \/ \E n \in Names : RestoreRow(v, n) \/ RenameRow(v, n)
  PROVE  Inv'
<1>0. Now \in Sound(Exist(store)) /\ live \in Runtimes /\ Attached(live) \subseteq Exist(store)
  BY NowSound DEF Inv
<1>1. CASE RemoveRow(v)
  <2>1. Now' \in Sound(Exist(store)')
    BY <1>0, <1>1, NotifySound DEF RemoveRow
  <2> QED BY <1>1, <2>1 DEF RemoveRow, Inv, Rows, Optional
<1>2. ASSUME NEW n \in Names, RestoreRow(v, n) PROVE Inv'
  <2>1. Now' \in Sound(Exist(store)')
    BY <1>0, <1>2, NotifySound DEF RestoreRow
  <2> QED BY <1>2, <2>1 DEF RestoreRow, Inv, Rows, Optional
<1>3. ASSUME NEW n \in Names, RenameRow(v, n) PROVE Inv'
  <2>1. live' \in {Changed, live} /\ UNCHANGED <<store, ghost>>
    BY <1>3 DEF RenameRow
  <2>2. Now' \in Sound(Exist(store)')
    BY <1>0, <2>1, ChangedTyped, LiveChanged
  <2> QED BY <1>3, <2>2 DEF RenameRow, Inv, Rows, Optional
<1> QED BY <1>1, <1>2, <1>3

(* Subentries change. *)
LEMMA ConfigSound ==
  ASSUME Inv, ConfigStep
  PROVE  Inv'
<1>0. Now \in Sound(Exist(store))
  BY DEF Inv
<1>1. PICK z \in Zones : Delete(z) \/ \E n \in Names : Configure(z, n)
  BY DEF ConfigStep
<1>2. live' = Changed /\ UNCHANGED <<store, ghost, world>>
  BY <1>1 DEF Delete, Configure
<1>3. Now' \in Sound(Exist(store)')
  BY <1>0, <1>2, ChangedTyped, LiveChanged
<1>4. PICK c \in Names \cup {"deleted"} : config' = [config EXCEPT ![z] = c]
  BY <1>1 DEF Delete, Configure
<1> QED BY <1>2, <1>3, <1>4 DEF Inv, Rows, world

(* What the Store blocks. *)
LEMMA StoreKeysTyped ==
  ASSUME NEW E, NEW w \in Sound(E)
  PROVE  [w EXCEPT !.live.keys = StoreKeys(w.store)] \in Sound(E)
<1> DEFINE K == StoreKeys(w.store)
           l == [w.live EXCEPT !.keys = K]
<1>0. /\ w.live \in Runtimes /\ Attached(w.live) \subseteq E /\ E \subseteq Records
      /\ Exist(w.store) = E
  BY SoundParts
<1>1. K \in SUBSET (Records \X KeyKinds)
  BY <1>0 DEF StoreKeys, KeyKinds
<1> HIDE DEF K
<1>2. l \in Runtimes /\ Attached(l) \subseteq E
  BY <1>0, <1>1, LiveFields
<1>3. [w EXCEPT !.live = l] \in Sound(E)
  <2> HIDE DEF l
  <2> QED BY <1>2, PutLive
<1> QED BY <1>3 DEF K

(* An operator certifies a removed actuator. *)
LEMMA CertifySound ==
  ASSUME Inv, NEW r \in Records, Certify(r)
  PROVE  Inv'
<1> DEFINE E == Exist(store)
           rec == store.rec[r]
           new == [rec EXCEPT !.ack = rec.valve]
           w == [Now EXCEPT !.store.rec[r] = new]
           signed == RefreshTombstones(w)
<1>0. Now \in Sound(E) /\ Rows /\ r \in E /\ Now.store = store
  BY DEF Inv, Certify, Now
<1>1. rec \in RecordSet
  BY <1>0, SoundParts
<1>2. new \in RecordSet /\ SameIdentity(new, rec)
  BY <1>1 DEF RecordSet, SameIdentity
<1>3. w \in Sound(E)
  <2> HIDE DEF new, E
  <2> QED BY <1>0, <1>2, PutRecord
<1>4. w = [Now EXCEPT !.store.rec[r].ack = rec.valve]
  BY <1>0
<1>5. Commit([signed EXCEPT !.live.keys = StoreKeys(signed.store)])
  BY <1>4 DEF Certify
<1> HIDE DEF w, E
<1>6. signed \in Sound(E)
  BY <1>0, <1>3, RefreshTombstonesSound
<1> HIDE DEF signed
<1>7. [signed EXCEPT !.live.keys = StoreKeys(signed.store)] \in Sound(E)
  BY <1>6, StoreKeysTyped
<1>8. Now' \in Sound(Exist(store)')
  BY <1>5, <1>7, Committed
<1> QED BY <1>8 DEF Certify, Inv, Rows, world

(* A fault is acknowledged. *)
LEMMA AcknowledgeFaultSound ==
  ASSUME Inv, NEW r \in Records, AcknowledgeFault(r)
  PROVE  Inv'
<1> DEFINE E == Exist(store)
           rec == store.rec[r]
           cleared == Persist(Now, r, None, "none")
           theirs == \E q \in Exist(store) \ {r} : /\ store.rec[q].history = rec.history
                                                   /\ store.rec[q].life = "ACTIVE"
           new == [rec EXCEPT !.fault = "none"]
<1>0. Now \in Sound(E) /\ r \in E /\ Now.store = store /\ Now.ghost = ghost
  BY DEF Inv, AcknowledgeFault, Now
<1>1. cleared \in Sound(E)
  BY <1>0, PersistSound DEF Optional
<1>2. [Now EXCEPT !.store.rec[r].fault = "none"] \in Sound(E)
  <2>1. rec \in RecordSet
    BY <1>0, SoundParts
  <2>2. new \in RecordSet /\ SameIdentity(new, rec)
    BY <2>1 DEF RecordSet, SameIdentity
  <2>3. [Now EXCEPT !.store.rec[r] = new] \in Sound(E)
    <3> HIDE DEF new, E
    <3> QED BY <1>0, <2>2, PutRecord
  <2>4. [Now EXCEPT !.store.rec[r] = new] = [Now EXCEPT !.store.rec[r].fault = "none"]
    BY <1>0
  <2> QED BY <2>3, <2>4
<1>3. \/ Commit([cleared EXCEPT !.ghost.overwritten = @ \/ theirs])
      \/ Commit([Now EXCEPT !.store.rec[r].fault = "none"])
  BY DEF AcknowledgeFault
<1>4. [cleared EXCEPT !.ghost.overwritten = @ \/ theirs] \in Sound(E)
  <2> HIDE DEF cleared, E, theirs
  <2> DEFINE o == cleared.ghost.overwritten \/ theirs
             g == [cleared.ghost EXCEPT !.overwritten = o]
  <2>1. cleared.ghost \in Ghosts
    BY <1>1, SoundParts
  <2>2. o \in BOOLEAN
    OBVIOUS
  <2> HIDE DEF o
  <2>3. g \in Ghosts
    BY <2>1, <2>2 DEF Ghosts
  <2>4. [cleared EXCEPT !.ghost = g] \in Sound(E)
    <3> HIDE DEF g
    <3> QED BY <1>1, <2>3, PutGhost
  <2> QED BY <2>4 DEF o
<1>5. Now' \in Sound(Exist(store)')
  <2> DEFINE w1 == [cleared EXCEPT !.ghost.overwritten = @ \/ theirs]
             w2 == [Now EXCEPT !.store.rec[r].fault = "none"]
  <2>1. w1 \in Sound(E) /\ w2 \in Sound(E) /\ (Commit(w1) \/ Commit(w2))
    BY <1>2, <1>3, <1>4
  <2> HIDE DEF w1, w2
  <2> QED BY <2>1, Committed
<1> QED BY <1>5 DEF AcknowledgeFault, Inv, Rows, world

(* Every step keeps the invariant. *)
LEMMA StepSound == Inv /\ [Next]_vars => Inv'
<1> SUFFICES ASSUME Inv, [Next]_vars PROVE Inv'
  OBVIOUS
<1>1. CASE Begin
  BY <1>1, BeginSound
<1>2. CASE Plan
  BY <1>2, PlanStepSound
<1>3. CASE Synchronize
  BY <1>3, SynchronizeSound
<1>4. CASE Finish
  BY <1>4, FinishSound
<1>5. CASE ControllerStep
  BY <1>5, StartWaterSound, WaterEndsSound DEF ControllerStep
<1>6. CASE ConfigStep
  BY <1>6, ConfigSound
<1>7. CASE RegistryStep
  BY <1>7, RegistrySound DEF RegistryStep
<1>8. CASE DeviceStep
  BY <1>8, DeviceSound DEF DeviceStep
<1>9. CASE OperatorStep
  BY <1>9, CertifySound, AcknowledgeFaultSound DEF OperatorStep
<1>10. CASE Crash
  <2>0. Now \in Sound(Exist(store))
    BY DEF Inv
  <2>1. Now' \in Sound(Exist(store)')
    BY <1>10, <2>0, DownTyped, LiveChanged DEF Crash
  <2> QED BY <1>10, <2>1 DEF Crash, Inv, Rows, world
<1>11. CASE Settled \/ UNCHANGED vars
  <2>1. Now' = Now /\ Exist(store)' = Exist(store)
    BY <1>11 DEF Settled, vars, Now, Exist
  <2> QED BY <1>11, <2>1 DEF Settled, vars, Inv, Rows
<1> QED BY <1>1, <1>2, <1>3, <1>4, <1>5, <1>6, <1>7, <1>8, <1>9, <1>10, <1>11 DEF Next

(* The type invariant of the applier: whatever the configuration, the      *)
(* registry and the valves do, and wherever the process dies, every record *)
(* and history in the Store (runtime.py, _plan_reconciled_store) and every *)
(* field of the runtime hold values of their kinds.                        *)
THEOREM TypeCorrect == Spec => []TypeOK
<1>1. Inv => TypeOK
  <2> SUFFICES ASSUME Inv PROVE TypeOK
    OBVIOUS
  <2>0. Now \in Sound(Exist(store)) /\ store \in Stores /\ live \in Runtimes
    BY NowSound DEF Inv
  <2>1. \A r \in Exist(store) : store.rec[r] \in RecordSet
    BY <2>0, Existing DEF Stores
  <2>2. \A h \in Records : store.hist[h] # NoHistory => store.hist[h] \in HistorySet
    BY <2>0 DEF Stores, HistoryMaps
  <2>3. /\ live.phase \in {"idle", "plan", "sync", "finish"}
        /\ live.status \in {"dirty", "clean", "failed"}
        /\ live.bound \in [Zones -> Optional(Records)] /\ live.kept \subseteq Records
    BY <2>0 DEF Runtimes
  <2>4. \A r \in Exist(store) : LET rec == store.rec[r] IN
         /\ rec.zone \in Zones /\ rec.active \in Optional(Zones) /\ rec.history \in Records
         /\ rec.life \in {"ACTIVE", "DELETE_PENDING", "RETIRED"}
         /\ rec.valve \in Optional(Valves) /\ rec.name \in Optional(Names)
         /\ rec.keys \subseteq {NotProvenOff, OffUnconfirmed, ExternalKey}
         /\ rec.owner \in {"none", "INTEGRATION", "EXTERNAL"}
         /\ rec.fault \in {"none", "OFF_TIMEOUT", "RESTORED"} /\ rec.ack \in Optional(Valves)
    BY <2>1 DEF RecordSet, KeyKinds
  <2>5. \A h \in Records : store.hist[h] # NoHistory =>
         /\ store.hist[h].active \in Optional(Zones) /\ store.hist[h].session \in Optional(Records)
         /\ store.hist[h].spent \in Nat
    BY <2>2 DEF HistorySet
  <2> QED BY <2>3, <2>4, <2>5 DEF TypeOK, Inv, Rows
<1> QED BY <1>1, StartsSound, StepSound, PTL DEF Spec

(* One canonical record per durable actuator, for any number of zones and  *)
(* valves: no order of additions, replacements, deletions, renames and     *)
(* crashes gives a registry id a second record (runtime.py,                *)
(* _plan_reconciled_store), so the evidence about a valve is never split.  *)
THEOREM CanonicalRecords == Spec => []OneRecordPerValve
<1>1. Inv => OneRecordPerValve
  BY NowSound DEF Inv, OneRecordPerValve, OnePerValve
<1> QED BY <1>1, StartsSound, StepSound, PTL DEF Spec
=============================================================================
