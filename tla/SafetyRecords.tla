---------------------------- MODULE SafetyRecords ----------------------------
(***************************************************************************)
(* Which safety record owns which valve while zones are added, given       *)
(* another valve and deleted, registry rows come and go, people turn       *)
(* valves, and the process crashes (runtime.py: the applier of a           *)
(* configuration snapshot; config_flow.py: the actuators it accepts;       *)
(* storage.py, repairs.py: the acknowledgements).                          *)
(*                                                                         *)
(* A record belongs to one durable registry id, a history to one logical   *)
(* zone; records that replaced each other in a zone share its history.     *)
(* Controllers are coarse: what their decisions write to their record and  *)
(* its history, a session being one pulse.  Every actuator is registered;  *)
(* audit lists and settings other than the actuator are left out.          *)
(***************************************************************************)
EXTENDS Naturals, FiniteSets, Sequences, SequencesExt

CONSTANTS
    Valves,         \* registry ids of actuators
    Names,          \* entity ids
    ZoneOrder,      \* the subentry ids, in sorted order
    MaxRecords,     \* bound: record ids that can be handed out
    Budgets,        \* bounds: how often each kind of input may happen
    None            \* no id

ASSUME RecordsAssumption ==
    /\ MaxRecords \in Nat \ {0}
    /\ ZoneOrder \in Seq(Range(ZoneOrder))
    /\ None \notin Valves \cup Names \cup Range(ZoneOrder) \cup Nat
    /\ None \notin Range(ZoneOrder) \X Names \X (Valves \cup {None})

VARIABLES
    config,         \* the entry's subentries: the actuator each names
    registry,       \* the entity registry: the name of each row, or None
    water,          \* what each valve does
    seen,           \* whether Home Assistant has its state
    store,          \* the SafetyStore: records and histories
    live,           \* the EntryRuntime
    ghost,          \* history: the pulses charged, and what was overwritten
    left            \* what is left of the budget

vars == <<config, registry, water, seen, store, live, ghost, left>>
world == <<registry, water, seen>>

Zones == Range(ZoneOrder)
Records == 1 .. MaxRecords

NotProvenOff == "actuator_not_proven_off"
OffUnconfirmed == "integration_off_unconfirmed"
ExternalKey == "external_flow"

Spend(kind) == left[kind] > 0 /\ left' = [left EXCEPT ![kind] = @ - 1]

-----------------------------------------------------------------------------
(* What an actuator shows: off, on, unknown; or absent, with no row. *)

Shows(row, flow, visible) ==
    IF row = None THEN "absent" ELSE IF ~visible THEN "unknown"
    ELSE IF flow = "closed" THEN "off" ELSE "on"

Assess(v) == IF v = None THEN "absent" ELSE Shows(registry[v], water[v], seen[v])

Named(n) == {v \in Valves : registry[v] = n}
AssessName(n) == IF Named(n) = {} THEN "unknown" ELSE Assess(CHOOSE v \in Named(n) : TRUE)

-----------------------------------------------------------------------------
(* Records and histories. *)

NoRecord == [life |-> "none"]
NoHistory == [active |-> "none", session |-> None, spent |-> 0, lost |-> {}]

Exist(data) == {r \in Records : data.rec[r] # NoRecord}
Session(data, r) == data.hist[data.rec[r].history].session
Unused(data) == {r \in Records : data.rec[r] = NoRecord /\ data.hist[r] = NoHistory}
Fresh(data) == CHOOSE r \in Unused(data) : \A q \in Unused(data) : r <= q

NewRecord(z, s, r) ==
    [zone |-> z, active |-> z, history |-> r, former |-> {}, life |-> "ACTIVE",
     applied |-> <<z, s.name, s.valve>>, valve |-> s.valve, name |-> s.entity,
     status |-> "CONFIRMED", keys |-> {}, owner |-> "none", incident |-> "none",
     fault |-> "none", ack |-> None]
NewHistory(z) == [active |-> z, session |-> None, spent |-> 0, lost |-> {}]

(* After integrity loss nothing is known of the zone's actuator, and one   *)
(* contribution stands for the whole day's budget.                         *)
LostRecord(z, r) ==
    [NewRecord(z, [name |-> None, valve |-> None, entity |-> None], r) EXCEPT
       !.active = None, !.life = "DELETE_PENDING", !.applied = None, !.status = "MISSING",
       !.keys = {NotProvenOff}, !.incident = "lost", !.fault = "RESTORED"]
LostHistory(r) == [NewHistory(None) EXCEPT !.lost = {r}]

(* StoreData and SafetyRecord refuse anything else. *)
Storable(data) ==
    /\ \A r \in Exist(data) :
         LET rec == data.rec[r]
             h == data.hist[rec.history]
         IN
         /\ h # NoHistory /\ rec.history \notin rec.former
         /\ rec.life = "ACTIVE" => /\ rec.ack = None /\ rec.status = "CONFIRMED"
                                   /\ h.active = rec.active
         /\ \A q \in Exist(data) \ {r} : rec.active = None \/ data.rec[q].active # rec.active
    /\ \A h \in Records :
         data.hist[h] # NoHistory =>
           LET owner == data.hist[h].session IN
           /\ owner # None => owner \in Exist(data) /\ data.rec[owner].history = h
           /\ \A g \in Records \ {h} :
                data.hist[g] # NoHistory =>
                  /\ data.hist[h].active = None \/ data.hist[g].active # data.hist[h].active
                  /\ data.hist[h].lost \cap data.hist[g].lost = {}

-----------------------------------------------------------------------------
(* One record and what its actuator shows. *)

ReconcileActive(rec, open, a, certified) ==
    LET cleared == rec.keys \ {NotProvenOff, ExternalKey}
    IN  CASE a = "off" \/ (a = "absent" /\ certified) ->
               [rec EXCEPT !.keys = cleared,
                           !.owner = IF ~open /\ OffUnconfirmed \notin cleared
                                     THEN "none" ELSE @]
          [] a = "on" /\ ~open ->
               [rec EXCEPT !.keys = @ \cup {ExternalKey}, !.owner = "EXTERNAL"]
          [] OTHER -> [rec EXCEPT !.keys = @ \cup {NotProvenOff}]

(* A record without a subentry: an operator's certificate for the exact    *)
(* missing row stands in for OFF evidence.                                 *)
ReconcileRetained(rec, open) ==
    LET a == Assess(rec.valve)
        certified == a = "absent" /\ rec.ack # None /\ rec.ack = rec.valve
        judged == ReconcileActive(rec, open, a, certified)
        known == IF a # "absent" THEN [judged EXCEPT !.name = registry[rec.valve]]
                 ELSE [judged EXCEPT !.status = "MISSING",
                                     !.incident = IF certified THEN "none" ELSE "missing"]
        safe == /\ a = "off" \/ certified
                /\ known.keys = {} /\ known.owner = "none" /\ ~open
    IN  [known EXCEPT !.life = IF safe THEN "RETIRED" ELSE "DELETE_PENDING"]

-----------------------------------------------------------------------------
(* The snapshot: which registry id each subentry means. *)

Configured(c) == {z \in Zones : c[z] \in Names}

(* The row a record holds is followed through a rename, unless another     *)
(* row has taken the configured name.                                      *)
Resolve(data, z) ==
    LET n == config[z]
        held == {r \in Exist(data) : /\ data.rec[r].active = z
                                     /\ data.rec[r].applied[2] = n
                                     /\ Assess(data.rec[r].valve) # "absent"}
        Zone(v, entity, ambiguous) ==
            [name |-> n, valve |-> v, entity |-> entity, ambiguous |-> ambiguous]
    IN  IF held # {}
        THEN LET v == data.rec[CHOOSE r \in held : TRUE].valve
             IN  Zone(v, registry[v], Named(n) \ {v} # {})
        ELSE IF Named(n) # {} THEN Zone(CHOOSE v \in Named(n) : TRUE, n, FALSE)
        ELSE Zone(None, n, FALSE)

BuildSnapshot(data) == [z \in Configured(config) |-> Resolve(data, z)]

SameActuator(rec, s) == s.valve # None /\ rec.valve = s.valve

-----------------------------------------------------------------------------
(* _plan_reconciled_store *)

(* First every record whose zone is gone or has another valve. *)
Tombstone(data, snap, r) ==
    LET rec == data.rec[r] IN
    IF rec.active \in DOMAIN snap /\ SameActuator(rec, snap[rec.active]) THEN rec
    ELSE ReconcileRetained([rec EXCEPT !.active = None], Session(data, r) # None)

(* Two zones that select one valve are in conflict; both are planned. *)
Duplicates(snap) ==
    \E y, z \in DOMAIN snap :
      y # z /\ <<snap[y].valve, snap[y].entity>> = <<snap[z].valve, snap[z].entity>>

(* The plan starts with them.  full: bound: no record id was left. *)
Tombstoned(data, snap) ==
    LET left_ == {data.rec[r].history : r \in {q \in Exist(data) :
                     data.rec[q].active # None /\ data.rec[q].active \notin DOMAIN snap}}
    IN  [conflict |-> Duplicates(snap), full |-> FALSE,
         rec |-> [r \in Records |-> IF r \in Exist(data) THEN Tombstone(data, snap, r)
                                    ELSE NoRecord],
         hist |-> [h \in Records |-> IF h \in left_ THEN [data.hist[h] EXCEPT !.active = None]
                                     ELSE data.hist[h]]]

(* A conflict marks the records it is about. *)
Conflict(p, marked, kind) ==
    [p EXCEPT !.conflict = TRUE,
              !.rec = [r \in Records |-> IF r \notin marked THEN p.rec[r]
                         ELSE [p.rec[r] EXCEPT !.incident = kind,
                                               !.keys = @ \cup {NotProvenOff}]]]

Exact(p, s) == {r \in Exist(p) : s.valve # None /\ p.rec[r].valve = s.valve}

(* Slip: a valve that comes back to another zone gets a clean record. *)
SelectAnew(p, z, s) == {r \in Exact(p, s) : p.rec[r].zone = z}

(* The record for zone z: the one with the exact registry id, or the only  *)
(* one the zone left behind without an actuator.                           *)
Select(p, z, s) ==
    LET mapped == {r \in Exist(p) : /\ p.rec[r].zone = z /\ p.rec[r].active = None
                                    /\ p.rec[r].status = "MISSING"}
    IN  IF Exact(p, s) # {} THEN Exact(p, s)
        ELSE IF Cardinality(mapped) = 1 /\ Named(s.entity) # {} THEN mapped ELSE {}

(* Slip: the continuing history keeps only its own totals. *)
MergeNothing(p, r, into) ==
    LET old == p.rec[r].history
        shared == \E q \in Exist(p) \ {r} : p.rec[q].history = old
    IN  [p.hist EXCEPT ![old] = IF shared THEN @ ELSE NoHistory]

(* Slip: only what one has more than the other is added. *)
MergeDifference(p, r, into) ==
    LET old == p.rec[r].history
        shared == \E q \in Exist(p) \ {r} : p.rec[q].history = old
    IN  [p.hist EXCEPT ![into].spent = p.hist[old].spent - @,
                       ![into].lost = @ \cup p.hist[old].lost,
                       ![old] = IF shared THEN @ ELSE NoHistory]

(* The continuing history takes over the budget of the one that ends. *)
MergeHistory(p, r, into) ==
    LET old == p.rec[r].history
        shared == \E q \in Exist(p) \ {r} : p.rec[q].history = old
    IN  [p.hist EXCEPT ![into].spent = @ + p.hist[old].spent,
                       ![into].lost = @ \cup p.hist[old].lost,
                       ![old] = IF shared THEN @ ELSE NoHistory]

Activate(p, hist, z, s, r, h) ==
    LET old == p.rec[r].history
        rec == [p.rec[r] EXCEPT
                  !.zone = z, !.active = z, !.life = "ACTIVE",
                  !.applied = <<z, s.name, s.valve>>, !.valve = s.valve, !.name = s.entity,
                  !.status = "CONFIRMED", !.incident = "none",
                  !.former = IF old # h THEN @ \cup {old} ELSE @, !.history = h]
    IN  [p EXCEPT !.hist = [hist EXCEPT ![h].active = z],
                  !.rec[r] = ReconcileActive(rec, hist[h].session # None,
                                             AssessName(s.entity), FALSE)]

(* Slip: another valve's open session is dropped from the history. *)
TakeRecordAnyway(p, data, z, s, r, prior) ==
    LET h == IF prior # None THEN data.rec[prior].history ELSE p.rec[r].history
        hist == IF p.rec[r].history # h THEN MergeHistory(p, r, h) ELSE p.hist
    IN  Activate(p, [hist EXCEPT ![h].session = None], z, s, r, h)

(* Zone z takes record r: the zone's own history goes on, unless a session *)
(* is open that is not this valve's.  A history dropped earlier in the     *)
(* plan is an error that the dangling reference stands for.                *)
TakeRecord(p, data, z, s, r, prior) ==
    LET h == IF prior # None THEN data.rec[prior].history ELSE p.rec[r].history
        merges == p.rec[r].history # h
        hist == IF merges THEN MergeHistory(p, r, h) ELSE p.hist
        continues == IF prior = None THEN SameActuator(p.rec[r], s)
                     ELSE r = prior /\ SameActuator(data.rec[prior], s)
    IN  IF NoHistory \in {p.hist[h], p.hist[p.rec[r].history]} THEN p
        ELSE IF merges /\ p.hist[p.rec[r].history].session # None
        THEN Conflict(p, {}, "none")
        ELSE IF hist[h].session # None /\ ~continues
        THEN [Conflict(p, {}, "none") EXCEPT !.hist = hist]
        ELSE Activate(p, hist, z, s, r, h)

PlanZone(p, data, snap, z) ==
    LET s == snap[z]
        priors == {r \in Exist(data) : data.rec[r].active = z}
        prior == IF priors = {} THEN None ELSE CHOOSE r \in priors : TRUE
        exact == Exact(p, s)
        textual == {r \in Exist(p) : p.rec[r].name = s.entity
                                      /\ p.rec[r].valve \notin {None, s.valve}}
        claimed == {r \in Exist(p) : p.rec[r].active = z \/ p.rec[r].zone = z}
        chosen == Select(p, z, s)
        r0 == Fresh(p)
        minted == [p EXCEPT !.rec[r0] = NewRecord(z, s, r0), !.hist[r0] = NewHistory(z)]
    IN  IF s.ambiguous THEN Conflict(p, exact \cup claimed, "conflict")
        ELSE IF Cardinality(exact) > 1 \/ textual # {}
        THEN Conflict(p, exact \cup textual, "conflict")
        ELSE IF chosen # {} THEN TakeRecord(p, data, z, s, CHOOSE r \in chosen : TRUE, prior)
        ELSE IF Named(s.entity) = {} THEN Conflict(p, {}, "none")
        ELSE IF Unused(p) = {} THEN [p EXCEPT !.full = TRUE]
        ELSE TakeRecord(minted, data, z, s, r0, prior)

PlanReconciledStore(data, snap) ==
    FoldLeft(LAMBDA p, z : IF z \in DOMAIN snap THEN PlanZone(p, data, snap, z) ELSE p,
             Tombstoned(data, snap), ZoneOrder)

-----------------------------------------------------------------------------
(* The runtime.  A transition works on the Store, the runtime and the      *)
(* charges together.                                                       *)

(* What a controller has in memory: its history's id and the day's total. *)
NoMemory == [home |-> None, daily |-> 0]

Down ==
    [phase |-> "idle", status |-> "dirty", snap |-> << >>, moved |-> FALSE,
     bound |-> [z \in Zones |-> None], kept |-> {}, ext |-> {}, keys |-> {},
     mem |-> [r \in Records |-> NoMemory]]

Now == [store |-> store, live |-> live, ghost |-> ghost]
Commit(w) == store' = w.store /\ live' = w.live /\ ghost' = w.ghost

Bound(l) == {l.bound[z] : z \in Zones} \ {None}
Attached(l) == Bound(l) \cup l.kept

(* Slip: only the hazards of records in use count. *)
StoreKeysActive(data) ==
    {b \in Exist(data) \X {NotProvenOff, OffUnconfirmed, ExternalKey} :
       data.rec[b[1]].life = "ACTIVE" /\ b[2] \in data.rec[b[1]].keys}

StoreKeys(data) == {b \in Exist(data) \X {NotProvenOff, OffUnconfirmed, ExternalKey} :
                      b[2] \in data.rec[b[1]].keys}

(* One blocker key, in the slot manager and then in the Store; the         *)
(* possible-flow owner follows the keys.                                   *)
OwnerOf(keys) == IF OffUnconfirmed \in keys THEN "INTEGRATION"
                 ELSE IF ExternalKey \in keys THEN "EXTERNAL" ELSE "none"

AddKey(w, r, k) ==
    LET rec == w.store.rec[r]
        owner == IF k = NotProvenOff THEN rec.owner ELSE OwnerOf({k})
    IN  IF <<r, k>> \in w.live.keys THEN w
        ELSE [w EXCEPT !.live.keys = @ \cup {<<r, k>>},
                       !.store.rec[r] = [rec EXCEPT !.keys = @ \cup {k},
                                                    !.owner = IF k \in rec.keys THEN @ ELSE owner]]

DropKey(w, r, k) ==
    LET rec == w.store.rec[r] IN
    IF <<r, k>> \notin w.live.keys THEN w
    ELSE [w EXCEPT !.live.keys = @ \ {<<r, k>>},
                   !.store.rec[r] = [rec EXCEPT !.keys = @ \ {k},
                                                !.owner = IF k \in rec.keys
                                                          THEN OwnerOf(rec.keys \ {k}) ELSE @]]

(* The controller of r writes its whole runtime, the day's total included. *)
Persist(w, r, session, fault) ==
    LET rec == w.store.rec[r]
        owner == IF session # None THEN "INTEGRATION"
                 ELSE OwnerOf(rec.keys \cup (IF r \in w.live.ext THEN {ExternalKey} ELSE {}))
    IN  [w EXCEPT !.store.rec[r] = [rec EXCEPT !.fault = fault, !.owner = owner],
                  !.store.hist[rec.history] = [@ EXCEPT !.session = session,
                                                        !.spent = w.live.mem[r].daily]]

(* The session of r ends: one pulse is charged, and OFF is confirmed. *)
CloseSession(w, r) ==
    LET rec == w.store.rec[r]
        charged == [w EXCEPT !.live.mem[r].daily = @ + 1,
                             !.ghost.charged = @ \cup {<<r, rec.zone, Cardinality(@)>>}]
    IN  DropKey(Persist(charged, r, None, rec.fault), r, OffUnconfirmed)

-----------------------------------------------------------------------------
(* Controllers. *)

(* The start of a pulse, while no other zone holds the slot: intent on     *)
(* disk, then the ON command.                                              *)
StartWater(z) ==
    LET r == live.bound[z]
        v == store.rec[r].valve
    IN
    /\ live.status = "clean" /\ live.phase = "idle" /\ live.keys = {}
    /\ r # None
    /\ store.rec[r].life = "ACTIVE" /\ store.rec[r].fault = "none" /\ Assess(v) = "off"
    /\ \A q \in Attached(live) : Session(store, q) # q \/ store.rec[q].fault # "none"
    /\ Commit(Persist(Now, r, r, "none"))
    /\ water' = [water EXCEPT ![v] = "ours"]
    /\ Spend("start") /\ UNCHANGED <<config, registry, seen>>

(* OFF is commanded and confirmed. *)
EndWater(r) ==
    LET v == store.rec[r].valve IN
    /\ r \in Attached(live) /\ Session(store, r) = r /\ store.rec[r].fault = "none"
    /\ Assess(v) \in {"off", "on"}
    /\ Commit(DropKey(CloseSession(Now, r), r, NotProvenOff))
    /\ water' = [water EXCEPT ![v] = "closed"]
    /\ UNCHANGED <<config, registry, seen, left>>

(* OFF is not confirmed: the session stays open under the fault. *)
OffFails(r) ==
    /\ r \in Attached(live) /\ Session(store, r) = r /\ store.rec[r].fault = "none"
    /\ Commit(AddKey(Persist(Now, r, r, "OFF_TIMEOUT"), r, OffUnconfirmed))
    /\ UNCHANGED <<config, world, left>>

(* What the controller of r makes of a valve that changed from a to b. *)
Noticed(w, r, a, b) ==
    LET open == Session(w.store, r) = r
        faulted == w.store.rec[r].fault # "none"
        proven == DropKey(w, r, NotProvenOff)
    IN  CASE b = "off" /\ open -> CloseSession(proven, r)
          [] b = "off" /\ ~open /\ r \in w.live.ext ->
               DropKey([proven EXCEPT !.live.ext = @ \ {r}], r, ExternalKey)
          [] b = "off" /\ ~open /\ r \notin w.live.ext -> proven
          [] b = "on" /\ (~open \/ faulted) /\ r \notin w.live.ext ->
               AddKey([w EXCEPT !.live.ext = @ \cup {r}], r, ExternalKey)
          [] OTHER -> w

(* A valve is seen to be what it was not: every controller that listens to *)
(* it reacts.                                                              *)
Listeners(v) == {r \in Attached(live) : store.rec[r].valve = v}
NoticedBy(w0, R, a, b) ==
    FoldLeft(LAMBDA w, r : IF r \in R THEN Noticed(w, r, a, b) ELSE w, w0, [r \in Records |-> r])
Notify(v, a, b) == Commit(IF a # b THEN NoticedBy(Now, Listeners(v), a, b) ELSE Now)

(* People turn a valve; or its state comes and goes. *)
Turned(v) ==
    LET w == IF water[v] = "closed" THEN "theirs" ELSE "closed" IN
    /\ water' = [water EXCEPT ![v] = w]
    /\ Notify(v, Assess(v), Shows(registry[v], w, seen[v]))
    /\ Spend("device") /\ UNCHANGED <<config, registry, seen>>

Flicker(v) ==
    /\ seen' = [seen EXCEPT ![v] = ~@]
    /\ registry[v] # None
    /\ Notify(v, Assess(v), Shows(registry[v], water[v], ~seen[v]))
    /\ IF seen[v] THEN Spend("device") ELSE UNCHANGED left
    /\ UNCHANGED <<config, registry, water>>

-----------------------------------------------------------------------------
(* The configuration and the registry. *)

Changed == [live EXCEPT !.status = "dirty", !.moved = TRUE]

(* The form takes an actuator no other zone has, unless the Store holds    *)
(* contradicting evidence about it.                                        *)
Selectable(z, n) ==
    /\ Named(n) # {}
    /\ \A y \in Zones \ {z} : config[y] # n
    /\ \A r \in Exist(store), v \in Named(n) :
         /\ store.rec[r].valve = v => store.rec[r].active \in {None, z}
         /\ store.rec[r].name = n => store.rec[r].valve \in {None, v}

(* A zone is added, or given another actuator.  The form stops the zone's  *)
(* session first, but nothing makes every change come from the form.       *)
Configure(z, n) ==
    /\ config[z] # "deleted" /\ config[z] # n /\ Selectable(z, n)
    /\ config' = [config EXCEPT ![z] = n]
    /\ live' = Changed
    /\ Spend("config") /\ UNCHANGED <<store, ghost, world>>

Delete(z) ==
    /\ config[z] \in Names
    /\ config' = [config EXCEPT ![z] = "deleted"]
    /\ live' = Changed
    /\ Spend("config") /\ UNCHANGED <<store, ghost, world>>

(* A registry row goes, or comes back under its id; nobody is told but by  *)
(* the state that goes with it.                                            *)
RemoveRow(v) ==
    /\ registry[v] # None
    /\ registry' = [registry EXCEPT ![v] = None]
    /\ Notify(v, Assess(v), "absent")
    /\ Spend("registry") /\ UNCHANGED <<config, water, seen>>

(* Assumed of the registry: a name that a controller still listens to, or  *)
(* that a snapshot being applied holds, is not given to another row.       *)
Untaken(v, n) ==
    /\ Named(n) = {}
    /\ live.phase # "idle" => \A z \in DOMAIN live.snap : live.snap[z].entity # n
    /\ \A r \in Attached(live) : LET rec == store.rec[r] IN
         rec.name = n /\ rec.valve # v => registry[rec.valve] # None

RestoreRow(v, n) ==
    /\ registry[v] = None /\ Untaken(v, n)
    /\ registry' = [registry EXCEPT ![v] = n]
    /\ Notify(v, "absent", Shows(n, water[v], seen[v]))
    /\ Spend("registry") /\ UNCHANGED <<config, water, seen>>

(* A listening controller follows a renamed row and has the entry          *)
(* reconciled.                                                             *)
RenameRow(v, n) ==
    /\ registry[v] # None /\ Untaken(v, n)
    /\ registry' = [registry EXCEPT ![v] = n]
    /\ live' = IF Listeners(v) # {} THEN Changed ELSE live
    /\ Spend("registry") /\ UNCHANGED <<config, water, seen, store, ghost>>

-----------------------------------------------------------------------------
(* Applying a snapshot. *)

(* A controller attaches to r: it takes the day's total, and closes the    *)
(* pulse it finds over.                                                    *)
Attach(w, r) ==
    LET rec == w.store.rec[r]
        memory == [home |-> rec.history, daily |-> w.store.hist[rec.history].spent]
        read == [w EXCEPT !.live.mem[r] = memory, !.live.ext = @ \ {r}]
    IN  IF Session(w.store, r) = r /\ rec.fault = "none" /\ Assess(rec.valve) = "off"
        THEN CloseSession(read, r) ELSE read

(* A controller that is let go takes what it remembers with it. *)
Detached(w, gone) ==
    [w EXCEPT !.live.kept = @ \ gone, !.live.ext = @ \ gone,
              !.live.mem = [r \in Records |-> IF r \in gone THEN NoMemory ELSE @[r]]]

Foreign(w, r) == Session(w.store, r) \notin {None, r}
Failed(w) == [w EXCEPT !.live.phase = "idle", !.live.status = "failed"]
Superseded(w) == [w EXCEPT !.live.phase = "idle"]

(* A session on disk whose actuator is no longer current, and which no     *)
(* controller has, gets a retained one first.                              *)
Displaced(snap) ==
    {r \in Exist(store) : LET rec == store.rec[r] IN
       /\ Session(store, r) = r /\ rec.applied # None /\ rec.status = "CONFIRMED"
       /\ ~(rec.active \in DOMAIN snap /\ SameActuator(rec, snap[rec.active]))
       /\ r \notin Attached(live)}

Retain(w0, R) ==
    FoldLeft(LAMBDA w, r : IF r \in R THEN [Attach(w, r) EXCEPT !.live.kept = @ \cup {r}] ELSE w,
             w0, [r \in Records |-> r])

Begin ==
    LET snap == BuildSnapshot(store)
        start == [Now EXCEPT !.live.phase = "plan", !.live.snap = snap, !.live.moved = FALSE]
    IN
    /\ live.phase = "idle" /\ live.status # "clean"
    /\ Commit(Retain(start, Displaced(snap)))
    /\ UNCHANGED <<config, world, left>>

Same(z) == /\ z \in DOMAIN live.snap
           /\ store.rec[live.bound[z]].applied = <<z, live.snap[z].name, live.snap[z].valve>>

(* The Store is rewritten and its blockers are published, once the OFF of  *)
(* every zone that changes has ended.                                      *)
Plan ==
    LET p == PlanReconciledStore(store, live.snap)
        data == [rec |-> p.rec, hist |-> p.hist]
        saved == [Now EXCEPT !.store = data, !.live.keys = StoreKeys(data)]
    IN
    /\ live.phase = "plan" /\ ~p.full
    /\ \A z \in Zones : live.bound[z] # None /\ ~Same(z) =>
         LET r == live.bound[z] IN Session(store, r) = r => store.rec[r].fault # "none"
    /\ Commit(IF live.moved THEN Superseded(Now)
              ELSE IF ~Storable(data) THEN Failed(Now)
              ELSE IF p.conflict THEN Failed(saved)
              ELSE [saved EXCEPT !.live.phase = "sync"])
    /\ UNCHANGED <<config, world, left>>

(* Controllers whose record and settings are the same stay; the others are *)
(* retained while their record is DELETE_PENDING, or let go.               *)
Rebind(w) ==
    LET Keeps(z) == LET rec == w.store.rec[w.live.bound[z]] IN
            /\ z \in DOMAIN w.live.snap /\ rec.life = "ACTIVE" /\ rec.active = z
            /\ rec.applied = <<z, w.live.snap[z].name, w.live.snap[z].valve>>
        gone == {z \in Zones : w.live.bound[z] # None /\ ~Keeps(z)}
        loose == {w.live.bound[z] : z \in gone}
        pending == {r \in loose : w.store.rec[r].life = "DELETE_PENDING"}
    IN  Detached([w EXCEPT !.live.bound = [z \in Zones |-> IF z \in gone THEN None ELSE @[z]],
                           !.live.kept = @ \cup pending],
                 loose \ pending)

(* A configured zone without a controller gets one for its record. *)
BindZone(w, z) ==
    LET matches == {q \in Exist(w.store) : w.store.rec[q].active = z}
        r == CHOOSE q \in matches : TRUE
        open == Session(w.store, r) = r /\ w.store.rec[r].fault = "none"
        on == AssessName(w.live.snap[z].entity) = "on"
        bound == [Attach(w, r) EXCEPT !.live.bound[z] = r, !.live.kept = @ \ {r}]
    IN  IF w.live.phase = "idle" \/ z \notin DOMAIN w.live.snap THEN w
        ELSE IF Cardinality(matches) # 1 THEN Failed(w)
        ELSE IF w.live.bound[z] # None THEN w
        ELSE IF Foreign(w, r) THEN Failed(Detached(w, {r}))
        ELSE IF on /\ ~open
        THEN AddKey([bound EXCEPT !.live.ext = @ \cup {r}], r, ExternalKey) ELSE bound

(* A retained record that is not finished is watched as well. *)
Unfinished(w, r) ==
    LET rec == w.store.rec[r] IN
    /\ rec.life = "DELETE_PENDING" \/ rec.keys # {} \/ rec.owner # "none"
       \/ Session(w.store, r) # None
    /\ rec.applied # None /\ rec.status = "CONFIRMED"

Watch(w, r) ==
    IF w.live.phase = "idle" \/ r \notin Exist(w.store) THEN w
    ELSE IF r \in Attached(w.live) \/ ~Unfinished(w, r) THEN w
    ELSE IF Foreign(w, r) THEN Failed(w)
    ELSE [Attach(w, r) EXCEPT !.live.kept = @ \cup {r}]

Synchronize ==
    LET bound == FoldLeft(BindZone, Rebind(Now), ZoneOrder)
        all == FoldLeft(Watch, bound, [r \in Records |-> r])
    IN
    /\ live.phase = "sync"
    /\ Commit(IF live.moved THEN Superseded(Now)
              ELSE IF all.live.phase = "idle" THEN all
              ELSE [all EXCEPT !.live.phase = "finish"])
    /\ UNCHANGED <<config, world, left>>

(* Slip: every retained controller is let go. *)
RefreshLettingGo(w) ==
    Detached([w EXCEPT !.store.rec = [r \in Records |->
                IF r \in Exist(w.store) /\ @[r].life # "ACTIVE"
                THEN ReconcileRetained(@[r], Session(w.store, r) # None) ELSE @[r]]],
             w.live.kept)

(* Retained records are judged again; the finished ones lose their         *)
(* controller.  The slot manager is not told.                              *)
RefreshTombstones(w) ==
    LET data == [w.store EXCEPT !.rec = [r \in Records |->
                   IF r \in Exist(w.store) /\ @[r].life # "ACTIVE"
                   THEN ReconcileRetained(@[r], Session(w.store, r) # None) ELSE @[r]]]
        done == {r \in w.live.kept : LET rec == data.rec[r] IN
                   rec.life = "RETIRED" /\ rec.keys = {} /\ rec.owner = "none"}
    IN  Detached([w EXCEPT !.store = data], done)

(* Slip: what is not seen ON counts as OFF. *)
RereadTrusting(w, z) ==
    LET r == w.live.bound[z] IN
    IF r = None THEN w
    ELSE IF AssessName(w.live.snap[z].entity) # "on"
    THEN DropKey(DropKey(w, r, NotProvenOff), r, ExternalKey)
    ELSE IF Session(w.store, r) = None THEN AddKey(w, r, ExternalKey) ELSE w

(* The last look at every bound actuator. *)
Reread(w, z) ==
    LET r == w.live.bound[z]
        a == AssessName(w.live.snap[z].entity)
    IN  IF r = None THEN w
        ELSE IF a = "off" THEN DropKey(DropKey(w, r, NotProvenOff), r, ExternalKey)
        ELSE IF a # "on" THEN AddKey(w, r, NotProvenOff)
        ELSE IF Session(w.store, r) = None THEN AddKey(w, r, ExternalKey) ELSE w

Finish ==
    LET refreshed == RefreshTombstones(Now)
        reread == FoldLeft(Reread, refreshed, ZoneOrder)
    IN
    /\ live.phase = "finish"
    /\ Commit(IF live.moved THEN Superseded(refreshed)
              ELSE [reread EXCEPT !.live.phase = "idle", !.live.status = "clean"])
    /\ UNCHANGED <<config, world, left>>

-----------------------------------------------------------------------------
(* Acknowledgements. *)

(* An honest operator certifies that a removed actuator cannot flow. *)
Certifiable(r) ==
    LET rec == store.rec[r] IN
    /\ rec.life # "ACTIVE" /\ rec.valve # None /\ rec.status = "MISSING"
    /\ Assess(rec.valve) = "absent"
    /\ \A q \in Exist(store) \ {r} : ~(store.rec[q].life = "ACTIVE"
                                          /\ store.rec[q].valve = rec.valve)
    /\ rec.owner = "none" /\ rec.fault = "none" /\ Session(store, r) = None
    /\ r \notin live.ext

Certify(r) ==
    LET rec == store.rec[r]
        signed == RefreshTombstones([Now EXCEPT !.store.rec[r].ack = rec.valve])
    IN
    /\ r \in Exist(store) /\ rec.ack = None /\ Certifiable(r) /\ water[rec.valve] = "closed"
    /\ Commit([signed EXCEPT !.live.keys = StoreKeys(signed.store)])
    /\ UNCHANGED <<config, world, left>>

(* A fault is acknowledged through the record's controller, which writes   *)
(* its runtime (refused while its history is not the record's); or in the  *)
(* Store, for a retired record without one.                                *)
AcknowledgeFault(r) ==
    LET rec == store.rec[r]
        cleared == Persist(Now, r, None, "none")
        theirs == \E q \in Exist(store) \ {r} : /\ store.rec[q].history = rec.history
                                                /\ store.rec[q].life = "ACTIVE"
    IN
    /\ r \in Exist(store) /\ rec.fault # "none"
    /\ rec.fault = "OFF_TIMEOUT" \/ r \in Bound(live)
    /\ rec.incident = "none" /\ rec.status # "MISSING"
    /\ rec.keys = {} /\ rec.owner = "none" /\ Session(store, r) = None
    /\ \/ /\ r \in Attached(live) /\ Assess(rec.valve) = "off" /\ live.mem[r].home = rec.history
          /\ Commit([cleared EXCEPT !.ghost.overwritten = @ \/ theirs])
       \/ /\ r \notin Attached(live) /\ rec.life = "RETIRED"
          /\ Commit([Now EXCEPT !.store.rec[r].fault = "none"])
    /\ UNCHANGED <<config, world, left>>

-----------------------------------------------------------------------------

(* The process dies; the next one starts with nothing but the Store. *)
Crash ==
    /\ live' = Down
    /\ Spend("crash") /\ UNCHANGED <<config, world, store, ghost>>

NoStore == [rec |-> [r \in Records |-> NoRecord], hist |-> [r \in Records |-> NoHistory]]
LostStore(z) == [rec |-> [NoStore.rec EXCEPT ![1] = LostRecord(z, 1)],
                 hist |-> [NoStore.hist EXCEPT ![1] = LostHistory(1)]]

(* One zone is configured: just installed, or its Store was lost. *)
Init ==
    /\ registry \in [Valves -> Names]
    /\ \A v, u \in Valves : v # u => registry[v] # registry[u]
    /\ \E z \in Zones, v \in Valves :
         /\ config = [y \in Zones |-> IF y = z THEN registry[v] ELSE "unborn"]
         /\ store \in {NoStore, LostStore(z)}
    /\ water = [v \in Valves |-> "closed"] /\ seen = [v \in Valves |-> TRUE]
    /\ live = Down /\ left \in Budgets
    /\ ghost = [charged |-> {}, overwritten |-> FALSE]

ControllerStep == \/ \E z \in Zones : StartWater(z)
                  \/ \E r \in Records : EndWater(r) \/ OffFails(r)
ConfigStep == \E z \in Zones : Delete(z) \/ \E n \in Names : Configure(z, n)
RegistryStep == \E v \in Valves : RemoveRow(v) \/ \E n \in Names : RestoreRow(v, n) \/ RenameRow(v, n)
DeviceStep == \E v \in Valves : Turned(v) \/ Flicker(v)
OperatorStep == \E r \in Records : Certify(r) \/ AcknowledgeFault(r)

(* Nothing is left to do, and no input is left. *)
Settled ==
    /\ live.phase = "idle" /\ live.status = "clean"
    /\ \A r \in Attached(live) : Session(store, r) # r \/ store.rec[r].fault # "none"
    /\ UNCHANGED vars

Next == \/ Begin \/ Plan \/ Synchronize \/ Finish
        \/ ControllerStep \/ ConfigStep \/ RegistryStep \/ DeviceStep \/ OperatorStep
        \/ Crash \/ Settled

Spec == Init /\ [][Next]_vars

-----------------------------------------------------------------------------
(* Properties. *)

Optional(S) == S \cup {None}

(* Type invariant: every record and history of the Store and every field   *)
(* of the runtime holds values of its kind.                                *)
TypeOK ==
    /\ config \in [Zones -> Names \cup {"unborn", "deleted"}]
    /\ registry \in [Valves -> Optional(Names)]
    /\ water \in [Valves -> {"closed", "ours", "theirs"}] /\ seen \in [Valves -> BOOLEAN]
    /\ \A r \in Exist(store) : LET rec == store.rec[r] IN
         /\ rec.zone \in Zones /\ rec.active \in Optional(Zones) /\ rec.history \in Records
         /\ rec.life \in {"ACTIVE", "DELETE_PENDING", "RETIRED"}
         /\ rec.valve \in Optional(Valves) /\ rec.name \in Optional(Names)
         /\ rec.keys \subseteq {NotProvenOff, OffUnconfirmed, ExternalKey}
         /\ rec.owner \in {"none", "INTEGRATION", "EXTERNAL"}
         /\ rec.fault \in {"none", "OFF_TIMEOUT", "RESTORED"} /\ rec.ack \in Optional(Valves)
    /\ \A h \in Records : store.hist[h] # NoHistory =>
         /\ store.hist[h].active \in Optional(Zones) /\ store.hist[h].session \in Optional(Records)
         /\ store.hist[h].spent \in Nat
    /\ live.phase \in {"idle", "plan", "sync", "finish"}
    /\ live.status \in {"dirty", "clean", "failed"}
    /\ live.bound \in [Zones -> Optional(Records)] /\ live.kept \subseteq Records

(* A registry id never gets a second record, whatever zones come to use it *)
(* (runtime.py, _plan_reconciled_store: one canonical record per durable   *)
(* actuator).                                                              *)
OneRecordPerValve ==
    \A r, q \in Exist(store) :
      store.rec[r].valve # None /\ store.rec[r].valve = store.rec[q].valve => r = q

(* Water that runs because the integration opened the valve stays the open *)
(* session or the OFF-unconfirmed hazard of that valve's record, through   *)
(* replacement, deletion, re-adding and crashes.                           *)
WaterRecorded ==
    \A v \in Valves : water[v] = "ours" =>
      \E r \in Exist(store) :
        /\ store.rec[r].valve = v
        /\ Session(store, r) = r \/ OffUnconfirmed \in store.rec[r].keys

(* The integration never has two valves open at once, also when the zone   *)
(* that opened the first has got another valve since.                      *)
OneFlow == Cardinality({v \in Valves : water[v] = "ours"}) <= 1

(* The day's total that limits a zone covers every pulse that its valve    *)
(* gave, for whatever zone, and every pulse that the zone was given, by    *)
(* whatever valve (models.py, merge_zone_history_continuity; runtime.py,   *)
(* _plan_reconciled_store).  Once a retained controller has written over   *)
(* another zone's runtime this no longer holds.                            *)
BudgetFollows ==
    ~ghost.overwritten =>
      \A r \in Exist(store) : store.rec[r].life = "ACTIVE" =>
        store.hist[store.rec[r].history].spent
          >= Cardinality({c \in ghost.charged : c[1] = r \/ c[2] = store.rec[r].zone})

(* A record keeps its hazard keys until its valve is seen OFF, an operator *)
(* has certified it, or the record has become another valve's.             *)
KeysStay ==
    [][\A r \in Exist(store), v \in Valves :
         LET was == store.rec[r]
             is == store'.rec[r]
         IN  was.valve = v /\ is.valve = v /\ ~(was.keys \subseteq is.keys) =>
               Assess(v)' = "off" \/ (registry'[v] = None /\ is.ack = v)]_vars

(* An entry that has settled watches every open session whose valve it     *)
(* could identify, on behalf of its zone or of nobody any more.            *)
SessionsWatched ==
    live.phase = "idle" /\ live.status = "clean" =>
      \A r \in Exist(store) :
        Session(store, r) = r /\ store.rec[r].status = "CONFIRMED" => r \in Attached(live)

(* The hazards of a valve leave the Store only with that valve's own       *)
(* evidence.                                                               *)
HazardsKeepTheirValve ==
    [][\A v \in Valves :
         LET Marked(data) == \E r \in Exist(data) : data.rec[r].valve = v /\ data.rec[r].keys # {}
         IN  Marked(store) /\ ~Marked(store') =>
               Assess(v)' = "off"
               \/ \E r \in Exist(store') : store'.rec[r].valve = v /\ store'.rec[r].ack = v]_vars
=============================================================================
