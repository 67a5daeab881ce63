---------------------------- MODULE WaterShare ----------------------------
(***************************************************************************)
(* What the zones of one entry may rely on when they share one water       *)
(* supply: at most one holds it, nobody is given it while a hazard is on   *)
(* record or admission is closed, and it is never kept from someone who    *)
(* waits when nothing forbids it.  How requests are queued, how blockers   *)
(* reach the Store and which lock guards what is left to SlotManager,      *)
(* which implements this module.                                           *)
(***************************************************************************)
CONSTANTS Zones, NoZone, Keys

VARIABLES
    holder,     \* the zone that may water, or NoZone
    waiting,    \* the zones that want to
    hazards,    \* reasons why nobody may be given the water
    open        \* whether the integration hands out water at all

vars == <<holder, waiting, hazards, open>>

Init == holder = NoZone /\ waiting = {} /\ hazards = {} /\ open = FALSE

(* h holds the water and w wait: the water goes to someone if it can. *)
Settle(h, w) ==
    IF h = NoZone /\ hazards' = {} /\ open' /\ w # {}
    THEN \E z \in w : holder' = z /\ waiting' = w \ {z}
    ELSE holder' = h /\ waiting' = w

Ask(z) ==
    /\ z # holder
    /\ UNCHANGED <<hazards, open>>
    /\ Settle(holder, waiting \cup {z})

Withdraw(z) ==
    /\ waiting' = waiting \ {z}
    /\ UNCHANGED <<holder, hazards, open>>

GiveBack ==
    /\ holder # NoZone
    /\ UNCHANGED <<hazards, open>>
    /\ Settle(NoZone, waiting)

TakeTurns ==
    /\ holder # NoZone
    /\ UNCHANGED <<hazards, open>>
    /\ Settle(NoZone, waiting \cup {holder})

Arise(k) ==
    /\ hazards' = hazards \cup {k}
    /\ UNCHANGED <<holder, waiting, open>>

Subside(k) ==
    /\ hazards' = hazards \ {k}
    /\ UNCHANGED open
    /\ Settle(holder, waiting)

SetAdmission ==
    /\ open' \in BOOLEAN
    /\ UNCHANGED hazards
    /\ Settle(holder, waiting)

CloseForGood ==
    /\ open' = FALSE /\ waiting' = {}
    /\ UNCHANGED <<holder, hazards>>

Next ==
    \/ \E z \in Zones : Ask(z) \/ Withdraw(z)
    \/ GiveBack \/ TakeTurns
    \/ \E k \in Keys : Arise(k) \/ Subside(k)
    \/ SetAdmission \/ CloseForGood

Spec == Init /\ [][Next]_vars
=============================================================================
