--------------------------- MODULE MCSlotManager ---------------------------
(* The slot manager with three zones and two blocker keys. *)
EXTENDS SlotManager, TLC

CONSTANTS z1, z2, z3, k1, k2

ZonesValue == {z1, z2, z3}
KeysValue == {k1, k2}

(* Zones are interchangeable to the slot manager, and so are keys. *)
Symmetry == Permutations(ZonesValue) \cup Permutations(KeysValue)
=============================================================================
