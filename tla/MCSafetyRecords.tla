-------------------------- MODULE MCSafetyRecords --------------------------
(* Bounded instances of SafetyRecords. *)
EXTENDS SafetyRecords

CONSTANTS z1, z2, v1, v2, n1, n2, n3

BothZones == <<z1, z2>>
Symmetry == Permutations({v1, v2}) \cup Permutations({n1, n2, n3})

(* Kinds of input: subentry changes, registry changes, valves turned or    *)
(* unavailable, pulses, crashes.                                           *)
Inputs(config_, registry_, device, start, crash) ==
    [config |-> config_, registry |-> registry_, device |-> device, start |-> start,
     crash |-> crash]

(* Each kind of input meets each other one at least once. *)
Histories ==
    {Inputs(3, 0, 0, 1, 0), Inputs(2, 0, 1, 1, 0), Inputs(2, 1, 0, 1, 0),
     Inputs(2, 0, 0, 2, 1), Inputs(1, 2, 0, 1, 0), Inputs(1, 0, 2, 1, 0),
     Inputs(1, 1, 0, 1, 1), Inputs(1, 0, 1, 1, 1)}
=============================================================================
