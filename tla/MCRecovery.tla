----------------------------- MODULE MCRecovery -----------------------------
(* One or two zones that are started, stopped and crashed. *)
EXTENDS Recovery

CONSTANTS z1, z2

OneZone == {z1}
TwoZones == {z1, z2}
Symmetry == Permutations(TwoZones)

Dry == {0}
Enable == {Event("EnableRequested")}

Inputs(time, start, stop, crash, failure, report, disturb, damage, command) ==
    [time |-> time, start |-> start, stop |-> stop, crash |-> crash, failure |-> failure,
     report |-> report, disturb |-> disturb, damage |-> damage, command |-> command]

(* Two crashes; one stop or reload; lost writes; and with a lost file. *)
Crashes        == {Inputs(3, 3, 0, 2, 0, 1, 1, 0, 0)}
LostWrites     == {Inputs(0, 2, 0, 1, 1, 1, 1, 0, 0)}
CrashesOrStops == Crashes \cup {Inputs(2, 2, 1, 0, 0, 1, 1, 0, 0)} \cup LostWrites
StoreFailures  == {Inputs(1, 2, 0, 1, 1, 2, 0, 1, 1)}
=============================================================================
