------------------------- MODULE MCZoneControllers -------------------------
(* One or two zone controllers, with the inputs each run is about. *)
EXTENDS ZoneControllers

CONSTANTS z1, z2

OneZone == {z1}
TwoZones == {z1, z2}

(* The controllers are interchangeable. *)
Symmetry == Permutations(TwoZones)

(* Thresholds are 1 and 2, so a reading is dry or at its target. *)
Dry     == [class |-> "VALID", value |-> 0]
Wet     == [class |-> "VALID", value |-> 2]
Invalid == [class |-> "INVALID", value |-> 0]
Missing == [class |-> "UNAVAILABLE", value |-> 0]

DryOnly    == {Dry}
AnyReading == {Dry, Wet, Invalid, Missing}

NoCommand    == {}
ManualOnly   == {Manual(1)}
ManualEnable == {Manual(1), Event("DisableRequested"), Event("EnableRequested")}
UserCommands == ManualEnable \cup {Event("StopRequested"), Event("ClearFaultRequested")}
Terminations ==
    {Manual(1), Event("StopRequested"), Event("DisableRequested"),
     Event("HomeAssistantShutdown"), Event("ConfigEntryReload"),
     Event("ConfigChangedPrepare"), Event("AutoEvaluate"),
     [kind |-> "ConfigurationInvalid", atSetup |-> FALSE]}

Inputs(command, report, scan, disturb, failure) ==
    [command |-> command, report |-> report, scan |-> scan, disturb |-> disturb,
     failure |-> failure]

ReportsAndAScan == Inputs(0, 2, 1, 1, 0)
TwoCommands     == Inputs(2, 0, 0, 2, 0)
OneFailure      == Inputs(2, 0, 0, 1, 1)
OneOfEach       == Inputs(1, 1, 0, 1, 0)
FenceFails      == Inputs(0, 2, 0, 1, 1)
=============================================================================
