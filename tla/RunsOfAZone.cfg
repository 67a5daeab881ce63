CONSTANTS
  z1 = z1
  z2 = z2
  NoZone = NoZone
  Zones <- OneZone
  PulseDuration = 1
  SoakDuration = 1
  MaxCycles = 2
  MaxSessionRuntime = 2
  MaxDailyRuntime = 3
  MinSessionInterval = 1
  SensorMaxAge = 2
  ActuatorConfirmTimeout = 1
  ManualMaxDuration = 1
  StartThreshold = 1
  TargetThreshold = 2
  ShutdownBudget = 1
  Readings <- Dry
  Commands <- Enable
  Disturbances = {"turnOn", "turnOff", "vanish", "deaf"}
  Budgets <- CrashesOrStops
SPECIFICATION FairSpec
INVARIANTS TypeOK HazardOnDisk AccountingDurable CleanMeansOff
PROPERTIES SoakSurvivesOnlyCleanStop ShutdownEnds
