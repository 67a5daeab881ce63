CONSTANTS
  z1 = z1
  z2 = z2
  NoZone = NoZone
  Zones <- OneZone
  PulseDuration = 1
  SoakDuration = 1
  MaxCycles = 3
  MaxSessionRuntime = 3
  MaxDailyRuntime = 2
  MinSessionInterval = 2
  SensorMaxAge = 2
  ActuatorConfirmTimeout = 1
  ManualMaxDuration = 1
  StartThreshold = 1
  TargetThreshold = 2
  OffTotalAttempts = 2
  MaxTime = 4
  InboxBound = 1
  Budget <- ReportsAndAScan
  Commands <- NoCommand
  Observations <- AnyReading
  Disturbances = {"turnOff", "vanish", "deaf"}
  SlowCalls = {}
SPECIFICATION Spec
INVARIANTS TypeOK FreshWhileWatering AccountingHonest
PROPERTIES BudgetCoversFlow
