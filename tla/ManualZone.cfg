CONSTANTS
  z1 = z1
  z2 = z2
  NoZone = NoZone
  Zones <- OneZone
  PulseDuration = 1
  SoakDuration = 1
  MaxCycles = 3
  MaxSessionRuntime = 3
  MaxDailyRuntime = 2
  MinSessionInterval = 2
  SensorMaxAge = 2
  ActuatorConfirmTimeout = 1
  ManualMaxDuration = 1
  StartThreshold = 1
  TargetThreshold = 2
  OffTotalAttempts = 2
  MaxTime = 3
  InboxBound = 2
  Budget <- TwoCommands
  Commands <- UserCommands
  Observations <- DryOnly
  Disturbances = {"turnOn", "turnOff", "vanish", "move", "onRaises", "deaf"}
  SlowCalls = {"on"}
SPECIFICATION Spec
INVARIANTS WaterAttended ClosedMeansOff
PROPERTIES FirstReasonWins
