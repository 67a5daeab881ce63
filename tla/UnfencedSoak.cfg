CONSTANTS
  z1 = z1
  z2 = z2
  NoZone = NoZone
  Zones <- TwoZones
  PulseDuration = 1
  SoakDuration = 1
  MaxCycles = 3
  MaxSessionRuntime = 3
  MaxDailyRuntime = 2
  MinSessionInterval = 2
  SensorMaxAge = 2
  ActuatorConfirmTimeout = 1
  ManualMaxDuration = 1
  StartThreshold = 1
  TargetThreshold = 2
  OffTotalAttempts = 2
  MaxTime = 1
  InboxBound = 2
  Budget <- FenceFails
  Commands <- NoCommand
  Observations <- DryOnly
  Disturbances = {"storeFails", "turnOn"}
  SlowCalls = {}
SPECIFICATION Spec
PROPERTY SerializedFlow
SYMMETRY Symmetry
