CONSTANTS
  z1 = z1
  z2 = z2
  NoZone = NoZone
  Zones <- TwoZones
  PulseDuration = 1
  SoakDuration = 1
  MaxCycles = 3
  MaxSessionRuntime = 3
  MaxDailyRuntime = 2
  MinSessionInterval = 2
  SensorMaxAge = 2
  ActuatorConfirmTimeout = 1
  ManualMaxDuration = 1
  StartThreshold = 1
  TargetThreshold = 2
  OffTotalAttempts = 2
  MaxTime = 2
  InboxBound = 2
  Budget <- OneFailure
  Commands <- ManualOnly
  Observations <- DryOnly
  Disturbances = {"storeFails", "turnOn", "turnOff", "vanish", "barrier", "onRaises", "deaf"}
  SlowCalls = {"on"}
SPECIFICATION Spec
INVARIANT FlowFenced
PROPERTY NoOnIntoKnownFlow
SYMMETRY Symmetry
