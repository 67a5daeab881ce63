CONSTANTS
  z1 = z1
  z2 = z2
  NoZone = NoZone
  Zones <- OneZone
  PulseDuration = 1
  SoakDuration = 1
  MaxCycles = 3
  MaxSessionRuntime = 3
  MaxDailyRuntime = 2
  MinSessionInterval = 2
  SensorMaxAge = 2
  ActuatorConfirmTimeout = 1
  ManualMaxDuration = 1
  StartThreshold = 1
  TargetThreshold = 2
  OffTotalAttempts = 2
  MaxTime = 4
  InboxBound = 2
  Budget <- OneOfEach
  Commands <- Terminations
  Observations <- DryOnly
  Disturbances = {"deaf", "vanish", "onRaises"}
  SlowCalls = {}
SPECIFICATION FairSpec
PROPERTIES TerminationCompletes WaterStops
