CONSTANTS
  z1 = z1
  z2 = z2
  z3 = z3
  k1 = k1
  k2 = k2
  NoZone = NoZone
  Zones <- ZonesValue
  Keys <- KeysValue
SPECIFICATION Spec
SYMMETRY Symmetry
INVARIANTS TypeOK OneLiveRequest NoMissedGrant FailClosed
PROPERTIES GrantsOnlyUnfenced NoOvertaking SharesWater
