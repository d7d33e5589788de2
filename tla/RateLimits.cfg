SPECIFICATION Spec
CONSTANTS
  Keys = {k1, k2, k3}
  Connections = {c1}
  WindowMs = 2
  MaxPerWindow = 1
  PruneThreshold = 1
  RateWindowMs = 2
  RateMaxMsgs = 1
  MaxTime = 4
  MaxRefused = 2
SYMMETRY KeySymmetry
CHECK_DEADLOCK FALSE
INVARIANTS
  TypeOK
  BurstIsBounded
PROPERTIES
  RefusalsAreFair
  MapIsBounded
