SPECIFICATION Spec
CONSTANTS
  Conns = {c1, c2, c3}
  Players = {p1, p2}
  NoPlayer = NoPlayer
INVARIANTS
  TypeOK
  RegistryKnowsEveryTab
PROPERTIES
  OneTabKeepsPresence
  SilentConnectionEnds
