SPECIFICATION Spec
CONSTANTS
  Conns = {c1}
  Players = {p1}
  NoPlayer = NoPlayer

INVARIANT
  PresenceIsTruthful
