SPECIFICATION Spec
CONSTANTS
  Players = {alice, bob, carol}
  PlayerX = alice
  PlayerO = bob
  Coords <- MCCoords
  Openings <- MCOpenings
  alice = alice
  bob = bob
  carol = carol
INVARIANTS
  TypeOK
  BoardDerivableFromHistory
  VerdictMatchesBoard
  AcceptsExactlyLegalMoves
PROPERTY
  ImplementsRules
