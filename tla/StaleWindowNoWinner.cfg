SPECIFICATION Spec
CONSTANTS
  Players = {p1, p2, p3}
  NoPlayer = NoPlayer
  Rooms = {r1}
  NoRoom = NoRoom
  MaxGames = 2
SYMMETRY PlayerSymmetry
INVARIANT
  TerminalForfeitHasWinner
