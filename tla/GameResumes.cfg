SPECIFICATION PageSpec
CONSTANTS
  Players = {p1, p2}
  NoPlayer = NoPlayer
  Rooms = {r1}
  NoRoom = NoRoom
  MaxGames = 1
  Watched = {p1}
INVARIANT
  GameResumes
