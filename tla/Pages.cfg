SPECIFICATION PageSpec
CONSTANTS
  Players = {p1, p2}
  NoPlayer = NoPlayer
  Rooms = {r1}
  NoRoom = NoRoom
  MaxGames = 2
  Watched = {p1}
VIEW PageView
INVARIANTS
  PageTypeOK
  
PROPERTIES
  BackInTimeKeepsGame
