SPECIFICATION Spec
CONSTANTS
  Players = {p1, p2}
  NoPlayer = NoPlayer
  Rooms = {r1}
  NoRoom = NoRoom
  MaxGames = 2
INVARIANTS
  TypeOK
  ActiveGameSeated
  SlotsInOrder
  SessionRoomSeated
PROPERTIES
  ImplementsSeries
  GameReplacedByConsent
  
  
