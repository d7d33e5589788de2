SPECIFICATION Spec
CONSTANTS
  Rooms = {r1, r2}
  MaxGames = 4
  MaxFaults = 3
SYMMETRY RoomSymmetry
CHECK_DEADLOCK FALSE
INVARIANTS
  TypeOK
  AnnouncedIsDurable
PROPERTIES
  FileOnlyGrows
  FlushIsComplete
