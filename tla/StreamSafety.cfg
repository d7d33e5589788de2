SPECIFICATION Spec
CONSTANTS
  BufferSize = 3
  MaxMoves = 2
  MaxGames = 2
  Unlucky = {"X"}
  MaxDrops = 1
  MaxSeq = 5
CHECK_DEADLOCK FALSE
INVARIANTS
  TypeOK
  
  
  
PROPERTY
  ViewNeverGoesBack
