\* A page that has given up or is closed stays so.
CHECK_DEADLOCK FALSE
SPECIFICATION LinkSpec
CONSTANTS
  Tokens = {t1, t2, t3}
  NoToken = NoToken
  MaxRetries = 1
  MaxFaults = 2
  MaxInFlight = 2
  Strays <- MCStrays
INVARIANTS
  TypeOK
  
PROPERTIES
  PageGetsIn
