SPECIFICATION Spec
CONSTANTS
  PlayerX = px
  PlayerO = po
  Cells = {a, b}
  ReadyIds = {i1, i2}
  MoveIds = {i3}
  RematchIds = {i5, i6}
  NoCommand = NoCommand
  MaxGames = 3
  MaxFaults = 1
SYMMETRY IdSymmetry
CHECK_DEADLOCK FALSE
INVARIANTS
  TypeOK
  AppliedOncePerWindow
  MoveMadeOnce
PROPERTY AnswerStands
