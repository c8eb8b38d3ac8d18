\* Two ranks of two slots and two layers, without room to borrow, on the schedule
\* of the build: moves at the start of steps 40 and 140, each planned from the 32
\* steps before it.
CONSTANTS
  EP = 2
  Epd = 2
  MaxMoves = 8
  Layers = 2
  MaxSteps = 142
  At = 40
  Period = 100
  Window = 32
  TileChoices = {0, 1}
  BorrowRoom = 0
SPECIFICATION Spec
INVARIANTS
  RightExperts
  NoExpertLost
  MovesPrepared
