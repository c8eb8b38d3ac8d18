\* Three ranks of two rows and two experts, at most three rows not finished; blocks
\* of two rows, so that an expert with three pairs has a block that is not full; one
\* lane, so that a list takes two passes.
CONSTANTS
  EP = 3
  BatchSize = 2
  Epd = 2
  BM = 2
  Lanes = 1
  MaxLive = 3
  TopkChoices <- MCTopkChoices
SPECIFICATION Spec
INVARIANTS
  ListsAgree
  PairsPlacedOnce
  SumsReproducible
