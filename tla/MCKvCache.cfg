\* Two rows of two heads, two chunks of up to five positions: rings wrap around, and
\* the second chunk starts on the vectors of the first.
CONSTANTS
  Shapes <- MCShapes
  BatchSize = 2
  KvHeads = 2
  Pad = 1
  Tile = 2
  MaxSteps = 5
  Chunks = 2
SPECIFICATION KvSpec
INVARIANTS
  ReadsOwnWindow
  InsideAllocation
