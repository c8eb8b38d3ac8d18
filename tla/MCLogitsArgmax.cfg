\* Logits of two signs around a chain of near values; blocks of two waves with one
\* column each; groups of two row blocks, so that some blocks have no row.
CONSTANTS
  Shapes <- MCShapes
  G = 2
  WavesN = 2
  WN = 1
  Magnitude = 8
  Tolerance = 4
SPECIFICATION Spec
INVARIANTS
  ArgmaxReproducible
