\* Every pipeline with up to MaxTiles tiles, waves in any order between barriers;
\* k ranges of up to 5 * 9 groups of 8 elements, in up to 8 splits.
SPECIFICATION BlockSpec
CONSTANTS
  WaveCount = 3
  MaxTiles = 5
  MaxGroups = 9
INVARIANTS
  SumsEachTileOnce
  SplitsCoverK
CHECK_DEADLOCK TRUE
