\* Plans for every table of 0, 1 or 3 tiles of three ranks with three slots, at most
\* two swaps; texts of up to four bytes, digits and letters.
CONSTANTS
  EP = 3
  Epd = 3
  MaxMoves = 4
  LoadChoices = {0, 1, 3}
  HexByte <- MCHexByte
  Bytes = {48, 97, 98}
  MaxText = 4
  Merges <- MCMerges
  One = 6
  VocabSizes = {2, 3, 4}
  MixtureExperts = 4
  MixtureScores = {0, 1, 2}
  EpsInverse = 10
  NegInf <- MCNegInf
  MaxBlock = 1024
  RouterScores <- MCRouterScores
  ModelSizes <- MCModelSizes
SPECIFICATION AlgSpec
INVARIANTS
  PlanSound
  EncodingFaithful
  EncodesByRank
  NucleusIsSmallest
  MixtureIsTopK
  RouterPicksTop
  UploadFaithful
