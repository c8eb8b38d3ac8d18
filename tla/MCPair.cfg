\* A pair of ranks in both builds, two steps of three layers.  A state in which nothing can
\* go on violates Completes, so TLC is left to find it there.
CONSTANTS
  EP = 2
  Layers = 3
  Steps = 2
  Slots = 128
  AggBuffers = 2
  Devices <- MCRanks
  StreamNames <- MCStreams
  Events <- MCEvents
  Places <- MCPlaces
  Builds <- MCBuilds
  Program <- MCProgram
SPECIFICATION FairSpec
INVARIANTS
  Ordered
PROPERTIES
  Completes
CHECK_DEADLOCK FALSE
