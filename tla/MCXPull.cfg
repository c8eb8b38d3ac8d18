\* Three ranks; the sizes of the other builds are in MCXPull.
CONSTANTS
  EP = 3
  Layers = 3
  Steps = 2
  Slots = 128
  AggBuffers = 2
  CopyStreams = 4
  Devices <- MCRanks
  StreamNames <- MCStreams
  Events <- MCEvents
  Places <- MCPlaces
  Builds <- MCBuilds
  Program <- MCProgram
SPECIFICATION HostFirstSpec
INVARIANTS
  Ordered
  WaitsMatch
