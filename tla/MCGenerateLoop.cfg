CONSTANTS
  EP = 2
  NumReqs = 4
  ForwardWaits = 1
  Workloads <- MCWorkloads
SPECIFICATION FairSpec
INVARIANTS
  TypeOK
  LeaveTogether
  OutputsWellFormed
  CountMatchesOutput
PROPERTIES
  FrozenWhileRead
  ImplementsDecode
  Terminates
