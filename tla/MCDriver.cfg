CONSTANTS
  Workloads <- MCWorkloads
  Default120b = 1
  Default20b = 2
  Cap120b = 2
  Cap20b = 3
  SeqLen = 4
SPECIFICATION Spec
INVARIANTS
  ServedOnce
  ExpertsCovered
  MemoryHeld
PROPERTIES
  WorkloadsThatFitFinish
