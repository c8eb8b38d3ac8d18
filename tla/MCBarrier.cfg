\* Four threads, four waits each, over a phase that wraps after two values.
CONSTANTS
  Threads = {t1, t2, t3, t4}
  Waits = 4
  PhaseWidth = 2
SPECIFICATION FairBarrier
INVARIANTS
  TypeOK
  SpinnerNotOvertaken
PROPERTIES
  ImplementsRendezvous
  EveryoneReturns
