SPECIFICATION FairCellSpec
CONSTANTS
  Threads = {t1, t2, t3}
  MaxCalls = 1
INVARIANTS ReturnsInitialized SleepersAreCovered ExclusiveStateValid CellMatchesOnce
PROPERTIES OutcomeReachesWaiters ImplementsOnce
