SPECIFICATION FairSpec
CONSTANTS
  Threads = {t1, t2, t3}
  MaxCalls = 4
  MAX_READERS = 2
  WakeReports = {TRUE, FALSE}
INVARIANTS CountMatchesOwners AssertionsHold SleepersAreServed
PROPERTIES EveryCallReturns ImplementsRwLock
