SPECIFICATION FairSpec
CONSTANTS
  Threads = {t1, t2, t3}
  MaxCalls = 2
  MaxSpurious = 1
  Wrap = 5
INVARIANTS
  NotificationsRelease
PROPERTIES
  NotifiedWaitReturns
