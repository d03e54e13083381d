SPECIFICATION FairLockSpec
CONSTANTS
  Threads = {t1, t2, t3}
  MaxLocks = 2
  CountMAX = 2
  MaxCalls = 6
INVARIANTS SleepersAreCovered FieldsAreGuarded
PROPERTIES LockReturns ImplementsMutex
