SPECIFICATION Spec
CONSTANTS
  Threads = {t1, t2, t3}
  MaxCalls = 1
INVARIANT IdleStatesAreUnused
