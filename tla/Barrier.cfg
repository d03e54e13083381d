SPECIFICATION BarrierFairSpec
CONSTANTS
  Threads = {t1, t2, t3}
  MaxCalls = 3
  num_threads = 2
  MaxSpurious = 2
  Wrap = 8
INVARIANTS CountMatchesArrived 
PROPERTIES CompletedWaitReturns
