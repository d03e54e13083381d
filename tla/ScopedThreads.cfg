SPECIFICATION FairScopeSpec
CONSTANTS
  Main = m
  Scoped = {t1, t2}
  Unparkers = {m, t1, t2}
  MaxParks = 12
  MaxUnparks = 3
  MaxUserParks = 1
  StateMAX = 255
INVARIANTS
  ParkedOnlyInside
  SleeperIsCovered
  ScopeOutlivesThreads
  ResultsSurface
PROPERTIES
  ImplementsParkToken
  ScopeReturns
