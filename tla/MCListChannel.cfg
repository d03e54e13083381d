SPECIFICATION Spec
CONSTANTS
  s1 = s1
  s2 = s2
  r1 = r1
  r2 = r2
  Threads = {s1, s2, r1, r2}
  Senders = {s1, s2}
  Receivers = {r1, r2}
  Wakers = {"receivers"}
  LAP = 3
  RecvModes = {"try"}
  MaxSends = 2
  MaxRecvs = 3
SYMMETRY Symmetry
INVARIANTS
  BlocksAreLive
  NothingLeaks
  LenIsExact
PROPERTIES
  ImplementsChannel
