SPECIFICATION Spec
CONSTANTS
  s1 = s1
  s2 = s2
  r1 = r1
  Threads = {s1, s2, r1}
  Senders = {s1, s2}
  Receivers = {r1}
  Wakers = {"senders", "receivers"}
  cap = 2
  SendModes = {"timed"}
  RecvModes = {"timed"}
  MaxSends = 2
  MaxRecvs = 2
SYMMETRY Symmetry
PROPERTIES
  NotReadyIsTrue
  ImplementsChannel
INVARIANTS
  SlotsAreExclusive
  NothingLeaks
