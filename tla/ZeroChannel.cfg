SPECIFICATION FairSpec
CHECK_DEADLOCK FALSE
CONSTANTS
  Threads = {t1, t2, t3}
  Wakers = {"senders", "receivers"}
  First = t1
  Modes = {"try", "block", "timed"}
  MaxCalls = 1
INVARIANTS
  NothingDangles
  NoMissedPartner
PROPERTIES
  ImplementsRendezvous
  WaitsEnd
