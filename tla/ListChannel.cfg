SPECIFICATION FairSpec
CONSTANTS
  Threads = {s1, s2, r1}
  Senders = {s1, s2}
  Receivers = {r1}
  Wakers = {"receivers"}
  LAP = 2
  RecvModes = {"block", "timed"}
  MaxSends = 1
  MaxRecvs = 2
PROPERTIES
  WaitsEnd
