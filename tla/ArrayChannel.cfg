SPECIFICATION FairSpec
CONSTANTS
  Threads = {s1, r1, r2}
  Senders = {s1}
  Receivers = {r1, r2}
  Wakers = {"senders", "receivers"}
  cap = 1
  SendModes = {"block"}
  RecvModes = {"block", "timed"}
  MaxSends = 2
  MaxRecvs = 1
INVARIANT NoLostWakeup
PROPERTIES
  DisconnectEndsCalls
