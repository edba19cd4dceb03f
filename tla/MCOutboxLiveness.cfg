SPECIFICATION FairSpec
CONSTANTS
  a = a
  b = b
  m1 = m1
  m2 = m2
  Messages = {m1}
  Instances = {a, b}
  BatchSize = 1
  MaxAttempts = 3
  MaxAge = 9
  Stale = 1
  BaseDelay = 1
  MaxDelay = 2
  Window = 11
  Patience = 1
  LastEnqueue = 0
  MaxNow = 9
  MaxFaults = 2
  NoTime = NoTime
  SettleBy = 2
  LastFault = 3
CHECK_DEADLOCK FALSE
PROPERTIES
  EveryMessageMailed
