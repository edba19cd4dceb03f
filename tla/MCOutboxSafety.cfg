SPECIFICATION Spec
CONSTANTS
  a = a
  b = b
  m1 = m1
  m2 = m2
  Messages = {m1, m2}
  Instances = {a, b}
  BatchSize = 1
  MaxAttempts = 3
  MaxAge = 3
  Stale = 1
  BaseDelay = 1
  MaxDelay = 2
  Window = 5
  Patience = 1
  LastEnqueue = 1
  MaxNow = 6
  MaxFaults = 2
  NoTime = NoTime
  SettleBy = 9
  LastFault = 9
SYMMETRY MCSymmetry
CHECK_DEADLOCK FALSE
INVARIANTS
  TypeOK
  MailedAtMostOnce
  ClearedOnlyIfMailed
