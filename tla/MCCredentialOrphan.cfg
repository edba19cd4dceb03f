SPECIFICATION Spec
CONSTANTS
  w1 = w1
  w2 = w2
  i1 = i1
  i2 = i2
  c1 = c1
  c2 = c2
  c3 = c3
  NoUser = NoUser
  NoIntegration = NoIntegration
  NoCredential = NoCredential
  NoTime = NoTime
  Users = {1, 2}
  Integrations = {i1}
  Credentials = {c1, c2}
  Workers = {w1, w2}
  MaxNow = 0
  MaxLifetime = 1
  UsageInterval = 1
SYMMETRY MCSymmetry
CHECK_DEADLOCK FALSE
INVARIANTS
  NoLiveCredentialWithoutCreator
