SPECIFICATION FairSpec
CONSTANTS
  i1 = i1
  food = food
  cash = cash
  w1 = w1
  w2 = w2
  t1 = t1
  t2 = t2
  k1 = k1
  k2 = k2
  e1 = e1
  NoCategory = NoCategory
  NoSource = NoSource
  NoKey = NoKey
  NoExt = NoExt
  NoCommand = NoCommand
  NoTx = NoTx
  NoRow = NoRow
  NoRecord = NoRecord
  Workers = {w1, w2}
  ClientRequests <- MCRowRequests
  Integrations = {i1}
  TxIds = {t1, t2}
  Keys = {k1, k2}
  ExtIds = {e1}
  Principals <- MCPrincipalsTwo
  Commands <- MCCommandsTwo
  Categories <- MCCategories
  Sources <- MCSources
  Types <- MCTypes
  CategoryType <- MCCategoryType
  LegacyRecords <- MCNoLegacy
  MaxVersion = 4
  MaxNow = 0
  Retention = 1
  Lease = 1
CHECK_DEADLOCK FALSE
INVARIANTS
  AnswersAuthorized
  LocksExclusive
PROPERTIES
  VersionDiscipline
  NoLostUpdate
  EveryRequestEnds
