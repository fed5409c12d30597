CONSTANTS
  k1 = k1
  k2 = k2
  v1 = v1
  NoValue = NoValue
  Keys = {k1, k2}
  Values = {v1}
  Watchers = {w1}
  Ranges <- MCRanges
  Txns <- MCAllTxns
  RetainedRevisions = 2
  MaxRevision = 3
  MaxAhead = 1
  InformerRevs = 4
  Endpoints = {p}
  ProxyChanges = 3
  ItemKeys = {k1, k2}
  Objs = {"x", "y", "z"}
  NoObj = NoObj
  IndexNames = {"n", "m"}
  IndexValues = {1, 2}
  ValuesOf <- MCValuesOf
  Failing <- MCFailing
  RevOf <- MCRevOf
  NoRev = 0
  ListRevs = {1}
  FifoKeys = {"a", "b", "c"}
  Poppers = {"p", "q"}
  Batches <- MCBatches
  MaxQueued = 4
SPECIFICATION WatchSpec
INVARIANTS
  WatchIsSound
  ReadsFollowLog
  CachesAreSound
  IndexIsSound
  FifoIsSound
PROPERTIES
  WatchInOrder
  StepsFollow
CHECK_DEADLOCK FALSE
