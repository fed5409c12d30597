CONSTANTS
  k1 = k1
  k2 = k2
  v1 = v1
  NoValue = NoValue
  Keys = {k1, k2}
  Values = {v1}
  Watchers = {}
  Ranges <- MCRanges
  Txns <- NoTxns
  RetainedRevisions = 2
  MaxRevision = 5
  MaxAhead = 1
SPECIFICATION Spec
INVARIANT HistoricalReadsComplete
