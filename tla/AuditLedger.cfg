SPECIFICATION ReadersSpec
CONSTANTS
  t1 = t1  t2 = t2  t3 = t3  k1 = k1
  NoTx = NoTx
  NoKey = NoKey
  Tx <- MCTx
  Key <- MCKey
  EventType <- MCTypes
  Body <- MCBody
  Hash <- MCHash
  Genesis = Genesis
  MaxAppends = 2
  MaxEvents = 3
  PageSize = 2
SYMMETRY Symmetry
INVARIANTS TypeOK PagingSkipsNothing VerdictExplained ChainIntact KeySpentOnce OnlyDuplicatesRefused
PROPERTY RefinesAppendOnlyLog
