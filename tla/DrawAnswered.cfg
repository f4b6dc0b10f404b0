SPECIFICATION FairTransactions
CONSTANTS
  t1 = t1  t2 = t2  t3 = t3
  Tx <- MCTwo
  NoTx = NoTx
  Key <- MCKey
  NoKey = NoKey
  EventType <- MCType
  Body <- MCBody
  Hash <- MCHash
  Genesis = Genesis
  MaxAppends = 3
  MaxEvents = 15
  Request <- MCPath
  NoRequest = NoRequest
  Sendings <- MCOnce
PROPERTY CallAnswered
CHECK_DEADLOCK FALSE
