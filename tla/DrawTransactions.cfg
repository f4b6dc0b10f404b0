SPECIFICATION TransactionsSpec
CONSTANTS
  t1 = t1  t2 = t2  t3 = t3
  Tx <- MCThree
  NoTx = NoTx
  Key <- MCKey
  NoKey = NoKey
  EventType <- MCType
  Body <- MCBody
  Hash <- MCHash
  Genesis = Genesis
  MaxAppends = 3
  MaxEvents = 15
  Request <- MCRace
  NoRequest = NoRequest
  Sendings <- MCRaceOnce
SYMMETRY Symmetry3
INVARIANTS NoWaitCycle StatusMatchesTrail
CHECK_DEADLOCK FALSE
