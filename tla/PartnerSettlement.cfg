SPECIFICATION SettlementSpec
CONSTANTS
  r1 = r1  d1 = d1  k1 = k1  c1 = c1  c2 = c2
  Request <- MCRequest
  Amount <- MCAmount
  Tolerance = 1
  Call <- MCCalls
  NoAmount = NoAmount
  Aggregate <- MCDraw
  NoAggregate = NoAggregate
  Key <- MCKey
  NoKey = NoKey
  MaxRecords = 2
  MaxExceptions = 2
  MaxEvents = 4
SYMMETRY CallSymmetry
INVARIANTS DifferenceBlocks NoSilentMatch AggregateTrailsVerify
CHECK_DEADLOCK FALSE
