SPECIFICATION ControlsSpec
CONSTANTS
  c1 = c1  c2 = c2  p1 = p1  a1 = a1  r1 = r1
  ExceptionType <- MCExceptionType
  Role <- MCRole
  WaiverAmount <- MCWaiverAmount
  DueDate <- MCDueDate
  DenialReason = {"denied"}
  NoDue = NoDue
  MaxExceptions = 2
  MaxWaivers = 2
  MaxToday = 1
  Placer = {c1, c2}
  Asset = {a1}
  Project = {p1}
  Request = {r1}
  NoRequest = NoRequest
  Collateral <- MCCollateral
  ManualReason <- MCManualReason
  ReleaseCondition <- MCReleaseCondition
  MaxHolds = 3
  Category <- MCCategory
  Threshold <- MCThreshold
  Tolerance <- MCTolerance
  Measure <- MCMeasure
  MaxEvaluations = 2
  NoPolicy = NoPolicy
  Terms <- MCTerms
  CarrierData <- MCCarrierData
  Amount = {2, 7}
  Dividend <- MCDividend
  MaxNow = 1
  MaxInterest = 10
  MaxLoan = 14
  MaxCash = 20
  MaxMissed = 3
  MaxDraws = 2
INVARIANTS LatestDecisionStands  GradesInOrder LapseNoticed
PROPERTIES OnlyReleaseUnblocks DrawWithinLimit StandingKept
CHECK_DEADLOCK FALSE
