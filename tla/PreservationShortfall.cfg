SPECIFICATION Spec
CONSTANTS
  u1 = u1
  Admin = Admin
  User <- MCUser
  VirtualShares = 2
  MinSharesOut = 1
  Amount <- MCAmount
  ShareAmount <- MCShareAmount
  InitialRatio = 5000
  Ratio <- MCRatio
  Cap <- MCCap
  Expiry <- MCExpiry
  Target <- MCTarget
  MaxAssets = 2
  MaxQueue = 2
  MaxTime = 2
  MaxAdmin = 0
PROPERTY LiftFillsReserve
CHECK_DEADLOCK FALSE
