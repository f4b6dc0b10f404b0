SPECIFICATION EvidenceSpec
CONSTANTS
  s1 = s1  v1 = v1  v2 = v2  h1 = h1  h2 = h2  h3 = h3  h4 = h4  n1 = n1  a1 = a1  a2 = a2  m1 = m1  m2 = m2
  Document <- MCDocument
  Hash <- MCHash
  Number <- MCNumber
  Destination <- MCDestination
  Milestone <- MCMilestone
  None = None
  Submitter <- MCSubmitter
  Validator <- MCValidator
  MaxAgeOption <- MCMaxAgeOption
  DefaultMaxAge = 90
  MaxAge <- MCMaxAge
  Required <- MCRequired
  MaxItems = 3
  MaxDay = 1
SYMMETRY ValidatorSymmetry
INVARIANTS InvoiceHasWaiver  StatusTold
PROPERTIES FlagIsFinal GateStaysShut
CHECK_DEADLOCK FALSE
