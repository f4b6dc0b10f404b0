SPECIFICATION Spec
CONSTANTS
  d1 = d1  acct = acct  party = party  r1 = r1
  Draw <- MCDraw
  Subject <- MCSubject
  Robot <- MCRobot
  Account <- MCAccount
  Foreign = {}
  Party <- MCParty
  DocType <- MCDocType
  Reference <- MCReference
  Pack <- MCPack
  Worlds <- MCWorlds
  Nobody = Nobody
  NoPolicy = NoPolicy
  NoBinding = NoBinding
  MaxAmount = 2
  MaxVersion = 2
INVARIANTS SegregationOfDuties ApprovedIsBacked EvidenceIsManifest InstructionIsApproved
