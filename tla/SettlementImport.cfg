SPECIFICATION SettlementSpec
CONSTANTS
  d1 = d1  acct = acct  other = other  party = party
  r1 = r1  r2 = r2  b1 = b1  b2 = b2
  Draw <- MCDraw
  Subject <- MCSubject
  Robot = {}
  Account <- MCAccount
  Foreign = {}
  Party <- MCParty
  DocType <- MCDocType
  Reference <- MCReference
  Pack <- MCPack
  Worlds <- MCWorlds
  Nobody = Nobody
  NoPolicy = NoPolicy
  NoBinding = NoBinding
  NoDrawId = NoDrawId
  MaxAmount = 2
  MaxVersion = 1
  Batch <- MCBatch
  File <- MCFile
  MaxRows = 2
INVARIANTS ConfirmedOnce ReconciledExactly 
PROPERTY RefinesPaymentOnce
