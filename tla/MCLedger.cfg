CONSTANTS
  r1 = r1
  r2 = r2
  alice = alice
  bob = bob
  Requests <- MCRequests
  Users <- MCUsers
  Listed <- MCListed
  Other = "other"
  Unlisted = "unlisted"
  Severities <- MCSeverities
  None = None
  MaxAccounts = 2
SYMMETRY Symmetry
SPECIFICATION Spec
INVARIANTS TypeOK LakeWithinLedger AnsweredIsOffered Isolation AssessedAsStored AssessedOnWholeHistory
