CONSTANTS
  alice = alice
  bob = bob
  p1 = p1
  p2 = p2
  None = None
  Users <- MCUsers
  Pages <- MCPages
  Lifetime = 2
  Slack = 1
  Leeway = 1
  MaxFlight = 1
  MaxRestarts = 1
  MaxAccounts = 1
SPECIFICATION Spec
INVARIANTS TypeOK CurrentKeyIsAccepted AccountsSurviveRestarts
PROPERTIES LetInAgain
