CONSTANTS
  Nodes = {n1, n2}
  MaxAttempts = 2
  MaxRestarts = 1
SPECIFICATION FairSpec
CHECK_DEADLOCK FALSE
INVARIANTS
  SessionsMatch
PROPERTIES
  RegistrationsMoveOn
  ForgottenNodeLeaves
  AreMembers
