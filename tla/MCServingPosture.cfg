\* Every order of boots, redeployments, file edits and requests.
SPECIFICATION Spec
CONSTANTS
  Environments <- MCEnvironments
  Files <- MCFiles
  None = None
INVARIANT LanUsersAreVerified
INVARIANT UnchosenPostureIsNoConsent
INVARIANT RefusalsNameWhoIsAtFault
PROPERTY RepairNeedsNoRestart
CHECK_DEADLOCK TRUE
