\* Three failing hand-offs and a passing one, a restart, any binding.
SPECIFICATION Spec
CONSTANTS
  Handoffs <- MCHandoffs
  Given <- MCGiven
  CardOf <- MCCardOf
  Cards <- MCCards
  Failing <- MCFailing
  Critical <- MCCritical
  TenantOf <- MCTenantOf
  NoTenant = "none"
  Deployment = "desk"
  Cited <- MCCited
  MaxCitations = 2
  MaxRestarts = 1
INVARIANTS
  ReferencesLeadToTheirReviews
  OneReviewPerVerdict
PROPERTY KeepsTheDesk
CHECK_DEADLOCK FALSE
