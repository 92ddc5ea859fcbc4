\* Every history of up to three renames; two lockfiles and two edits; small datasets.
SPECIFICATION Spec
CONSTANTS
  Files = 4
  Script = 3
  Docs = {1}
  Original <- MCOriginal
  Targets <- MCTargets
  MaxRuns = 3
  Exports = 2
  MaxEdits = 2
  Samples <- MCSamples
  MaxChanges = 4
INVARIANTS
  FinishedRenamesAgree
  EndedRunsLeaveNoDamage
  NoUnwatchedUi
  GreenMeansAgreed
  GreenIsMeasured
PROPERTY PromotionIsAuthorised
CHECK_DEADLOCK FALSE
