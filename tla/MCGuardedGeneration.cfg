\* Up to two notes, every screen and classifier, audit writes that may raise.
CONSTANTS
  MaxNotes = 2
  AuditFaulty = TRUE
SPECIFICATION Spec
INVARIANTS
  OnlyScreenedTextCrosses
  RefusalsAreOnRecord
  DraftsAreGrounded
PROPERTY KeepsTheStages
CHECK_DEADLOCK FALSE
