\* Up to three declarations of two obligations, every order of events in the
\* call, packs redeployed at any time; transcripts are stamped with their end.
SPECIFICATION Spec
CONSTANTS
  Ids <- MCIds
  Cues <- MCCues
  Packs <- MCPacks
  MaxDeclared = 3
  StampsEnd = TRUE
INVARIANT NothingUnmeasuredPasses
PROPERTIES
  DeclarationOrderIsIrrelevant
  DutiesHelpAndCuesHurt
  SameIdSameScorecard
