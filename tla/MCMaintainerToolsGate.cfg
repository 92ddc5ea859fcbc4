\* The same tools and bounds, asked what the evaluation says of its own metric.
SPECIFICATION Spec
CONSTANTS
  Files = 4
  Script = 3
  Docs = {1}
  Original <- MCOriginal
  Targets <- MCTargets
  MaxRuns = 3
  Exports = 2
  MaxEdits = 2
  Samples <- MCSamples
  MaxChanges = 4
INVARIANT GreenGatesTakeCleanDrafts
CHECK_DEADLOCK FALSE
