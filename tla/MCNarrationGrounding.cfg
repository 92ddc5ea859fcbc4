\* Every text a model may write of every scorecard of the instance.
SPECIFICATION GroundingSpec
CONSTANTS
  Scorecards <- MCScorecards
  DraftTexts <- MCDraftTexts
  Citations <- Instruments
  FiguresOf <- MCFiguresOf
  LabelOf <- MCLabelOf
  Vulnerable <- MCVulnerable
  HeldAbove <- MCHeldAbove
  HeldBelow <- MCHeldBelow
  TimesAbove <- MCTimesAbove
  TimesBelow <- MCTimesBelow
  None = None
CHECK_DEADLOCK FALSE
INVARIANT ReadersSeePublishedFigures
INVARIANT TrueDraftsAreTaken
