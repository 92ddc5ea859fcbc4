\* One recording or fixture through both sources, and two turns of three
\* characters under two rows: every overlap of two patterns.
SPECIFICATION IngestionSpec
CONSTANTS
  Turns = 2
  Length = 3
  Rows = 2
  Vocabulary <- MCVocabulary
  MaxWords = 3
  Channels <- MCChannels
  Bounds <- MCBounds
  Paths = 3
  Tenants <- MCTenants
  Ids = {"one", "two"}
  MaxEdits = 1
INVARIANTS
  EveryIdentifierIsMarked
  TimingsSurviveInCleanTurns
  KeptUnlessOverrun
  
  ContactsHaveTheirOwnTranscript
CHECK_DEADLOCK FALSE
