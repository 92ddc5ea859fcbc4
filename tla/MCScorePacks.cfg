\* Every order of publications, restarts and the steps of two calls, with a sibling file.
SPECIFICATION PackSpec
CONSTANTS
  PackFiles <- MCPackFiles
  SiblingFiles <- MCSiblingFiles
  Contacts <- MCContacts
  Calls = {call1, call2}
  Wordings <- MCWordings
  None = None
SYMMETRY Alike
INVARIANT NoBorrowedPack
INVARIANT OnlySharedStepsAreMisjudged
INVARIANT SupplementNeverReplaces
INVARIANT OneVersionUnlessRepublished
INVARIANT RefusesForNow
