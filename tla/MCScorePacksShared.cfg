\* One step in both files, against README.md.
SPECIFICATION PackSpec
CONSTANTS
  PackFiles <- ShippedPackFiles
  SiblingFiles <- ShippedSiblingFiles
  Contacts <- MCContacts
  Calls = {call1, call2}
  Wordings <- ShippedWordings
  None = None
SYMMETRY Alike
INVARIANT MetByOwnWordings
