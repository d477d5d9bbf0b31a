\* A user who changes the same files at any time.
CONSTANTS
  NFiles = 2
  MaxUpdates = 2
  MaxEdits = 2
  Torn = TRUE
SPECIFICATION Spec
INVARIANTS
  SetRecoverable
  AllOrNothing
  OnlyExposedEditsLost
CHECK_DEADLOCK FALSE
