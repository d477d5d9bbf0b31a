\* Crashes, errors and torn writes at every step, no user: a single atomic
\* replacement that ends.
CONSTANTS
  NFiles = 3
  MaxUpdates = 2
  MaxEdits = 0
  Torn = TRUE
SPECIFICATION FairSpec
PROPERTIES
  Implements
  Settles
CHECK_DEADLOCK FALSE
