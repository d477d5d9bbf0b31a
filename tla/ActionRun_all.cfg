\* Two actions of two steps each, in every mode: sequential or parallel,
\* interactive or in machine mode.  A run comes to rest when it is over.
CONSTANTS
  NumActions = 2
  NumSteps <- Two
  Kind <- Kinds
  OnFailure <- Failing
SPECIFICATION FairSpec
INVARIANTS
  ChildrenOwned
  SweepIsFinal
  ReportHonest
  AbortStopsScheduling
  
PROPERTIES
  RunsEnd
CHECK_DEADLOCK FALSE
