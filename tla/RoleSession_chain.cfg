CONSTANTS
  Effects <- Work
  Depth = 2
  Level <- Performs
  Parent <- Nested
  Launch <- Launching
  NoEffect = "none"
  Limit = 4
  Abandon = TRUE
SPECIFICATION FairSpec
INVARIANTS
  AckCoversEffects
  EveryGateCounts
  OutcomesHonest
  BreachExplained
PROPERTIES
  PermitsSettle
CHECK_DEADLOCK FALSE
