CONSTANTS
  Governed = FALSE
  MaxRevisions = 2
  Retries = 1
  Fallbacks = 1
  Faults = {"TRANSIENT_FAULT", "AUTH"}
  Interventions = {"cancel"}
  MaxRuns = 13
  MaxCandidates = 2
  MaxCrashes = 1
SPECIFICATION FairSpec
INVARIANTS
  TypeOK
  DeliveredIsReviewed
  RunBudget
PROPERTY EveryChainSettles
CHECK_DEADLOCK FALSE
