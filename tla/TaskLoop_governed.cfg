CONSTANTS
  Governed = TRUE
  MaxRevisions = 2
  Retries = 1
  Fallbacks = 0
  Faults = {"TRANSIENT_FAULT"}
  Interventions = {"cli_cancel", "cancel", "interrupt", "shutdown"}
  MaxRuns = 3
  MaxCandidates = 2
  MaxCrashes = 2
SPECIFICATION Spec
INVARIANTS
  CrashedAuthorStaysParked
  PublishedWasEarned
  ReviewAppliesToItsRun
PROPERTIES
  PublishedIsLatest
  RejectIsFinal
CHECK_DEADLOCK FALSE
