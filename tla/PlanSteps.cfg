SPECIFICATION FairSpec
CONSTANTS
  f1 = f1
  Undefined = Undefined
  Files <- MCFiles
  Plans <- MCPlans
  Retries = 1
  Submissions = 2
  MaxCrashes = 1
INVARIANT TypeOK
INVARIANT CompletedHoldsItsWork
INVARIANT DependenciesAreMerged
INVARIANT CancelHolds
PROPERTY PlanSettles
CHECK_DEADLOCK FALSE
