SPECIFICATION Spec
CONSTANTS
  f1 = f1
  Undefined = Undefined
  Files <- MCFiles
  Plans <- MCPlans
  Retries = 1
  Submissions = 2
  MaxCrashes = 1
INVARIANT CompletedStepsAreMerged
CHECK_DEADLOCK FALSE
