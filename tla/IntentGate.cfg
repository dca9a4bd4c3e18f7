CONSTANTS
  Capsules <- MCCapsules
  Submissions <- MCSubmissions
  Brought <- MCBrought
  MaxSubmissions = 3
  MaxDeaths = 2
SPECIFICATION Spec
INVARIANTS
  TypeOK
  OnlyClearedRuns
  RejectedStaysOut
  ApprovedIsOnItsWay
  LiesDoNotHelp
  RiskyCapsulesWait
CHECK_DEADLOCK FALSE
