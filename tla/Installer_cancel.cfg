SPECIFICATION FairSpec
CONSTANTS
  j1 = j1
  j2 = j2
  Jobs <- TwoJobs
  Plans <- MCPlans
CHECK_DEADLOCK FALSE
INVARIANTS
  OkMeansEveryStage
  KilledGroupsAreDead
PROPERTIES
  CancelEndsInstall
