CONSTANTS
  JobChoices <- MCJobChoices
  MaxCleanups = 1
  Delay = 1
  Interval = 2
  Timeout = 4
  MaxFaults = 2
  MaxPods = 2
  WatchedJobs <- MCWatchedJobs
SPECIFICATION Spec
INVARIANTS
  TypeOK
  ResultIsTrue
PROPERTIES
  ErrorNotForSeenPod
  ChangeOnlyByVerifiedPlan
  StuckReported
  RunEnds
CHECK_DEADLOCK FALSE
