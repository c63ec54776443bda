SPECIFICATION TimeoutSpec
CONSTANTS
  MaxPid = 2
  MaxTime = 2
  Timeouts = {1, 2}
INVARIANTS ListConsistent TimedJobsListed
PROPERTY
  AlarmKillsOnlyDue
