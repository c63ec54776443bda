SPECIFICATION FairJobSpec
CONSTANTS
  MaxPid = 3
  MaxTime = 0
  Timeouts = {}
INVARIANTS ListConsistent NoGhostJobs EveryChildTracked
PROPERTY
  SignalReturnsPrompt
