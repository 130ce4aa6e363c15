SPECIFICATION FairSpec
CONSTANTS
  Runs <- OneRun
  MaxResults = 2
  MaxCrashes = 2
  MaxConcurrency = 1
  None = None
  Torn = Torn
INVARIANTS
  RowFitsTask
PROPERTIES
  SettledIsFinal
  ProgressNeverFalls
  RunSettles
CHECK_DEADLOCK FALSE
