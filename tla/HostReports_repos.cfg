SPECIFICATION FairReportsSpec
CONSTANTS
  None = None
  ForceEvery = 2
  MaxChanges = 1
  MaxRuns = 0
  MaxFaults = 0
CHECK_DEADLOCK FALSE
PROPERTY EmptyReposConverge
