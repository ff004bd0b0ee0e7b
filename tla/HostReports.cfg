SPECIFICATION FairReportsSpec
CONSTANTS
  None = None
  ForceEvery = 2
  MaxChanges = 1
  MaxRuns = 1
  MaxFaults = 1
CHECK_DEADLOCK FALSE
INVARIANT HashTellsRows
PROPERTIES InventoryConverges GateSettles AwaitingClears
