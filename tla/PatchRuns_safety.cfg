SPECIFICATION Spec
CONSTANTS
  Runs = {r1, r2}
  Hosts = {h1}
  NoRun = NoRun
  MaxDispatches = 1
  MaxRequests = 1
  MaxDrops = 1
  MaxFaults = 0
SYMMETRY Symmetry
CHECK_DEADLOCK FALSE
INVARIANTS OneActivePerHost HeldRunsUntouched
PROPERTIES ImplementsLife CancelledIsFinal
