SPECIFICATION Spec
CONSTANTS
  Runs = {r1, r2, r3}
  Hosts = {h1}
  NoRun = NoRun
  MaxDispatches = 1
  MaxRequests = 0
  MaxDrops = 0
  MaxFaults = 0
SYMMETRY Symmetry
CHECK_DEADLOCK FALSE
INVARIANT ApprovedAtMostOnce
