SPECIFICATION Spec
CONSTANTS
  Runs = {r1, r2}
  Hosts = {h1}
  NoRun = NoRun
  MaxDispatches = 2
  MaxRequests = 0
  MaxDrops = 0
  MaxFaults = 1
SYMMETRY Symmetry
CHECK_DEADLOCK FALSE
INVARIANTS TypeOK ApprovalHasRun AwaitingHasOwner EndNotifiedOnce
