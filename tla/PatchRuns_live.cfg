SPECIFICATION FairSpec
CONSTANTS
  Runs = {r1}
  Hosts = {h1}
  NoRun = NoRun
  MaxDispatches = 2
  MaxRequests = 1
  MaxDrops = 1
  MaxFaults = 1
CHECK_DEADLOCK FALSE
INVARIANT SentAtMostOnce
PROPERTY SlotReleased
