SPECIFICATION FairScheduleSpec
CONSTANTS
  Workers = {w1, w2}
  Hosts = {h1, h2}
  Never = Never
  Period = 2
  Window = 0
  MaxTime = 3
  MaxSaves = 1
  MaxFaults = 1
CHECK_DEADLOCK FALSE
INVARIANTS OccurrenceHasOneFate NoOrphanedRun
PROPERTIES LastRunIsKept DueIsSettled
