SPECIFICATION FairAlertsSpec
CONSTANTS
  Notices = {n1, n2, n3}
  NoNotice = NoNotice
  MaxFlips = 3
  MaxBacklog = 2
  MaxMisses = 1
CHECK_DEADLOCK FALSE
INVARIANTS OneNoticePerOutage
PROPERTIES ImplementsNotice FlapIsQuiet LateAlertIsCleared OutageIsReported
