SPECIFICATION AdminFairSpec
CONSTANTS
  Tabs = {t1, t2}
  MaxCourts = 2
  MaxRecords = 2
  MaxKeys = 2
  MaxActs = 3
  MaxQueue = 1
INVARIANTS DashboardIsCurrent RevealsAreLogged
PROPERTIES ButtonsComeBack
CHECK_DEADLOCK FALSE
