SPECIFICATION FairSpec
CONSTANTS
  MaxReconnectAttempts = 3
  MaxBridges = 3
  MaxTasks = 3
  MaxActs = 6
INVARIANTS ConnectedCounts
PROPERTIES ButtonComesBack
CHECK_DEADLOCK FALSE
