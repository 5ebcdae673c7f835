SPECIFICATION Spec
CONSTANTS
  MaxHistory = 3
  NoWinner = NoWinner
  Configs <- MCConfigs
  MinPoints = 3
  Overtime = 1
INVARIANTS HistoryLeadsHere PageEndsWithEngine ScreensAgree
PROPERTIES  ImplementsBestOf
