SPECIFICATION Spec
CONSTANTS
  MaxHistory = 2
  NoWinner = NoWinner
  PadelConfigs <- MCConfigs
  TiebreakOvertime = 1
  GamesOvertime = 1
  MaxLoosePoints = 1
PROPERTY RestartResumes
