SPECIFICATION ScreensFairSpec
CONSTANTS
  TournamentCourts = {1, 2}
  ClubCourts = {3}
  Configured = FALSE
  MaxScore = 2
  MaxActs = 4
INVARIANTS SpotlightFollowsStar SpotlightIsCurrent
PROPERTIES ShowsTheMode
CHECK_DEADLOCK FALSE
