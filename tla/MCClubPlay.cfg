SPECIFICATION FairSpec
CONSTANTS
  Phones = {p1, p2}
  Nobody = nobody
  AdminGuest = guest
  MaxPin = 2
  MaxConns = 2
  MaxActs = 4
  MaxQueue = 1
INVARIANTS RecordsTellTheTruth OldPhonesStayOut ScorersAreReferees
PROPERTIES EndReachesTheRoom PhonesGetAnAnswer
CHECK_DEADLOCK FALSE
