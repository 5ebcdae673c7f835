SPECIFICATION FairSpec
CONSTANTS
  Owners = {o1}
  Referees = {r1}
  Entries = {TRUE}
  MaxPin = 2
  MaxConns = 2
  MaxActs = 3
  MaxQueue = 1
INVARIANTS RefereeProvedPin ShownPinIsCurrent
PROPERTIES RoleLostForAReason RefereesLeave
CHECK_DEADLOCK FALSE
