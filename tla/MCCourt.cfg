SPECIFICATION Spec
CONSTANTS
  Rounds = 2
  Names = {n1}
  Nobody = Nobody
  Courts = {c1, c2}
  NoCourt = NoCourt
  Pins = {p1}
  NoPin = NoPin
  OwnerSlots <- MCOwnerSlots
  BoundMatches <- MCBoundMatches
INVARIANTS ProjectionsInStep SessionReachable OneMatchPerCourt
PROPERTIES SessionsEndInOrder BracketSparesClub FinalFreesCourts
SYMMETRY Symmetry
CONSTRAINT OneRetires
