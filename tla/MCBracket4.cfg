SPECIFICATION Spec
CONSTANTS
  Rounds = 2
  Names = {n1, n2}
  Nobody = Nobody
  Courts = {}
  NoCourt = NoCourt
  OwnerSlots <- MCOwnerSlots
INVARIANTS StatusesAgree Propagation WinnersStand PodiumStands
