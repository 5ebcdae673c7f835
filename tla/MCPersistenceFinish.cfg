SPECIFICATION Spec
CONSTANTS
  Courts = {c1, c2}
  MaxChanges = 3
INVARIANTS FinishedStaysFinished
