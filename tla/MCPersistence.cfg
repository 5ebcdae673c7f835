SPECIFICATION FairSpec
CONSTANTS
  Courts = {c1, c2}
  MaxChanges = 4
INVARIANTS QuietMeansSaved
PROPERTIES StopThenBootKeeps PendingIsWritten
