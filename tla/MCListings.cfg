CONSTANTS
  Listings <- Paged
  limit = 2
  MaxRows = 3
  MaxAmount = 1
  MaxChanges = 2
SPECIFICATION Spec
INVARIANTS  RepeatsBounded TotalAgrees
CHECK_DEADLOCK FALSE
