CONSTANTS
  Users = {u1}
  Markets = {m1}
  Requests = {r1, r2}
  MAX_OUTCOMES = 2
  NoRow = NoRow
  NoOutcome = NoOutcome
  MaxTime = 2
  MaxRefunds = 2
SPECIFICATION Spec
SYMMETRY Symmetric
INVARIANTS StakeRefundedOnce WinnerIffResolved WinnerIsStored
PROPERTIES LivesInSteps
