CONSTANTS
  Users = {u1, u2, u3}
  Registered = {u1, u2}
  Markets = {m1, m2}
  Outcomes = {o1, o2, o3}
  Stored = {o1, o2}
  Amounts = {1}
  Events = {e1, e2, e3}
  NoRow = NoRow
  NoOutcome = NoOutcome
SPECIFICATION Spec
SYMMETRY Symmetric
CONSTRAINT FewKinds
CHECK_DEADLOCK FALSE
INVARIANTS StatsAgree PositionsAgree ClaimsFollowEvents
