CONSTANTS
  Users = {u1, u2}
  Addresses = {"a"}
  Spellings = {"lowercase"}
  SessionIds = {s1, s2}
  OAuthStates = {o1}
  Requests = {r1, r2}
  SESSION_TTL = 1
  MaxTime = 2
  NoRow = NoRow
  NoWallet = NoWallet
  NoSession = NoSession
  Unborn = Unborn
SPECIFICATION MCSpec
SYMMETRY Symmetric
INVARIANTS SessionsCarryOwnWallet LogoutIsFinalWhenAlone SessionsFollowRows
PROPERTIES GoneForGood
