CONSTANTS
  Users = {u1}
  Creators = {c1, c2}
  Tweets = {t1, t2}
  Requests = {r1, r2}
  NoRow = NoRow
  NoTweet = NoTweet
  MaxShares = 1
  MaxFees = 1
  MaxClaims = 2
  MaxWrites = 4
  MaxCompletions = 2
SPECIFICATION DividendsSpec
SYMMETRY Symmetric
INVARIANT UnclaimedIsListed
PROPERTIES ClaimsAreKept
