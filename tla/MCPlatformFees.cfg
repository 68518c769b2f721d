CONSTANTS
  NumUsers = 1
  MaxMarkets = 1
  MIN_DURATION = 1
  MAX_DURATION = 1
  VOLUME_THRESHOLD = 201
  Collectors = {"FeeCollector", "Treasury"}
  Operators = {"operator"}
  BetAmounts = {134, 268}
  MaxVolume = 402
  MaxDeposits = 2
  MaxReceived = 2
  MaxTime = 1
SPECIFICATION PlatformSpec
INVARIANTS FeesAccountedFor
PROPERTIES TotalsAreHistories
CONSTRAINT SmallMarkets
