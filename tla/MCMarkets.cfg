CONSTANTS
  NumUsers = 2
  MaxMarkets = 2
  MIN_DURATION = 1
  MAX_DURATION = 2
  VOLUME_THRESHOLD = 203
  Collectors = {"FeeCollector", "Treasury"}
  BetAmounts = {65, 68, 135}
  MaxVolume = 405
  MaxAlone = 204
  MaxTime = 2
SPECIFICATION MCSpec
INVARIANTS TypeOK StakesAgree WinnersKeepStake ProbabilitiesAddUp Solvent VolumeReported
PROPERTIES StakesFixedAtEnd WinningsKeptUntilPaid
CONSTRAINT InInstance
