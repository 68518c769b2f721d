CONSTANTS
  HasWallet = TRUE
  Declared <- DeclaredAll
  Names = {"BetPlaced", "DividendsClaimed"}
  MAX_RETRIES = 2
  Tasks = {t1, t2}
  MaxTime = 2
SPECIFICATION ListenerSpec
INVARIANTS RecordsFollowEvents ServesWithContracts
PROPERTY EventsEnd
