CONSTANTS
  MAX_SUPPLY = 3
  TO_USDC = 10
  NumUsers = 2
  MaxBuys = 3
  MaxEpochs = 3
SPECIFICATION Spec
INVARIANTS TypeOK SupplyConserved SolventUpToRounding EpochSharesBounded
PROPERTIES FinalizedFrozen DividendsKeptUntilPaid KeepsLedger
CONSTRAINT LateEpochsAreSmall
