CONSTANTS
  Creators = {c1, c2, c3}
  MarketContracts = {m1, m2}
  VOLUME_THRESHOLD = 3
  MaxVolume = 4
SPECIFICATION MCSpec
INVARIANTS UnlockedByVolume OneContractPerCreator
