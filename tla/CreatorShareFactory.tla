------------------------ MODULE CreatorShareFactory ------------------------
(***************************************************************************)
(* contracts/CreatorShareFactory.sol: counts the volume that whitelisted   *)
(* market contracts report for each creator, and lets a creator whose      *)
(* volume reached the threshold have one share contract deployed.          *)
(*                                                                         *)
(* Every function is one transaction, hence one action; a revert is a      *)
(* guard.  Deployed contracts are told apart by the order of deployment:   *)
(* the n-th one has the address n.                                         *)
(***************************************************************************)
EXTENDS Integers, Sequences

CONSTANTS
  Creators,         \* accounts that may have a volume
  MarketContracts,  \* addresses the owner may whitelist
  VOLUME_THRESHOLD

ASSUME FactoryAssumption == VOLUME_THRESHOLD \in Nat \ {0}

NoContract == 0     \* address(0)

VARIABLES
  creatorTotalVolume,
  sharesUnlocked,
  creatorShareContract,
  whitelistedMarkets,
  allCreatorShares

factoryVars == <<creatorTotalVolume, sharesUnlocked, creatorShareContract,
                 whitelistedMarkets, allCreatorShares>>

FactoryTypeOK ==
  /\ creatorTotalVolume \in [Creators -> Nat]
  /\ sharesUnlocked \in [Creators -> BOOLEAN]
  /\ creatorShareContract \in [Creators -> Nat]
  /\ whitelistedMarkets \in SUBSET MarketContracts
  /\ allCreatorShares \in Seq(Nat)

FactoryInit ==
  /\ creatorTotalVolume = [c \in Creators |-> 0]
  /\ sharesUnlocked = [c \in Creators |-> FALSE]
  /\ creatorShareContract = [c \in Creators |-> NoContract]
  /\ whitelistedMarkets = {}
  /\ allCreatorShares = <<>>

-----------------------------------------------------------------------------

\* Mistaken form: a second deployment replaces the first.
canCreateSharesAgain(creator) == sharesUnlocked[creator]

\* Whether a share contract for the creator can be deployed.
canCreateShares(creator) ==
  sharesUnlocked[creator] /\ creatorShareContract[creator] = NoContract

\* Anybody may deploy the contract of any creator, who becomes its owner.
createCreatorShares(creator) ==
  /\ canCreateShares(creator)
  /\ LET shareContract == Len(allCreatorShares) + 1 IN
       /\ creatorShareContract' = [creatorShareContract EXCEPT ![creator] = shareContract]
       /\ allCreatorShares' = Append(allCreatorShares, shareContract)
  /\ UNCHANGED <<creatorTotalVolume, sharesUnlocked, whitelistedMarkets>>

\* Mistaken form: the threshold has to be exceeded.
ExceedsThreshold(volume) == volume > VOLUME_THRESHOLD

ReachesThreshold(volume) == volume >= VOLUME_THRESHOLD

\* Mistaken form: counting stops once it has served its purpose.
VolumeUntilUnlocked(creator, additionalVolume) ==
  IF sharesUnlocked[creator] THEN creatorTotalVolume[creator]
  ELSE creatorTotalVolume[creator] + additionalVolume

NewVolume(creator, additionalVolume) == creatorTotalVolume[creator] + additionalVolume

\* Called by the market contract at address sender.
updateCreatorVolume(sender, creator, additionalVolume) ==
  LET newVolume == NewVolume(creator, additionalVolume) IN
  /\ sender \in whitelistedMarkets
  /\ creatorTotalVolume' = [creatorTotalVolume EXCEPT ![creator] = newVolume]
  /\ sharesUnlocked' =
       [sharesUnlocked EXCEPT ![creator] = @ \/ ReachesThreshold(newVolume)]
  /\ UNCHANGED <<creatorShareContract, whitelistedMarkets, allCreatorShares>>

\* onlyOwner.
addMarketContract(market) ==
  /\ whitelistedMarkets' = whitelistedMarkets \union {market}
  /\ UNCHANGED <<creatorTotalVolume, sharesUnlocked, creatorShareContract, allCreatorShares>>

\* onlyOwner.
removeMarketContract(market) ==
  /\ whitelistedMarkets' = whitelistedMarkets \ {market}
  /\ UNCHANGED <<creatorTotalVolume, sharesUnlocked, creatorShareContract, allCreatorShares>>

\* What a caller other than a market contract can make happen.
Administer ==
  \/ \E creator \in Creators : createCreatorShares(creator)
  \/ \E market \in MarketContracts : addMarketContract(market)
  \/ \E market \in MarketContracts : removeMarketContract(market)

FactoryNext ==
  \/ Administer
  \/ \E market \in MarketContracts, creator \in Creators, volume \in Nat :
       updateCreatorVolume(market, creator, volume)

FactorySpec == FactoryInit /\ [][FactoryNext]_factoryVars

-----------------------------------------------------------------------------

\* getRemainingVolumeToUnlock.
RemainingVolume(creator) ==
  IF sharesUnlocked[creator] \/ creatorTotalVolume[creator] >= VOLUME_THRESHOLD
  THEN 0
  ELSE VOLUME_THRESHOLD - creatorTotalVolume[creator]

\* The flag and the counter are two records of one fact: the shares of a
\* creator are unlocked exactly when the volume has reached the threshold,
\* whichever of several market contracts reported it, and in what steps.
UnlockedByVolume ==
  \A c \in Creators :
    sharesUnlocked[c] <=> creatorTotalVolume[c] >= VOLUME_THRESHOLD

\* The map and the list of share contracts agree: every deployed contract
\* belongs to exactly one creator, whose shares are unlocked, and no contract
\* is left in the list without a creator.
OneContractPerCreator ==
  /\ \A c \in Creators : creatorShareContract[c] # NoContract =>
       /\ sharesUnlocked[c]
       /\ creatorShareContract[c] \in 1 .. Len(allCreatorShares)
  /\ \A i \in 1 .. Len(allCreatorShares) :
       \E c \in Creators : creatorShareContract[c] = allCreatorShares[i]
  /\ \A c, d \in Creators :
       creatorShareContract[c] = creatorShareContract[d] /\ c # d
         => creatorShareContract[c] = NoContract

=============================================================================
