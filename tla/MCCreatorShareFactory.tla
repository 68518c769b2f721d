----------------------- MODULE MCCreatorShareFactory -----------------------
(***************************************************************************)
(* CreatorShareFactory with several market contracts and bounded volumes.  *)
(***************************************************************************)
EXTENDS CreatorShareFactory

CONSTANT MaxVolume   \* bound: the volume of a creator

MCNext ==
  \/ Administer
  \/ \E market \in MarketContracts, creator \in Creators, volume \in 1 .. MaxVolume :
       /\ creatorTotalVolume[creator] + volume <= MaxVolume
       /\ updateCreatorVolume(market, creator, volume)

MCSpec == FactoryInit /\ [][MCNext]_factoryVars
=============================================================================
