--------------------------- MODULE MCOpinionMarket ---------------------------
(***************************************************************************)
(* OpinionMarket with finitely many bets and blocks.                       *)
(***************************************************************************)
EXTENDS OpinionMarket

CONSTANTS
  BetAmounts,   \* amounts of a bet
  MaxVolume,    \* bound: the sum of all bets
  MaxAlone,     \* bound: the same with one market
  MaxTime       \* bound: the last block

AllVolume == SumTo([m \in MarketIds |-> markets[m].totalVolume], MaxMarkets)

\* Two instances, told apart by the collector that is named at first: one
\* market that ends at once, with any bets, or two of the smallest markets,
\* both of one creator, with the largest bets.
OneMarket == platformFeeCollector = "Treasury"

LargestBet == 135

MCNext ==
  \/ Step /\ (OneMarket => nextMarketId <= 2)'
  \/ \E m \in MarketIds, u \in Users, o \in OutcomeIds, amount \in BetAmounts :
       /\ AllVolume + amount <= IF OneMarket THEN MaxAlone ELSE MaxVolume
       /\ OneMarket \/ amount = LargestBet
       /\ placeBet(m, u, o, amount)
  \/ now < MaxTime /\ Tick

\* State constraint: the instance of the collector.
InInstance ==
  IF OneMarket
  THEN markets[1].endTime <= 1
  ELSE /\ \A m \in MarketIds : markets[m].outcomes <= MIN_OUTCOMES /\ markets[m].creator <= 1
       /\ AllVolume = LargestBet * feesKept   \* the other bets keep less of a fee, or more

MCSpec == Init /\ [][MCNext]_vars
=============================================================================
