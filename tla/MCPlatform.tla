----------------------------- MODULE MCPlatform -----------------------------
EXTENDS Platform

\* State constraint: the smallest markets only, none of them paused.
SmallMarkets ==
  \A m \in MarketIds : markets[m].outcomes <= MIN_OUTCOMES /\ ~markets[m].paused
=============================================================================
