--------------------------- MODULE MCMarketEvents ---------------------------
(***************************************************************************)
(* Instances of MarketEvents for TLC.                                      *)
(***************************************************************************)
EXTENDS MarketEvents, TLC

Symmetric ==
    Permutations(Events) \union Permutations(Markets)
        \union Permutations(Registered) \union Permutations(Stored)

(* The events that the handlers have no row for.                             *)
Skipped ==
    {e \in Emitted : \/ /\ handler[e].event.name = "BetPlaced"
                        /\ ~IsKnown(handler[e].event)
                     \/ /\ handler[e].event.name = "WinningsClaimed"
                        /\ handler[e].event.user \notin Registered}

Requested == {e \in Emitted : handler[e].event.name = "AdminRequest"}

OnlyBets == \A e \in Emitted : handler[e].event.name \in {"BetPlaced", "AdminRequest"}

(* State constraint: at most one of the events has no row to change, at most *)
(* one is a request of an admin, and bets alone are of one market, as their  *)
(* handlers do not tell markets apart.                                       *)
FewKinds ==
    /\ Cardinality(Skipped) <= 1
    /\ Cardinality(Requested) <= 1
    /\ (Emitted = Events /\ OnlyBets) => FromOneMarket(Emitted)
=============================================================================
