--------------------------- MODULE MCCreatorShare ---------------------------
(***************************************************************************)
(* Instances of CreatorShare for TLC.                                      *)
(***************************************************************************)
EXTENDS CreatorShare

\* State constraint: more than two shares or purchases in the first epoch only.
LateEpochsAreSmall == epochNumber > 1 => currentSupply <= 2 /\ buys <= 2
=============================================================================
