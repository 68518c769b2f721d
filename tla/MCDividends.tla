---------------------------- MODULE MCDividends ----------------------------
(***************************************************************************)
(* Instances of Dividends for TLC.                                         *)
(***************************************************************************)
EXTENDS Dividends, TLC

Symmetric == Permutations(Requests) \union Permutations(Tweets)
=============================================================================
