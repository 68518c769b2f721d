-------------------------- MODULE MCAdministration --------------------------
(***************************************************************************)
(* Instances of Administration for TLC.                                    *)
(***************************************************************************)
EXTENDS Administration, TLC

Symmetric == Permutations(Requests)
=============================================================================
