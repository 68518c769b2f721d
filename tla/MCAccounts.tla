----------------------------- MODULE MCAccounts -----------------------------
(* Instance of Accounts for TLC: the clock stops at MaxTime, and links of    *)
(* wallets are bounded by the sizes of the sets.                             *)
EXTENDS Accounts, TLC

CONSTANT MaxTime

MCNext == Next /\ now' <= MaxTime
MCSpec == Init /\ [][MCNext]_vars

Symmetric == Permutations(SessionIds) \union Permutations(Requests)
             \union Permutations(Users)
=============================================================================
