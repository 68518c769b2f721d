------------------------------ MODULE MCAccess ------------------------------
(***************************************************************************)
(* Instances of Access for TLC: Kinds has one route of each kind, that is, *)
(* of each guard, method and reading of the session.  Users and requests   *)
(* are interchangeable.                                                    *)
(***************************************************************************)
EXTENDS Access, TLC

Kinds ==
    {"approveCreator", "rejectCreator", "suspendCreator", "banUser", "applyCreator",
     "createMarket", "getMarket", "logout"}

Symmetric == Permutations(Users) \union Permutations(Requests)
=============================================================================
