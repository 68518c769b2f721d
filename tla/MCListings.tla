----------------------------- MODULE MCListings -----------------------------
(***************************************************************************)
(* Instances of Listings for TLC.                                          *)
(***************************************************************************)
EXTENDS Listings

Activity == {getUserActivity}
=============================================================================
