----------------------------- MODULE MCListing -----------------------------
(* Values of the constants of Listing for TLC. *)
EXTENDS Listing, TLC

MCInstants == {0, 2, 3, 5}

Symmetric == Permutations(Orgs)
=============================================================================
