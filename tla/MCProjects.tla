----------------------------- MODULE MCProjects -----------------------------
(* Values of the functions among the constants of Projects for TLC. *)
EXTENDS Projects, TLC

CONSTANTS orgA, orgB, ownerA, ownerB

MCUserOrg == [u \in Users |-> IF u = ownerB THEN orgB ELSE orgA]

MCUserRole == [u \in Users |-> "owner_admin"]

MCTimes == 0..2

(* Handlers, identifiers and names are interchangeable. *)
Symmetric == Permutations(Handlers) \cup Permutations(Ids)
             \cup Permutations(Names)
=============================================================================
