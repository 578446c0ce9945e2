----------------------------- MODULE MCHandover -----------------------------
(* Values of the functions among the constants of Handover for TLC. *)
EXTENDS Handover, TLC

CONSTANTS orgA, ownerA, contractorA, supervisorA

MCProjectOrg == [p \in Projects |-> orgA]

MCUserOrg == [u \in Users |-> orgA]

MCUserRole == [u \in Users |->
  CASE u = contractorA -> "contractor_engineer"
    [] u = ownerA -> "owner_admin"
    [] OTHER -> "supervisor"]

(* Packages, inspections, documents and uris are interchangeable.          *)
Symmetric == Permutations(Works) \cup Permutations(Inspections)
             \cup Permutations(Documents) \cup Permutations(Uris)
=============================================================================
