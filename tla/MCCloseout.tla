----------------------------- MODULE MCCloseout -----------------------------
(* Values of the functions among the constants of Closeout for TLC. *)
EXTENDS Closeout

CONSTANTS orgA, orgB, bridgeA, bridgeB, contractorA, supervisorA, supervisorB,
          ownerB

MCProjectOrg == [p \in Projects |-> IF p = bridgeB THEN orgB ELSE orgA]

MCUserOrg == [u \in Users |-> IF u \in {supervisorB, ownerB} THEN orgB
                              ELSE orgA]

MCUserRole == [u \in Users |->
  CASE u = contractorA -> "contractor_engineer"
    [] u = ownerB -> "owner_admin"
    [] OTHER -> "supervisor"]
=============================================================================
