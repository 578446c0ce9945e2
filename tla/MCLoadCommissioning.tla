------------------------ MODULE MCLoadCommissioning ------------------------
(* Values of the constants of LoadCommissioning for TLC. *)
EXTENDS LoadCommissioning

CONSTANTS orgA, bridgeA, officerA, supervisorA

MCProjectOrg == [p \in Projects |-> orgA]

MCUserOrg == [u \in Users |-> orgA]

MCUserRole == [u \in Users |-> IF u = supervisorA THEN "supervisor"
                               ELSE "commissioning_officer"]

ClockLeq(a, b) == a <= b

MCTimes == 0..30
=============================================================================
