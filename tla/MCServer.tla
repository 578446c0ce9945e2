------------------------------ MODULE MCServer ------------------------------
(* Values of the functions among the constants of Server for TLC. *)
EXTENDS Server

CONSTANTS p1, p2, h1, h2, oldSecret, newSecret, u1, u2, mail1, mail2

MCUserEmail == [u \in Users |-> IF u = u2 THEN mail2 ELSE mail1]

MCHost == [h \in Handlers |-> IF h = h2 THEN p2 ELSE p1]

MCPassword == [p \in Processes |-> IF p = p2 THEN newSecret ELSE oldSecret]

MCTimes == 0..1
=============================================================================
