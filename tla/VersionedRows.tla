---------------------------- MODULE VersionedRows ----------------------------
(***************************************************************************)
(* What every lifecycle table of BridgeWatch promises: a row is inserted   *)
(* once, at version 1, and from then on only moves along the lifecycle of  *)
(* its entity, each move raising the version by what the move is worth.    *)
(* No row is deleted, moves back, or changes under an unchanged version,   *)
(* so a version a client was told names one state of the row for ever.     *)
(* The tables are shown to implement this specification with               *)
(* INSTANCE ... WITH, one instance for each table.                         *)
(***************************************************************************)
EXTENDS Naturals

CONSTANTS
  Rows,      \* the identifiers rows of the table may take
  Absent,    \* the status of an identifier with no row yet
  Births,    \* statuses a row may be inserted with
  Moves      \* records [from, to, bump]: the allowed updates

VARIABLES
  status,    \* Rows -> status
  version    \* Rows -> Nat, 0 while there is no row

Init ==
  /\ status = [r \in Rows |-> Absent]
  /\ version = [r \in Rows |-> 0]

Inserted(r) ==
  /\ status[r] = Absent
  /\ status'[r] \in Births
  /\ version'[r] = 1

Moved(r) ==
  \E m \in Moves :
    /\ status[r] = m.from
    /\ status'[r] = m.to
    /\ version'[r] = version[r] + m.bump

Kept(r) ==
  /\ status'[r] = status[r]
  /\ version'[r] = version[r]

(* One committed transaction may touch several rows of the table. *)
Next == \A r \in Rows : Inserted(r) \/ Moved(r) \/ Kept(r)

Spec == Init /\ [][Next]_<<status, version>>
=============================================================================
