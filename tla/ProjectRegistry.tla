--------------------------- MODULE ProjectRegistry ---------------------------
(***************************************************************************)
(* What creating projects promises: each creation happens once, all at     *)
(* once; within an organization names are unique and an idempotency key    *)
(* stands for one project for ever.                                        *)
(***************************************************************************)
CONSTANTS Ids, Orgs, Names, Keys,
          NoKey, None   \* a request without a key, the absent value

VARIABLES
  project,   \* Ids -> [org, name], None while there is no such project
  created    \* Orgs \X Keys -> the project created under the key, or None

Init ==
  /\ project = [id \in Ids |-> [org |-> None, name |-> None]]
  /\ created = [slot \in Orgs \X Keys |-> None]

Create(org, k, name, id) ==
  /\ project[id].org = None
  /\ \A other \in Ids : project[other].org = org => project[other].name # name
  /\ k # NoKey => created[<<org, k>>] = None
  /\ project' = [project EXCEPT ![id] = [org |-> org, name |-> name]]
  /\ created' = IF k = NoKey THEN created
                ELSE [created EXCEPT ![<<org, k>>] = id]

Next == \E org \in Orgs, k \in Keys \cup {NoKey}, name \in Names, id \in Ids :
          Create(org, k, name, id)

Spec == Init /\ [][Next]_<<project, created>>
=============================================================================
