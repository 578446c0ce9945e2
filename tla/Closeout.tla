------------------------------ MODULE Closeout ------------------------------
(***************************************************************************)
(* Work-package closeout: the rows of work_packages, inspections, findings *)
(* and the audit events of work packages, and the operations of            *)
(* internal/service/closeout.go on them.                                   *)
(*                                                                         *)
(* Every operation that runs in store.WithinTx is one action: a SQLite     *)
(* writing transaction commits as a whole on the snapshot it read, or has  *)
(* no effect.  ScheduleInspection has no transaction: its check of the     *)
(* work package and its insert are two steps of the handler serving it.    *)
(* A refused operation changes nothing and is no step.  Required texts     *)
(* (code, title, checklist, summary ...) are taken as given, except a      *)
(* finding's resolution, which a property is about.                        *)
(***************************************************************************)
EXTENDS Naturals, Sequences

CONSTANTS
  Works, Inspections, Findings,  \* identifiers idgen.New may hand out
  Projects, Orgs, ProjectOrg,    \* projects, organizations, whose is which
  Users, UserOrg, UserRole,      \* users, their organization and role
  Owners, Risks, DueTimes,       \* what clients send with a package
  Handlers,                      \* goroutines serving ScheduleInspection
  MaxWorkVersion,                \* bound on a work package's version
  None                           \* the absent reference

Roles == {"owner_admin", "contractor_engineer", "supervisor",
          "commissioning_officer"}

ASSUME ConstantsAssumption ==
  /\ ProjectOrg \in [Projects -> Orgs]
  /\ UserOrg \in [Users -> Orgs]
  /\ UserRole \in [Users -> Roles]
  /\ Owners \subseteq Users
  /\ None \notin Orgs \cup Works \cup Inspections
  /\ MaxWorkVersion \in Nat

VARIABLES
  work,        \* Works -> row of work_packages
  inspection,  \* Inspections -> row of inspections
  finding,     \* Findings -> row of findings
  audit,       \* Works -> audit events of the package, oldest first
  sched        \* Handlers -> the ScheduleInspection in flight, or None

vars == <<work, inspection, finding, audit, sched>>

-----------------------------------------------------------------------------
(* Rows.  An identifier with no row yet has the status "absent". *)

WorkStatuses == {"planned", "active", "submitted", "rework", "accepted"}
InspectionStatuses == {"scheduled", "executing", "passed", "failed"}

NoWork == [status |-> "absent", version |-> 0, project |-> None,
           org |-> None, owner |-> None, risk |-> None, due |-> None]

WorkRow == [status : WorkStatuses, version : Nat, project : Projects,
            org : Orgs, owner : Users, risk : Risks, due : DueTimes]

NoInspection == [status |-> "absent", version |-> 0, work |-> None,
                 inspector |-> None]

InspectionRow == [status : InspectionStatuses, version : Nat, work : Works,
                  inspector : Users]

(* resolved: resolved_at is not NULL; noted: resolution is not blank. *)
NoFinding == [inspection |-> None, resolved |-> FALSE, noted |-> FALSE,
              version |-> 0]

FindingRow == [inspection : Inspections, resolved : BOOLEAN,
               noted : BOOLEAN, version : Nat]

(* The fields of a finding that CompleteInspection keeps as the client     *)
(* sent them.                                                              *)
ClientFinding == [resolved : BOOLEAN, noted : BOOLEAN]

Event == [org : Orgs, from : WorkStatuses \cup {"absent"}, to : WorkStatuses]

Request == [work : Works, inspector : Users]

-----------------------------------------------------------------------------
Init ==
  /\ work = [w \in Works |-> NoWork]
  /\ inspection = [i \in Inspections |-> NoInspection]
  /\ finding = [f \in Findings |-> NoFinding]
  /\ audit = [w \in Works |-> <<>>]
  /\ sched = [h \in Handlers |-> None]

-----------------------------------------------------------------------------
(* Pure steps of the domain package. *)

(* WorkPackage.Transition *)
NextStatuses(status) ==
  CASE status = "planned"   -> {"active"}
    [] status = "active"    -> {"submitted"}
    [] status = "submitted" -> {"accepted", "rework"}
    [] status = "rework"    -> {"active"}
    [] OTHER                -> {}

(* Inspection.Start, which CompleteInspection calls on a scheduled one *)
Started(row) ==
  IF row.status = "scheduled"
  THEN [row EXCEPT !.status = "executing", !.version = @ + 1]
  ELSE row

(* Inspection.Complete and its two refusals *)
Completable(row, passed, open) ==
  /\ row.status = "executing"
  /\ passed => open = {}

(* Mutated form: the status of the refusal message is stored. *)
CompletedBadly(row, passed) ==
  [row EXCEPT !.status = IF passed THEN "complete" ELSE "failed",
              !.version = @ + 1]

Completed(row, passed) ==
  [row EXCEPT !.status = IF passed THEN "passed" ELSE "failed",
              !.version = @ + 1]

(* countOpen: the findings of an inspection that are not resolved *)
OpenFindings(rows, i) ==
  {f \in Findings : rows[f].inspection = i /\ ~rows[f].resolved}

(* Mutated form: the absence of open findings is taken for evidence. *)
WorkAcceptanceEvidenceUninspected(w) ==
  \A i \in Inspections : inspection[i].work = w
                         => OpenFindings(finding, i) = {}

(* workAcceptanceEvidence: a passed inspection, and no open finding of any *)
(* inspection of the package                                               *)
WorkAcceptanceEvidence(w) ==
  /\ \E i \in Inspections : inspection[i].work = w
                            /\ inspection[i].status = "passed"
  /\ \A i \in Inspections : inspection[i].work = w
                            => OpenFindings(finding, i) = {}

(* GetInspection and GetFinding read through joins to the work package,    *)
(* whose organization must be the caller's.                                *)
InspectionOrg(i) == work[inspection[i].work].org

-----------------------------------------------------------------------------
(* Operations of internal/service/closeout.go. *)

(* Mutated form: the project is looked up without the caller's scope. *)
CreateWorkPackageUnscoped(u, w, p, owner, risk, due) ==
  /\ UserRole[u] \in {"owner_admin", "contractor_engineer"}
  /\ work[w].status = "absent"
  /\ work' = [work EXCEPT ![w] =
       [status |-> "planned", version |-> 1, project |-> p,
        org |-> UserOrg[u], owner |-> owner, risk |-> risk, due |-> due]]
  /\ audit' = [audit EXCEPT ![w] = Append(@,
       [org |-> UserOrg[u], from |-> "absent", to |-> "planned"])]
  /\ UNCHANGED <<inspection, finding, sched>>

(* The project is looked up in the caller's organization; the owner is     *)
(* whomever the client names, and need only be some user (a foreign key).  *)
CreateWorkPackage(u, w, p, owner, risk, due) ==
  /\ UserRole[u] \in {"owner_admin", "contractor_engineer"}
  /\ work[w].status = "absent"
  /\ ProjectOrg[p] = UserOrg[u]
  /\ work' = [work EXCEPT ![w] =
       [status |-> "planned", version |-> 1, project |-> p,
        org |-> UserOrg[u], owner |-> owner, risk |-> risk, due |-> due]]
  /\ audit' = [audit EXCEPT ![w] = Append(@,
       [org |-> UserOrg[u], from |-> "absent", to |-> "planned"])]
  /\ UNCHANGED <<inspection, finding, sched>>

(* Mutated form: the event reads the status off the row Transition has     *)
(* already changed.                                                        *)
TransitionWorkAuditedLate(u, w, to, expected) ==
  /\ UserRole[u] \in {"contractor_engineer", "supervisor"}
  /\ work[w].org = UserOrg[u]
  /\ work[w].version = expected
  /\ expected < MaxWorkVersion
  /\ to \in NextStatuses(work[w].status)
  /\ to = "accepted" => /\ UserRole[u] = "supervisor"
                        /\ WorkAcceptanceEvidence(w)
  /\ work' = [work EXCEPT ![w].status = to, ![w].version = expected + 1]
  /\ audit' = [audit EXCEPT ![w] = Append(@,
       [org |-> UserOrg[u], from |-> work'[w].status, to |-> to])]
  /\ UNCHANGED <<inspection, finding, sched>>

TransitionWork(u, w, to, expected) ==
  /\ UserRole[u] \in {"contractor_engineer", "supervisor"}
  /\ work[w].org = UserOrg[u]
  /\ work[w].version = expected
  /\ expected < MaxWorkVersion
  /\ to \in NextStatuses(work[w].status)
  /\ to = "accepted" => /\ UserRole[u] = "supervisor"
                        /\ WorkAcceptanceEvidence(w)
  /\ work' = [work EXCEPT ![w].status = to, ![w].version = expected + 1]
  /\ audit' = [audit EXCEPT ![w] = Append(@,
       [org |-> UserOrg[u], from |-> work[w].status, to |-> to])]
  /\ UNCHANGED <<inspection, finding, sched>>

(* Mutated form: the package is not asked whether it is submitted. *)
CheckScheduleAnyStatus(h, u, w, inspector) ==
  /\ sched[h] = None
  /\ UserRole[u] = "supervisor"
  /\ work[w].org = UserOrg[u]
  /\ UserOrg[inspector] = UserOrg[u]
  /\ UserRole[inspector] = "supervisor"
  /\ sched' = [sched EXCEPT ![h] = [work |-> w, inspector |-> inspector]]
  /\ UNCHANGED <<work, inspection, finding, audit>>

(* ScheduleInspection up to its last read: the package is the caller's and *)
(* submitted, the inspector is a supervisor of the same organization.      *)
CheckSchedule(h, u, w, inspector) ==
  /\ sched[h] = None
  /\ UserRole[u] = "supervisor"
  /\ work[w].org = UserOrg[u]
  /\ work[w].status = "submitted"
  /\ UserOrg[inspector] = UserOrg[u]
  /\ UserRole[inspector] = "supervisor"
  /\ sched' = [sched EXCEPT ![h] = [work |-> w, inspector |-> inspector]]
  /\ UNCHANGED <<work, inspection, finding, audit>>

(* Its insert, a statement of its own that looks at the package no more. *)
InsertInspection(h, i) ==
  /\ sched[h] # None
  /\ inspection[i].status = "absent"
  /\ inspection' = [inspection EXCEPT ![i] =
       [status |-> "scheduled", version |-> 1, work |-> sched[h].work,
        inspector |-> sched[h].inspector]]
  /\ sched' = [sched EXCEPT ![h] = None]
  /\ UNCHANGED <<work, finding, audit>>

(* The insert fails, the client goes away, or the process dies. *)
AbandonSchedule(h) ==
  /\ sched[h] # None
  /\ sched' = [sched EXCEPT ![h] = None]
  /\ UNCHANGED <<work, inspection, finding, audit>>

(* Mutated form: open findings are counted before the new ones are         *)
(* inserted.                                                               *)
CompleteInspectionCountedEarly(u, i, passed, new) ==
  LET started == Started(inspection[i])
      rows == [f \in Findings |->
                IF f \in DOMAIN new
                THEN [inspection |-> i, resolved |-> new[f].resolved,
                      noted |-> new[f].noted, version |-> 1]
                ELSE finding[f]]
  IN /\ UserRole[u] = "supervisor"
     /\ inspection[i].status # "absent"
     /\ InspectionOrg(i) = UserOrg[u]
     /\ \A f \in DOMAIN new : finding[f].inspection = None
     /\ Completable(started, passed, OpenFindings(finding, i))
     /\ inspection' = [inspection EXCEPT ![i] = Completed(started, passed)]
     /\ finding' = rows
     /\ UNCHANGED <<work, audit, sched>>

(* Mutated form: the start is committed on its own when the result is      *)
(* refused.                                                                *)
CompleteInspectionInHalves(u, i, passed, new) ==
  LET started == Started(inspection[i])
      rows == [f \in Findings |->
                IF f \in DOMAIN new
                THEN [inspection |-> i, resolved |-> new[f].resolved,
                      noted |-> new[f].noted, version |-> 1]
                ELSE finding[f]]
      accepted == Completable(started, passed, OpenFindings(rows, i))
  IN /\ UserRole[u] = "supervisor"
     /\ inspection[i].status # "absent"
     /\ InspectionOrg(i) = UserOrg[u]
     /\ \A f \in DOMAIN new : finding[f].inspection = None
     /\ inspection' = [inspection EXCEPT ![i] =
          IF accepted THEN Completed(started, passed) ELSE started]
     /\ finding' = IF accepted THEN rows ELSE finding
     /\ UNCHANGED <<work, audit, sched>>

(* CompleteInspection: starts a scheduled inspection, inserts the findings *)
(* sent with it, counts the open ones, and records the outcome; new maps   *)
(* the identifiers of the findings sent to what the client says of them.   *)
CompleteInspection(u, i, passed, new) ==
  LET started == Started(inspection[i])
      rows == [f \in Findings |->
                IF f \in DOMAIN new
                THEN [inspection |-> i, resolved |-> new[f].resolved,
                      noted |-> new[f].noted, version |-> 1]
                ELSE finding[f]]
  IN /\ UserRole[u] = "supervisor"
     /\ inspection[i].status # "absent"
     /\ InspectionOrg(i) = UserOrg[u]
     /\ \A f \in DOMAIN new : finding[f].inspection = None
     /\ Completable(started, passed, OpenFindings(rows, i))
     /\ inspection' = [inspection EXCEPT ![i] = Completed(started, passed)]
     /\ finding' = rows
     /\ UNCHANGED <<work, audit, sched>>

ResolveFinding(u, f, expected) ==
  /\ UserRole[u] \in {"contractor_engineer", "supervisor"}
  /\ finding[f].inspection # None
  /\ InspectionOrg(finding[f].inspection) = UserOrg[u]
  /\ finding[f].version = expected
  /\ ~finding[f].resolved
  /\ finding' = [finding EXCEPT ![f].resolved = TRUE, ![f].noted = TRUE,
                                ![f].version = expected + 1]
  /\ UNCHANGED <<work, inspection, audit, sched>>

-----------------------------------------------------------------------------
Next ==
  \/ \E u \in Users, w \in Works, p \in Projects, owner \in Owners,
        risk \in Risks, due \in DueTimes :
          CreateWorkPackage(u, w, p, owner, risk, due)
  \/ \E u \in Users, w \in Works, to \in WorkStatuses,
        expected \in 1..MaxWorkVersion : TransitionWork(u, w, to, expected)
  \/ \E h \in Handlers, u \in Users, w \in Works, inspector \in Users :
        CheckSchedule(h, u, w, inspector)
  \/ \E h \in Handlers, i \in Inspections : InsertInspection(h, i)
  \/ \E h \in Handlers : AbandonSchedule(h)
  \/ \E u \in Users, i \in Inspections, passed \in BOOLEAN :
        \E ids \in SUBSET Findings : \E new \in [ids -> ClientFinding] :
          CompleteInspection(u, i, passed, new)
  \/ \E u \in Users, f \in Findings, expected \in 1..2 :
        ResolveFinding(u, f, expected)

Spec == Init /\ [][Next]_vars

-----------------------------------------------------------------------------
(* Type correctness of every row, event and request in flight. *)
TypeOK ==
  /\ work \in [Works -> WorkRow \cup {NoWork}]
  /\ inspection \in [Inspections -> InspectionRow \cup {NoInspection}]
  /\ finding \in [Findings -> FindingRow \cup {NoFinding}]
  /\ audit \in [Works -> Seq(Event)]
  /\ sched \in [Handlers -> Request \cup {None}]

(* An accepted package keeps at least one passed inspection, whatever      *)
(* happened to its other inspections and findings since TransitionWork     *)
(* read the evidence.                                                      *)
AcceptedWorkWasInspected ==
  \A w \in Works : work[w].status = "accepted" =>
    \E i \in Inspections : inspection[i].work = w
                           /\ inspection[i].status = "passed"

(* A passed inspection has no open finding: the findings sent with the     *)
(* result of CompleteInspection are counted before the result is judged,   *)
(* and none can be added to the inspection later.                          *)
PassedInspectionIsClean ==
  \A i \in Inspections : inspection[i].status = "passed" =>
    OpenFindings(finding, i) = {}

(* "executing" is never committed: CompleteInspection writes the start and *)
(* the result in one transaction, so a refused result leaves the           *)
(* inspection scheduled and a passed or failed one is always at version 3. *)
NoHalfStartedInspection ==
  \A i \in Inspections :
    /\ inspection[i].status # "executing"
    /\ inspection[i].status = "scheduled" => inspection[i].version = 1
    /\ inspection[i].status \in {"passed", "failed"}
         => inspection[i].version = 3

(* Every inspection, and every request about to insert one, belongs to a   *)
(* package that has been submitted at least once (version 3 is the first   *)
(* submission), although the check and the insert are not one transaction. *)
InspectionsFollowSubmission ==
  /\ \A i \in Inspections : inspection[i].status # "absent" =>
       work[inspection[i].work].version >= 3
  /\ \A h \in Handlers : sched[h] # None => work[sched[h].work].version >= 3

(* The audit trail of a package explains its row: one event for each       *)
(* version, each starting from the status the previous one ended in, the   *)
(* first from nothing and the last to the status the package has now.      *)
AuditExplainsStatus ==
  \A w \in Works :
    /\ Len(audit[w]) = work[w].version
    /\ \A n \in 1..Len(audit[w]) :
         audit[w][n].from = IF n = 1 THEN "absent" ELSE audit[w][n - 1].to
    /\ work[w].status = IF audit[w] = <<>> THEN "absent"
                        ELSE audit[w][Len(audit[w])].to

(* The references that the operations check stay within one organization:  *)
(* a package, the project it is in, its audit events and the inspectors    *)
(* named on its inspections.  The owner of a package is not among them:    *)
(* CreateWorkPackage takes any user for it, one of another organization    *)
(* included.                                                               *)
CheckedReferencesAreLocal ==
  /\ \A w \in Works : work[w].status # "absent" =>
       /\ work[w].org = ProjectOrg[work[w].project]
       /\ \A n \in 1..Len(audit[w]) : audit[w][n].org = work[w].org
  /\ \A i \in Inspections : inspection[i].status # "absent" =>
       /\ UserOrg[inspection[i].inspector] = InspectionOrg(i)
       /\ UserRole[inspection[i].inspector] = "supervisor"

-----------------------------------------------------------------------------
(* The three tables as versioned rows. *)

WorkMoves ==
  {[from |-> "planned",   to |-> "active",    bump |-> 1],
   [from |-> "active",    to |-> "submitted", bump |-> 1],
   [from |-> "submitted", to |-> "accepted",  bump |-> 1],
   [from |-> "submitted", to |-> "rework",    bump |-> 1],
   [from |-> "rework",    to |-> "active",    bump |-> 1]}

(* Start and Complete are committed together, hence two versions. *)
InspectionMoves ==
  {[from |-> "scheduled", to |-> "passed", bump |-> 2],
   [from |-> "scheduled", to |-> "failed", bump |-> 2]}

FindingMoves == {[from |-> "open", to |-> "resolved", bump |-> 1]}

FindingStatus(f) ==
  IF finding[f].inspection = None THEN "absent"
  ELSE IF finding[f].resolved THEN "resolved" ELSE "open"

WorkRows == INSTANCE VersionedRows WITH
  Rows <- Works, Absent <- "absent", Births <- {"planned"},
  Moves <- WorkMoves,
  status <- [w \in Works |-> work[w].status],
  version <- [w \in Works |-> work[w].version]

InspectionRows == INSTANCE VersionedRows WITH
  Rows <- Inspections, Absent <- "absent", Births <- {"scheduled"},
  Moves <- InspectionMoves,
  status <- [i \in Inspections |-> inspection[i].status],
  version <- [i \in Inspections |-> inspection[i].version]

FindingRows == INSTANCE VersionedRows WITH
  Rows <- Findings, Absent <- "absent", Births <- {"open", "resolved"},
  Moves <- FindingMoves,
  status <- [f \in Findings |-> FindingStatus(f)],
  version <- [f \in Findings |-> finding[f].version]

(* The tables implement the versioned rows: a package never skips, repeats *)
(* or undoes a stage and its acceptance is final, no observer ever reads   *)
(* an inspection between its start and its result, and a finding is        *)
(* resolved once and never reopens.                                        *)
Lifecycles == WorkRows!Spec /\ InspectionRows!Spec /\ FindingRows!Spec

-----------------------------------------------------------------------------
(* Statements of the source that the runs find violated. *)

(* "work must be submitted" (closeout.go:105): an inspection is created    *)
(* for a package that is submitted at that moment.                         *)
InspectsSubmittedWork ==
  [][\A i \in Inspections :
       inspection[i].status = "absent" /\ inspection'[i].status # "absent"
         => work[inspection'[i].work].status = "submitted"]_vars

(* A finding that counts as resolved has a resolution, which               *)
(* Finding.Resolve requires (inspection.go:85).                            *)
ResolvedFindingIsExplained ==
  \A f \in Findings : finding[f].resolved => finding[f].noted
=============================================================================
