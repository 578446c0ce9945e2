--------------------------- MODULE CloseoutProofs ---------------------------
(***************************************************************************)
(* The invariants of Closeout, proved for every value of its constants.    *)
(***************************************************************************)
EXTENDS Closeout, TLAPS

(* Rows keep their shape under the updates of the operations.  UPDATE of a *)
(* work package writes its status and version and nothing else.            *)
LEMMA WorkRowUpdate ==
  ASSUME NEW row \in WorkRow, NEW to \in WorkStatuses, NEW v \in Nat
  PROVE  /\ [row EXCEPT !.status = to, !.version = v] \in WorkRow
         /\ [row EXCEPT !.status = to, !.version = v].status = to
         /\ [row EXCEPT !.status = to, !.version = v].version = v
         /\ [row EXCEPT !.status = to, !.version = v].org = row.org
         /\ [row EXCEPT !.status = to, !.version = v].project = row.project
BY DEF WorkRow

(* Inspection.Start leaves an inspection row whose package and inspector   *)
(* are those of the row it was called on.                                  *)
LEMMA StartedRow ==
  ASSUME NEW row \in InspectionRow
  PROVE  /\ Started(row) \in InspectionRow
         /\ Started(row).work = row.work
         /\ Started(row).inspector = row.inspector
         /\ row.status = "scheduled" => /\ Started(row).status = "executing"
                                        /\ Started(row).version = row.version + 1
         /\ row.status # "scheduled" => Started(row) = row
<1>1. CASE row.status = "scheduled"
  <2>1. Started(row) = [row EXCEPT !.status = "executing",
                                   !.version = row.version + 1]
    BY <1>1 DEF Started
  <2>2. "executing" \in InspectionStatuses /\ row.version + 1 \in Nat
    BY DEF InspectionRow, InspectionStatuses
  <2> QED
    BY <1>1, <2>1, <2>2 DEF InspectionRow
<1>2. CASE row.status # "scheduled"
  BY <1>2 DEF Started
<1> QED
  BY <1>1, <1>2

(* Inspection.Complete records the result at the next version and keeps    *)
(* the package and the inspector.                                          *)
LEMMA CompletedRow ==
  ASSUME NEW row \in InspectionRow, NEW passed \in BOOLEAN
  PROVE  /\ Completed(row, passed) \in InspectionRow
         /\ Completed(row, passed).work = row.work
         /\ Completed(row, passed).inspector = row.inspector
         /\ Completed(row, passed).version = row.version + 1
         /\ Completed(row, passed).status = IF passed THEN "passed" ELSE "failed"
<1> DEFINE result == IF passed THEN "passed" ELSE "failed"
<1>1. result \in InspectionStatuses /\ row.version + 1 \in Nat
  BY DEF InspectionRow, InspectionStatuses
<1>2. Completed(row, passed) = [row EXCEPT !.status = result,
                                           !.version = row.version + 1]
  BY DEF Completed
<1> HIDE DEF result
<1>3. /\ Completed(row, passed) \in InspectionRow
      /\ Completed(row, passed).work = row.work
      /\ Completed(row, passed).inspector = row.inspector
      /\ Completed(row, passed).version = row.version + 1
      /\ Completed(row, passed).status = result
  BY <1>1, <1>2 DEF InspectionRow
<1> QED
  BY <1>3 DEF result

(* Finding.Resolve leaves a resolved, explained row of the same inspection. *)
LEMMA FindingRowUpdate ==
  ASSUME NEW row \in FindingRow, NEW v \in Nat
  PROVE  LET new == [row EXCEPT !.resolved = TRUE, !.noted = TRUE,
                                !.version = v]
         IN /\ new \in FindingRow
            /\ new.inspection = row.inspection
            /\ new.resolved = TRUE /\ new.version = v
BY DEF FindingRow

(* Each operation of the closeout service writes well-formed rows and      *)
(* events.                                                                 *)
LEMMA TypeStep == ASSUME TypeOK, [Next]_vars PROVE TypeOK'
<1> USE ConstantsAssumption
<1>1. ASSUME NEW u \in Users, NEW w \in Works, NEW p \in Projects,
             NEW owner \in Owners, NEW risk \in Risks, NEW due \in DueTimes,
             CreateWorkPackage(u, w, p, owner, risk, due)
      PROVE TypeOK'
  <2>1. [status |-> "planned", version |-> 1, project |-> p,
         org |-> UserOrg[u], owner |-> owner, risk |-> risk,
         due |-> due] \in WorkRow
    BY DEF WorkRow, WorkStatuses
  <2>2. [org |-> UserOrg[u], from |-> "absent", to |-> "planned"] \in Event
    BY DEF Event, WorkStatuses
  <2>3. audit' \in [Works -> Seq(Event)]
    BY <1>1, <2>2 DEF TypeOK, CreateWorkPackage
  <2> QED
    BY <1>1, <2>1, <2>3 DEF TypeOK, CreateWorkPackage
<1>2. ASSUME NEW u \in Users, NEW w \in Works, NEW to \in WorkStatuses,
             NEW expected \in 1..MaxWorkVersion,
             TransitionWork(u, w, to, expected)
      PROVE TypeOK'
  <2>1. work[w] \in WorkRow
    BY <1>2 DEF TypeOK, TransitionWork, NoWork
  <2>2. [work[w] EXCEPT !.status = to, !.version = expected + 1] \in WorkRow
    <3>1. expected + 1 \in Nat
      OBVIOUS
    <3> QED
      BY <2>1, <3>1, WorkRowUpdate
  <2>3. [org |-> UserOrg[u], from |-> work[w].status, to |-> to] \in Event
    BY <2>1 DEF Event, WorkRow
  <2>4. audit' \in [Works -> Seq(Event)]
    BY <1>2, <2>3 DEF TypeOK, TransitionWork
  <2>5. work' = [work EXCEPT ![w] =
                   [work[w] EXCEPT !.status = to, !.version = expected + 1]]
    BY <1>2 DEF TypeOK, TransitionWork
  <2> QED
    BY <1>2, <2>2, <2>4, <2>5 DEF TypeOK, TransitionWork
<1>3. ASSUME NEW h \in Handlers, NEW u \in Users, NEW w \in Works,
             NEW inspector \in Users, CheckSchedule(h, u, w, inspector)
      PROVE TypeOK'
  BY <1>3 DEF TypeOK, CheckSchedule, Request
<1>4. ASSUME NEW h \in Handlers, NEW i \in Inspections,
             InsertInspection(h, i)
      PROVE TypeOK'
  <2>1. sched[h] \in Request
    BY <1>4 DEF TypeOK, InsertInspection
  <2>2. [status |-> "scheduled", version |-> 1, work |-> sched[h].work,
         inspector |-> sched[h].inspector] \in InspectionRow
    BY <2>1 DEF Request, InspectionRow, InspectionStatuses
  <2> QED
    BY <1>4, <2>2 DEF TypeOK, InsertInspection
<1>5. ASSUME NEW h \in Handlers, AbandonSchedule(h)
      PROVE TypeOK'
  BY <1>5 DEF TypeOK, AbandonSchedule
<1>6. ASSUME NEW u \in Users, NEW i \in Inspections, NEW passed \in BOOLEAN,
             NEW ids \in SUBSET Findings, NEW new \in [ids -> ClientFinding],
             CompleteInspection(u, i, passed, new)
      PROVE TypeOK'
  <2>1. inspection[i] \in InspectionRow
    BY <1>6 DEF TypeOK, CompleteInspection, NoInspection
  <2>2. Started(inspection[i]) \in InspectionRow
    BY <2>1, StartedRow
  <2>3. Completed(Started(inspection[i]), passed) \in InspectionRow
    BY <2>2, CompletedRow
  <2>4. inspection' \in [Inspections -> InspectionRow \cup {NoInspection}]
    BY <1>6, <2>3 DEF TypeOK, CompleteInspection
  <2>5. \A f \in ids : new[f] \in ClientFinding
    OBVIOUS
  <2>6. \A f \in Findings :
          (IF f \in DOMAIN new
           THEN [inspection |-> i, resolved |-> new[f].resolved,
                 noted |-> new[f].noted, version |-> 1]
           ELSE finding[f]) \in FindingRow \cup {NoFinding}
    BY <2>5 DEF TypeOK, ClientFinding, FindingRow
  <2>7. finding' \in [Findings -> FindingRow \cup {NoFinding}]
    BY <1>6, <2>6 DEF CompleteInspection
  <2> QED
    BY <1>6, <2>4, <2>7 DEF TypeOK, CompleteInspection
<1>7. ASSUME NEW u \in Users, NEW f \in Findings, NEW expected \in 1..2,
             ResolveFinding(u, f, expected)
      PROVE TypeOK'
  <2>1. finding[f] \in FindingRow
    BY <1>7 DEF TypeOK, ResolveFinding, NoFinding
  <2>2. [finding[f] EXCEPT !.resolved = TRUE, !.noted = TRUE,
                           !.version = expected + 1] \in FindingRow
    <3>1. expected + 1 \in Nat
      OBVIOUS
    <3> QED
      BY <2>1, <3>1, FindingRowUpdate
  <2>3. finding' = [finding EXCEPT ![f] =
                      [finding[f] EXCEPT !.resolved = TRUE, !.noted = TRUE,
                                         !.version = expected + 1]]
    BY <1>7 DEF TypeOK, ResolveFinding
  <2> QED
    BY <1>7, <2>2, <2>3 DEF TypeOK, ResolveFinding
<1>8. CASE UNCHANGED vars
  BY <1>8 DEF TypeOK, vars
<1> QED
  BY <1>1, <1>2, <1>3, <1>4, <1>5, <1>6, <1>7, <1>8 DEF Next

(* Closeout's variables have their types in every reachable state.         *)
THEOREM TypeCorrect == Spec => []TypeOK
<1>1. Init => TypeOK
  BY DEF Init, TypeOK, NoWork, NoInspection, NoFinding
<1>2. TypeOK /\ [Next]_vars => TypeOK'
  BY TypeStep
<1> QED
  BY <1>1, <1>2, PTL DEF Spec

-----------------------------------------------------------------------------
(* What each status says of a package's version: the lifecycle cannot be   *)
(* entered half-way.                                                       *)
VersionFloors ==
  \A w \in Works :
    /\ work[w].status = "planned" => work[w].version >= 1
    /\ work[w].status = "active" => work[w].version >= 2
    /\ work[w].status = "submitted" => work[w].version >= 3
    /\ work[w].status \in {"rework", "accepted"} => work[w].version >= 4

(* A request in flight names an inspector of its package's organization. *)
RequestsAreLocal ==
  \A h \in Handlers : sched[h] # None =>
    /\ UserOrg[sched[h].inspector] = work[sched[h].work].org
    /\ UserRole[sched[h].inspector] = "supervisor"

(* The inductive invariant: the checked invariants lean on one another and *)
(* on the two facts above.                                                 *)
IInv ==
  /\ TypeOK
  /\ VersionFloors
  /\ RequestsAreLocal
  /\ NoHalfStartedInspection
  /\ InspectionsFollowSubmission
  /\ AcceptedWorkWasInspected
  /\ PassedInspectionIsClean
  /\ AuditExplainsStatus
  /\ CheckedReferencesAreLocal

(* A row is either still missing or of its table's type. *)
LEMMA RowShapes ==
  ASSUME TypeOK
  PROVE  /\ \A w \in Works : \/ work[w] \in WorkRow /\ work[w].status # "absent"
                             \/ work[w] = NoWork /\ work[w].version = 0
                                /\ work[w].status = "absent"
         /\ \A i \in Inspections :
              \/ inspection[i] \in InspectionRow /\ inspection[i].status # "absent"
              \/ inspection[i] = NoInspection /\ inspection[i].status = "absent"
         /\ \A h \in Handlers : sched[h] # None => sched[h] \in Request
BY DEF TypeOK, WorkRow, WorkStatuses, NoWork, InspectionRow,
       InspectionStatuses, NoInspection

(* CreateWorkPackage inserts a package with its first event. *)
LEMMA CreateWorkPackageStep ==
  ASSUME IInv, TypeOK', NEW u \in Users, NEW w \in Works, NEW p \in Projects,
         NEW owner \in Owners, NEW risk \in Risks, NEW due \in DueTimes,
         CreateWorkPackage(u, w, p, owner, risk, due)
  PROVE  IInv'
<1> USE DEF IInv
<1> DEFINE event == [org |-> UserOrg[u], from |-> "absent", to |-> "planned"]
<1>1. /\ \A x \in Works \ {w} : work'[x] = work[x] /\ audit'[x] = audit[x]
      /\ work'[w].status = "planned" /\ work'[w].version = 1
      /\ work'[w].org = UserOrg[u] /\ work'[w].project = p
      /\ inspection' = inspection /\ finding' = finding /\ sched' = sched
      /\ work[w].version = 0
  BY RowShapes DEF TypeOK, CreateWorkPackage
<1>2. audit[w] = <<>>
  <2>1. audit[w] \in Seq(Event) /\ Len(audit[w]) = 0
    BY <1>1 DEF TypeOK, AuditExplainsStatus
  <2> QED
    BY <2>1
<1>3. audit'[w] = <<event>>
  <2>1. audit'[w] = Append(audit[w], event)
    BY DEF TypeOK, CreateWorkPackage
  <2> QED
    BY <1>2, <2>1
<1>4. \A i \in Inspections : inspection[i].status # "absent" =>
        inspection[i].work \in Works \ {w}
  BY <1>1, RowShapes DEF InspectionsFollowSubmission, InspectionRow
<1>5. \A h \in Handlers : sched[h] # None => sched[h].work \in Works \ {w}
  BY <1>1, RowShapes DEF InspectionsFollowSubmission, Request
<1>6. VersionFloors'
  BY <1>1 DEF VersionFloors
<1>7. RequestsAreLocal'
  BY <1>1, <1>5 DEF RequestsAreLocal
<1>8. NoHalfStartedInspection'
  BY <1>1 DEF NoHalfStartedInspection
<1>9. InspectionsFollowSubmission'
  BY <1>1, <1>4, <1>5 DEF InspectionsFollowSubmission
<1>10. AcceptedWorkWasInspected'
  BY <1>1 DEF AcceptedWorkWasInspected
<1>11. PassedInspectionIsClean'
  BY <1>1 DEF PassedInspectionIsClean, OpenFindings
<1>12. AuditExplainsStatus'
  <2>1. /\ Len(audit'[w]) = 1 /\ audit'[w] # <<>>
        /\ audit'[w][1].from = "absent" /\ audit'[w][1].to = "planned"
    BY <1>3
  <2> SUFFICES ASSUME NEW x \in Works
               PROVE  /\ Len(audit'[x]) = work'[x].version
                      /\ \A n \in 1..Len(audit'[x]) :
                           audit'[x][n].from = IF n = 1 THEN "absent"
                                               ELSE audit'[x][n - 1].to
                      /\ work'[x].status =
                           IF audit'[x] = <<>> THEN "absent"
                           ELSE audit'[x][Len(audit'[x])].to
    BY DEF AuditExplainsStatus
  <2>2. CASE x # w
    BY <1>1, <2>2 DEF AuditExplainsStatus
  <2>3. CASE x = w
    <3>1. \A n \in 1..1 : n = 1
      OBVIOUS
    <3> QED
      BY <1>1, <2>1, <2>3, <3>1
  <2> QED
    BY <2>2, <2>3
<1>13. CheckedReferencesAreLocal'
  <2>1. \A x \in Works : work'[x].status # "absent" =>
          /\ work'[x].org = ProjectOrg[work'[x].project]
          /\ \A n \in 1..Len(audit'[x]) : audit'[x][n].org = work'[x].org
    BY <1>1, <1>3 DEF CheckedReferencesAreLocal, CreateWorkPackage
  <2>2. \A i \in Inspections : inspection[i].status # "absent" =>
          InspectionOrg(i)' = InspectionOrg(i)
    BY <1>1, <1>4 DEF InspectionOrg
  <2> QED
    BY <1>1, <2>1, <2>2 DEF CheckedReferencesAreLocal
<1> QED
  BY <1>6, <1>7, <1>8, <1>9, <1>10, <1>11, <1>12, <1>13

(* TransitionWork moves one package a stage on and appends the event.      *)
LEMMA TransitionWorkStep ==
  ASSUME IInv, TypeOK', NEW u \in Users, NEW w \in Works,
         NEW to \in WorkStatuses, NEW expected \in 1..MaxWorkVersion,
         TransitionWork(u, w, to, expected)
  PROVE  IInv'
<1> USE DEF IInv
<1> DEFINE event == [org |-> UserOrg[u], from |-> work[w].status, to |-> to]
<1>1. work[w] \in WorkRow /\ work[w].status # "absent" /\ expected + 1 \in Nat
  BY RowShapes, ConstantsAssumption DEF TransitionWork
<1>2. /\ \A x \in Works \ {w} : work'[x] = work[x] /\ audit'[x] = audit[x]
      /\ work'[w] = [work[w] EXCEPT !.status = to, !.version = expected + 1]
      /\ inspection' = inspection /\ finding' = finding /\ sched' = sched
      /\ work[w].version = expected /\ work[w].org = UserOrg[u]
  BY DEF TypeOK, TransitionWork
<1>3. /\ work'[w].status = to /\ work'[w].version = expected + 1
      /\ work'[w].org = work[w].org /\ work'[w].project = work[w].project
  <2> HIDE DEF IInv
  <2>1. work'[w] = [work[w] EXCEPT !.status = to, !.version = expected + 1]
    BY <1>2
  <2> QED
    BY <1>1, <2>1 DEF WorkRow
<1>4. /\ audit[w] \in Seq(Event) /\ Len(audit[w]) = expected
      /\ audit'[w] = Append(audit[w], event)
  BY <1>2 DEF TypeOK, TransitionWork, AuditExplainsStatus
<1>5. /\ Len(audit'[w]) = expected + 1
      /\ \A n \in 1..expected : audit'[w][n] = audit[w][n]
      /\ audit'[w][expected + 1] = event
  BY <1>4
<1>6. VersionFloors'
  <2>1. to \in NextStatuses(work[w].status)
    BY DEF TransitionWork
  <2>2. /\ to = "active" => work[w].status \in {"planned", "rework"}
        /\ to = "submitted" => work[w].status = "active"
        /\ to \in {"rework", "accepted"} => work[w].status = "submitted"
        /\ to # "planned"
    BY <2>1 DEF NextStatuses
  <2>3. /\ to = "active" => expected + 1 >= 2
        /\ to = "submitted" => expected + 1 >= 3
        /\ to \in {"rework", "accepted"} => expected + 1 >= 4
    BY <1>2, <2>2 DEF VersionFloors
  <2> QED
    BY <1>2, <1>3, <2>2, <2>3 DEF VersionFloors
<1>7. \A x \in Works : /\ work[x].version >= 3 => work'[x].version >= 3
                      /\ work'[x].org = work[x].org
  <2>1. \A x \in Works \ {w} : work'[x] = work[x]
    BY <1>2
  <2>2. work[w].version >= 3 => work'[w].version >= 3
    BY <1>2, <1>3
  <2> QED
    BY <1>3, <2>1, <2>2
<1>8. /\ \A i \in Inspections : inspection[i].status # "absent" =>
           inspection[i].work \in Works
      /\ \A h \in Handlers : sched[h] # None => sched[h].work \in Works
  BY RowShapes DEF InspectionRow, Request
<1>9. RequestsAreLocal'
  BY <1>2, <1>7, <1>8 DEF RequestsAreLocal
<1>10. NoHalfStartedInspection'
  BY <1>2 DEF NoHalfStartedInspection
<1>11. InspectionsFollowSubmission'
  BY <1>2, <1>7, <1>8 DEF InspectionsFollowSubmission
<1>12. AcceptedWorkWasInspected'
  <2>1. to = "accepted" => \E i \in Inspections :
          inspection[i].work = w /\ inspection[i].status = "passed"
    BY DEF TransitionWork, WorkAcceptanceEvidence
  <2> QED
    BY <1>2, <1>3, <2>1 DEF AcceptedWorkWasInspected
<1>13. PassedInspectionIsClean'
  BY <1>2 DEF PassedInspectionIsClean, OpenFindings
<1>14. AuditExplainsStatus'
  <2> SUFFICES ASSUME NEW x \in Works
               PROVE  /\ Len(audit'[x]) = work'[x].version
                      /\ \A n \in 1..Len(audit'[x]) :
                           audit'[x][n].from = IF n = 1 THEN "absent"
                                               ELSE audit'[x][n - 1].to
                      /\ work'[x].status =
                           IF audit'[x] = <<>> THEN "absent"
                           ELSE audit'[x][Len(audit'[x])].to
    BY DEF AuditExplainsStatus
  <2>1. CASE x # w
    BY <1>2, <2>1 DEF AuditExplainsStatus
  <2>2. CASE x = w
    <3>1. Len(audit'[w]) = work'[w].version
      BY <1>3, <1>5
    <3>2. work[w].status = audit[w][expected].to
      BY <1>4 DEF AuditExplainsStatus
    <3>3. ASSUME NEW n \in 1..Len(audit'[w])
          PROVE audit'[w][n].from = IF n = 1 THEN "absent"
                                    ELSE audit'[w][n - 1].to
      <4>1. CASE n = expected + 1
        <5>1. n # 1 /\ n - 1 \in 1..expected /\ n - 1 = expected
          BY <4>1
        <5>2. audit'[w][n].from = work[w].status
          BY <1>5, <4>1
        <5>3. audit'[w][n - 1].to = audit[w][expected].to
          BY <1>5, <5>1
        <5> QED
          BY <3>2, <5>1, <5>2, <5>3
      <4>2. CASE n # expected + 1
        <5>1. n \in 1..expected
          BY <1>5, <4>2
        <5>2. audit[w][n].from = IF n = 1 THEN "absent" ELSE audit[w][n - 1].to
          BY <1>4, <5>1 DEF AuditExplainsStatus
        <5>3. n # 1 => n - 1 \in 1..expected
          BY <5>1
        <5> QED
          BY <1>5, <5>1, <5>2, <5>3
      <4> QED
        BY <4>1, <4>2
    <3>4. work'[w].status = audit'[w][Len(audit'[w])].to
      BY <1>3, <1>5
    <3>5. audit'[w] # <<>>
      BY <1>5
    <3> QED
      BY <2>2, <3>1, <3>3, <3>4, <3>5
  <2> QED
    BY <2>1, <2>2
<1>15. CheckedReferencesAreLocal'
  <2>1. \A n \in 1..Len(audit'[w]) : audit'[w][n].org = work'[w].org
    <3> SUFFICES ASSUME NEW n \in 1..Len(audit'[w])
                 PROVE audit'[w][n].org = work'[w].org
      OBVIOUS
    <3>1. CASE n = expected + 1
      BY <1>2, <1>3, <1>5, <3>1
    <3>2. CASE n # expected + 1
      <4>1. n \in 1..expected
        BY <1>5, <3>2
      <4>2. audit[w][n].org = work[w].org
        BY <1>1, <1>4, <4>1 DEF CheckedReferencesAreLocal
      <4> QED
        BY <1>3, <1>5, <4>1, <4>2
    <3> QED
      BY <3>1, <3>2
  <2>2. work'[w].org = ProjectOrg[work'[w].project]
    BY <1>1, <1>3 DEF CheckedReferencesAreLocal
  <2>3. \A x \in Works \ {w} : work'[x].status # "absent" =>
          /\ work'[x].org = ProjectOrg[work'[x].project]
          /\ \A n \in 1..Len(audit'[x]) : audit'[x][n].org = work'[x].org
    <3> HIDE DEF IInv
    <3>1. CheckedReferencesAreLocal
      BY DEF IInv
    <3> QED
      BY <1>2, <3>1 DEF CheckedReferencesAreLocal
  <2>4. \A i \in Inspections : inspection[i].status # "absent" =>
          InspectionOrg(i)' = InspectionOrg(i)
    BY <1>2, <1>7, <1>8 DEF InspectionOrg
  <2>5. \A x \in Works : work'[x].status # "absent" =>
          /\ work'[x].org = ProjectOrg[work'[x].project]
          /\ \A n \in 1..Len(audit'[x]) : audit'[x][n].org = work'[x].org
    BY <2>1, <2>2, <2>3
  <2> QED
    BY <1>2, <2>4, <2>5 DEF CheckedReferencesAreLocal
<1> QED
  BY <1>6, <1>9, <1>10, <1>11, <1>12, <1>13, <1>14, <1>15

(* The check of ScheduleInspection leaves the tables alone and finds the   *)
(* package at a submission.                                                *)
LEMMA CheckScheduleStep ==
  ASSUME IInv, TypeOK', NEW h \in Handlers, NEW u \in Users,
         NEW w \in Works, NEW inspector \in Users,
         CheckSchedule(h, u, w, inspector)
  PROVE  IInv'
<1>1. /\ work' = work /\ inspection' = inspection /\ finding' = finding
      /\ audit' = audit
      /\ \A x \in Handlers \ {h} : sched'[x] = sched[x]
      /\ sched'[h].work = w /\ sched'[h].inspector = inspector
      /\ work[w].version >= 3
      /\ UserOrg[inspector] = work[w].org /\ UserRole[inspector] = "supervisor"
  BY DEF IInv, TypeOK, VersionFloors, CheckSchedule
<1>2. RequestsAreLocal'
  BY <1>1 DEF IInv, RequestsAreLocal
<1>3. InspectionsFollowSubmission'
  BY <1>1 DEF IInv, InspectionsFollowSubmission
<1> QED
  BY <1>1, <1>2, <1>3
  DEF IInv, VersionFloors, NoHalfStartedInspection, AcceptedWorkWasInspected,
      PassedInspectionIsClean, OpenFindings, AuditExplainsStatus,
      CheckedReferencesAreLocal, InspectionOrg

(* The insert of ScheduleInspection adds a scheduled inspection to the     *)
(* package that was checked, whatever became of the package meanwhile.     *)
LEMMA InsertInspectionStep ==
  ASSUME IInv, TypeOK', NEW h \in Handlers, NEW i \in Inspections,
         InsertInspection(h, i)
  PROVE  IInv'
<1>1. sched[h] \in Request /\ sched[h] # None
  BY RowShapes DEF IInv, InsertInspection
<1>2. /\ work' = work /\ finding' = finding /\ audit' = audit
      /\ \A x \in Handlers \ {h} : sched'[x] = sched[x]
      /\ sched'[h] = None
      /\ \A x \in Inspections \ {i} : inspection'[x] = inspection[x]
      /\ inspection'[i].status = "scheduled" /\ inspection'[i].version = 1
      /\ inspection'[i].work = sched[h].work
      /\ inspection'[i].inspector = sched[h].inspector
      /\ inspection[i].status = "absent"
  BY DEF IInv, TypeOK, InsertInspection
<1>3. RequestsAreLocal'
  BY <1>2 DEF IInv, RequestsAreLocal
<1>4. NoHalfStartedInspection'
  BY <1>2 DEF IInv, NoHalfStartedInspection
<1>5. InspectionsFollowSubmission'
  BY <1>1, <1>2 DEF IInv, InspectionsFollowSubmission
<1>6. AcceptedWorkWasInspected'
  BY <1>2 DEF IInv, AcceptedWorkWasInspected
<1>7. PassedInspectionIsClean'
  BY <1>2 DEF IInv, PassedInspectionIsClean, OpenFindings
<1>8. CheckedReferencesAreLocal'
  <2>1. /\ UserOrg[inspection'[i].inspector] = work[inspection'[i].work].org
        /\ UserRole[inspection'[i].inspector] = "supervisor"
    BY <1>1, <1>2 DEF IInv, RequestsAreLocal
  <2> QED
    BY <1>2, <2>1 DEF IInv, CheckedReferencesAreLocal, InspectionOrg
<1> QED
  BY <1>2, <1>3, <1>4, <1>5, <1>6, <1>7, <1>8
  DEF IInv, VersionFloors, AuditExplainsStatus

(* CompleteInspection judges a scheduled inspection on all its findings.   *)
LEMMA CompleteInspectionStep ==
  ASSUME IInv, TypeOK', NEW u \in Users, NEW i \in Inspections,
         NEW passed \in BOOLEAN, NEW ids \in SUBSET Findings,
         NEW new \in [ids -> ClientFinding],
         CompleteInspection(u, i, passed, new)
  PROVE  IInv'
<1> DEFINE started == Started(inspection[i])
<1>1. /\ work' = work /\ audit' = audit /\ sched' = sched
      /\ inspection[i].status # "absent"
      /\ \A x \in Inspections \ {i} : inspection'[x] = inspection[x]
      /\ inspection'[i] = Completed(started, passed)
      /\ Completable(started, passed, OpenFindings(finding', i))
      /\ \A f \in Findings \ ids : finding'[f] = finding[f]
      /\ \A f \in ids : finding'[f].inspection = i
  BY DEF IInv, TypeOK, CompleteInspection, OpenFindings
<1>2. inspection[i] \in InspectionRow
  BY <1>1, RowShapes DEF IInv
<1>3. inspection[i].status = "scheduled" /\ inspection[i].version = 1
  <2>1. started.status = "executing"
    BY <1>1 DEF Completable
  <2>2. inspection[i].status # "scheduled" => started = inspection[i]
    BY <1>2, StartedRow
  <2> QED
    BY <2>1, <2>2 DEF IInv, NoHalfStartedInspection
<1>4. /\ started \in InspectionRow
      /\ started.work = inspection[i].work
      /\ started.inspector = inspection[i].inspector
      /\ started.version = 2
  BY <1>2, <1>3, StartedRow
<1> HIDE DEF started
<1>5. /\ inspection'[i].work = inspection[i].work
      /\ inspection'[i].inspector = inspection[i].inspector
      /\ inspection'[i].version = 3
      /\ inspection'[i].status = IF passed THEN "passed" ELSE "failed"
  BY <1>1, <1>4, CompletedRow
<1>6. NoHalfStartedInspection'
  BY <1>1, <1>5 DEF IInv, NoHalfStartedInspection
<1>7. InspectionsFollowSubmission'
  BY <1>1, <1>5 DEF IInv, InspectionsFollowSubmission
<1>8. AcceptedWorkWasInspected'
  BY <1>1, <1>3 DEF IInv, AcceptedWorkWasInspected
<1>9. PassedInspectionIsClean'
  <2> SUFFICES ASSUME NEW x \in Inspections, inspection'[x].status = "passed"
               PROVE  OpenFindings(finding', x) = {}
    BY DEF PassedInspectionIsClean, OpenFindings
  <2>1. CASE x = i
    BY <1>1, <1>5, <2>1 DEF Completable
  <2>2. CASE x # i
    BY <1>1, <2>2 DEF IInv, PassedInspectionIsClean, OpenFindings
  <2> QED
    BY <2>1, <2>2
<1>10. CheckedReferencesAreLocal'
  BY <1>1, <1>5 DEF IInv, CheckedReferencesAreLocal, InspectionOrg
<1> QED
  BY <1>1, <1>6, <1>7, <1>8, <1>9, <1>10
  DEF IInv, VersionFloors, RequestsAreLocal, AuditExplainsStatus

(* ResolveFinding only ever takes a finding off the open ones. *)
LEMMA ResolveFindingStep ==
  ASSUME IInv, TypeOK', NEW u \in Users, NEW f \in Findings,
         NEW expected \in 1..2, ResolveFinding(u, f, expected)
  PROVE  IInv'
<1>1. /\ work' = work /\ inspection' = inspection /\ audit' = audit
      /\ sched' = sched
      /\ \A x \in Findings \ {f} : finding'[x] = finding[x]
      /\ finding'[f].resolved = TRUE
  <2>1. finding[f] \in FindingRow
    BY DEF IInv, TypeOK, ResolveFinding, NoFinding
  <2>2. finding'[f] = [finding[f] EXCEPT !.resolved = TRUE, !.noted = TRUE,
                                         !.version = expected + 1]
    BY DEF IInv, TypeOK, ResolveFinding
  <2>3. finding'[f].resolved = TRUE
    BY <2>1, <2>2 DEF FindingRow
  <2> QED
    BY <2>3 DEF IInv, TypeOK, ResolveFinding
<1>2. PassedInspectionIsClean'
  BY <1>1 DEF IInv, PassedInspectionIsClean, OpenFindings
<1> QED
  BY <1>1, <1>2
  DEF IInv, VersionFloors, RequestsAreLocal, NoHalfStartedInspection,
      InspectionsFollowSubmission, AcceptedWorkWasInspected,
      AuditExplainsStatus, CheckedReferencesAreLocal, InspectionOrg

LEMMA InductiveStep == ASSUME IInv, [Next]_vars PROVE IInv'
<1>1. TypeOK'
  BY TypeStep DEF IInv
<1>2. ASSUME NEW h \in Handlers, AbandonSchedule(h) PROVE IInv'
  BY <1>1, <1>2
  DEF IInv, TypeOK, AbandonSchedule, VersionFloors, RequestsAreLocal,
      NoHalfStartedInspection, InspectionsFollowSubmission,
      AcceptedWorkWasInspected, PassedInspectionIsClean, OpenFindings,
      AuditExplainsStatus, CheckedReferencesAreLocal, InspectionOrg
<1>3. CASE UNCHANGED vars
  BY <1>1, <1>3
  DEF IInv, vars, VersionFloors, RequestsAreLocal,
      NoHalfStartedInspection, InspectionsFollowSubmission,
      AcceptedWorkWasInspected, PassedInspectionIsClean, OpenFindings,
      AuditExplainsStatus, CheckedReferencesAreLocal, InspectionOrg
<1> QED
  BY <1>1, <1>2, <1>3, CreateWorkPackageStep, TransitionWorkStep,
     CheckScheduleStep, InsertInspectionStep, CompleteInspectionStep,
     ResolveFindingStep
  DEF Next

LEMMA InductiveInit == Init => IInv
BY DEF Init, IInv, TypeOK, NoWork, NoInspection, NoFinding, VersionFloors,
       RequestsAreLocal, NoHalfStartedInspection, InspectionsFollowSubmission,
       AcceptedWorkWasInspected, PassedInspectionIsClean, OpenFindings,
       AuditExplainsStatus, CheckedReferencesAreLocal

(* The closeout promises, in every reachable state and for any number of   *)
(* packages, inspections, findings, users and handlers: an accepted        *)
(* package keeps a passed inspection, a passed inspection has no open      *)
(* finding, inspections only belong to packages once submitted, the audit  *)
(* trail explains every status, and organizations do not mix.              *)
THEOREM CloseoutIsSafe ==
  Spec => [](/\ AcceptedWorkWasInspected
             /\ PassedInspectionIsClean
             /\ InspectionsFollowSubmission
             /\ AuditExplainsStatus
             /\ CheckedReferencesAreLocal)
<1>1. Init => IInv
  BY InductiveInit
<1>2. IInv /\ [Next]_vars => IInv'
  BY InductiveStep
<1>3. IInv => /\ AcceptedWorkWasInspected
              /\ PassedInspectionIsClean
              /\ InspectionsFollowSubmission
              /\ AuditExplainsStatus
              /\ CheckedReferencesAreLocal
  BY DEF IInv
<1> QED
  BY <1>1, <1>2, <1>3, PTL DEF Spec

-----------------------------------------------------------------------------
(* A committed operation moves each package along the lifecycle of         *)
(* WorkPackage.Transition, one version at a time, or leaves it alone.      *)
LEMMA WorkTableStep == ASSUME IInv, [Next]_vars PROVE WorkRows!Next
<1> USE DEF WorkRows!Inserted, WorkRows!Moved, WorkRows!Kept
<1> SUFFICES ASSUME NEW x \in Works
             PROVE  \/ WorkRows!Inserted(x) \/ WorkRows!Moved(x)
                    \/ WorkRows!Kept(x)
  BY DEF WorkRows!Next
<1>t. work \in [Works -> WorkRow \cup {NoWork}]
  BY DEF IInv, TypeOK
<1>1. ASSUME NEW u \in Users, NEW w \in Works, NEW p \in Projects,
             NEW owner \in Owners, NEW risk \in Risks, NEW due \in DueTimes,
             CreateWorkPackage(u, w, p, owner, risk, due)
      PROVE  WorkRows!Inserted(x) \/ WorkRows!Kept(x)
  BY <1>t, <1>1 DEF CreateWorkPackage
<1>2. ASSUME NEW u \in Users, NEW w \in Works, NEW to \in WorkStatuses,
             NEW expected \in 1..MaxWorkVersion,
             TransitionWork(u, w, to, expected)
      PROVE  WorkRows!Moved(x) \/ WorkRows!Kept(x)
  <2>1. CASE x # w
    BY <1>t, <1>2, <2>1 DEF TransitionWork
  <2>2. CASE x = w
    <3>1. /\ work'[w].status = to
          /\ work'[w].version = work[w].version + 1
      <4>1. work[w] \in WorkRow
        BY <1>t, <1>2 DEF TransitionWork, NoWork
      <4>2. work'[w] = [work[w] EXCEPT !.status = to, !.version = expected + 1]
        BY <1>t, <1>2 DEF TransitionWork
      <4>3. work[w].version = expected
        BY <1>2 DEF TransitionWork
      <4> QED
        BY <4>1, <4>2, <4>3 DEF WorkRow
    <3>2. [from |-> work[w].status, to |-> to, bump |-> 1] \in WorkMoves
      BY <1>2 DEF TransitionWork, NextStatuses, WorkMoves
    <3> QED
      BY <2>2, <3>1, <3>2
  <2> QED
    BY <2>1, <2>2
<1>3. CASE UNCHANGED work
  BY <1>3
<1> QED
  BY <1>1, <1>2, <1>3
  DEF Next, vars, CheckSchedule, InsertInspection, AbandonSchedule,
      CompleteInspection, ResolveFinding

(* Nobody reads an inspection between its start and its result: a row goes *)
(* from scheduled to its result in one step that is worth two versions.    *)
(* NoHalfStartedInspection is why Started always does the starting.        *)
LEMMA InspectionTableStep == ASSUME IInv, [Next]_vars PROVE InspectionRows!Next
<1> USE DEF InspectionRows!Inserted, InspectionRows!Moved, InspectionRows!Kept
<1> SUFFICES ASSUME NEW x \in Inspections
             PROVE  \/ InspectionRows!Inserted(x) \/ InspectionRows!Moved(x)
                    \/ InspectionRows!Kept(x)
  BY DEF InspectionRows!Next
<1>t. inspection \in [Inspections -> InspectionRow \cup {NoInspection}]
  BY DEF IInv, TypeOK
<1>1. ASSUME NEW h \in Handlers, NEW i \in Inspections,
             InsertInspection(h, i)
      PROVE  InspectionRows!Inserted(x) \/ InspectionRows!Kept(x)
  BY <1>t, <1>1 DEF InsertInspection
<1>2. ASSUME NEW u \in Users, NEW i \in Inspections, NEW passed \in BOOLEAN,
             NEW ids \in SUBSET Findings, NEW new \in [ids -> ClientFinding],
             CompleteInspection(u, i, passed, new)
      PROVE  InspectionRows!Moved(x) \/ InspectionRows!Kept(x)
  <2>1. CASE x # i
    BY <1>t, <1>2, <2>1 DEF CompleteInspection
  <2>2. CASE x = i
    <3>1. inspection[i] \in InspectionRow
      BY <1>t, <1>2 DEF CompleteInspection, NoInspection
    <3>2. inspection[i].status = "scheduled"
      <4>1. Started(inspection[i]).status = "executing"
        BY <1>2 DEF CompleteInspection, Completable
      <4>2. inspection[i].status # "executing"
        BY DEF IInv, NoHalfStartedInspection
      <4> QED
        BY <3>1, <4>1, <4>2, StartedRow
    <3>3. /\ Started(inspection[i]) \in InspectionRow
          /\ Started(inspection[i]).version = inspection[i].version + 1
      BY <3>1, <3>2, StartedRow
    <3>4. inspection'[i] = Completed(Started(inspection[i]), passed)
      BY <1>t, <1>2 DEF CompleteInspection
    <3>5. /\ inspection'[i].status = IF passed THEN "passed" ELSE "failed"
          /\ inspection'[i].version = (inspection[i].version + 1) + 1
      BY <3>3, <3>4, CompletedRow
    <3>6. inspection'[i].version = inspection[i].version + 2
      BY <3>1, <3>5 DEF InspectionRow
    <3> QED
      BY <2>2, <3>2, <3>5, <3>6 DEF InspectionMoves
  <2> QED
    BY <2>1, <2>2
<1>3. CASE UNCHANGED inspection
  BY <1>3
<1> QED
  BY <1>1, <1>2, <1>3
  DEF Next, vars, CreateWorkPackage, TransitionWork, CheckSchedule,
      AbandonSchedule, ResolveFinding

(* A finding is inserted with its inspection's result, open or resolved,   *)
(* and is resolved at most once.                                           *)
LEMMA FindingTableStep == ASSUME IInv, [Next]_vars PROVE FindingRows!Next
<1> USE DEF FindingRows!Inserted, FindingRows!Moved, FindingRows!Kept
<1> SUFFICES ASSUME NEW x \in Findings
             PROVE  \/ FindingRows!Inserted(x) \/ FindingRows!Moved(x)
                    \/ FindingRows!Kept(x)
  BY DEF FindingRows!Next
<1>t. finding \in [Findings -> FindingRow \cup {NoFinding}]
  BY DEF IInv, TypeOK
<1>1. ASSUME NEW u \in Users, NEW i \in Inspections, NEW passed \in BOOLEAN,
             NEW ids \in SUBSET Findings, NEW new \in [ids -> ClientFinding],
             CompleteInspection(u, i, passed, new)
      PROVE  FindingRows!Inserted(x) \/ FindingRows!Kept(x)
  <2>1. CASE x \in DOMAIN new
    <3>1. /\ finding'[x].inspection = i
          /\ finding'[x].version = 1
          /\ finding[x].inspection = None
      BY <1>1, <2>1 DEF CompleteInspection
    <3>2. i # None
      BY ConstantsAssumption
    <3> QED
      BY <3>1, <3>2 DEF FindingStatus
  <2>2. CASE x \notin DOMAIN new
    BY <1>1, <2>2 DEF CompleteInspection, FindingStatus
  <2> QED
    BY <2>1, <2>2
<1>2. ASSUME NEW u \in Users, NEW f \in Findings, NEW expected \in 1..2,
             ResolveFinding(u, f, expected)
      PROVE  FindingRows!Moved(x) \/ FindingRows!Kept(x)
  <2>1. CASE x # f
    BY <1>t, <1>2, <2>1 DEF ResolveFinding, FindingStatus
  <2>2. CASE x = f
    <3>1. finding[f] \in FindingRow
      BY <1>t, <1>2 DEF ResolveFinding, NoFinding
    <3>2. /\ finding'[f].inspection = finding[f].inspection
          /\ finding'[f].resolved = TRUE
          /\ finding'[f].version = finding[f].version + 1
      BY <1>t, <1>2, <3>1 DEF ResolveFinding, FindingRow
    <3>3. FindingStatus(f) = "open" /\ FindingStatus(f)' = "resolved"
      BY <1>2, <3>2 DEF ResolveFinding, FindingStatus
    <3> QED
      BY <2>2, <3>2, <3>3 DEF FindingMoves
  <2> QED
    BY <2>1, <2>2
<1>3. CASE UNCHANGED finding
  BY <1>3 DEF FindingStatus
<1> QED
  BY <1>1, <1>2, <1>3
  DEF Next, vars, CreateWorkPackage, TransitionWork, CheckSchedule,
      InsertInspection, AbandonSchedule

(* The three tables of the closeout implement versioned rows: a package    *)
(* never skips, repeats or undoes a stage and its acceptance is final, an  *)
(* inspection gets its result once and a finding is resolved once.         *)
THEOREM TablesAreVersioned == Spec => Lifecycles
<1>1. Init => WorkRows!Init /\ InspectionRows!Init /\ FindingRows!Init
  BY DEF Init, NoWork, NoInspection, NoFinding, FindingStatus,
         WorkRows!Init, InspectionRows!Init, FindingRows!Init
<1>2. IInv /\ [Next]_vars
      => WorkRows!Next /\ InspectionRows!Next /\ FindingRows!Next
  BY WorkTableStep, InspectionTableStep, FindingTableStep
<1>3. Init => IInv
  BY InductiveInit
<1>4. IInv /\ [Next]_vars => IInv'
  BY InductiveStep
<1> QED
  BY <1>1, <1>2, <1>3, <1>4, PTL
  DEF Spec, Lifecycles, WorkRows!Spec, InspectionRows!Spec, FindingRows!Spec
=============================================================================
