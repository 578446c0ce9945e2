------------------------------ MODULE Handover ------------------------------
(***************************************************************************)
(* The handover dossier of a project and its opening readiness             *)
(* (internal/service/dossier.go, readiness.go), over the closeout of its   *)
(* work packages, which goes on while a dossier is assembled, reviewed and *)
(* after it is decided.  A project has at most one dossier                 *)
(* (UNIQUE(project_id)), so dossiers are named by their projects.  Of load *)
(* commissioning only the passed runs matter; LoadTest shows that a run    *)
(* keeps its verdict.                                                      *)
(***************************************************************************)
EXTENDS Closeout, Timestamps

CONSTANTS
  Documents,   \* kinds of documents a dossier may require
  Uris,        \* where a received document is kept
  Instants     \* times at which opening readiness is asked for

ASSUME HandoverAssumption == DueTimes \cup Instants \subseteq Nat

VARIABLES
  dossier,   \* Projects -> row of handover_dossiers and its documents
  proven     \* projects with a passed load run

handoverVars == <<work, inspection, finding, audit, sched, dossier, proven>>

-----------------------------------------------------------------------------
DossierStatuses == {"assembling", "under_review", "approved", "rejected"}

(* required: the rows of dossier_documents; received: the uri of those     *)
(* that have one.                                                          *)
NoDossier == [status |-> "absent", version |-> 0, required |-> {},
              received |-> <<>>]

DossierRow == [status : DossierStatuses, version : Nat,
               required : SUBSET Documents,
               received : UNION {[kinds -> Uris] : kinds \in SUBSET Documents}]

HandoverInit ==
  /\ Init
  /\ dossier = [p \in Projects |-> NoDossier]
  /\ proven = {}

(* The parts of DossierEvidence, as the sets that the query counts. *)
Packages(p) == {w \in Works : work[w].status # "absent" /\ work[w].project = p}

ProjectFindings(p) ==
  {f \in Findings : /\ finding[f].inspection # None
                    /\ ~finding[f].resolved
                    /\ inspection[finding[f].inspection].work \in Packages(p)}

UnacceptedWork(p) == {w \in Packages(p) : work[w].status # "accepted"}

HasInspection(w, status) ==
  \E i \in Inspections : inspection[i].work = w /\ inspection[i].status = status

FailedInspections(p) ==
  {w \in Packages(p) : HasInspection(w, "failed") /\ ~HasInspection(w, "passed")}

(* Mutated form: required documents are counted, received ones are not. *)
ReadyWithoutDocuments(p) ==
  /\ dossier[p].required # {}
  /\ ProjectFindings(p) = {} /\ UnacceptedWork(p) = {}
  /\ FailedInspections(p) = {}
  /\ p \in proven

(* DossierEvidence.Ready *)
Ready(p) ==
  /\ dossier[p].required # {} /\ DOMAIN dossier[p].received = dossier[p].required
  /\ ProjectFindings(p) = {} /\ UnacceptedWork(p) = {}
  /\ FailedInspections(p) = {}
  /\ p \in proven

(* Mutated form: findings are left to the dossier's review. *)
BlockedByWork(p, now) ==
  \/ \E w \in UnacceptedWork(p) : \/ work[w].risk \in {"high", "critical"}
                                  \/ TextLess(work[w].due, now)
  \/ dossier[p].status # "approved"

(* OpeningBlockers at time now: risky work, work whose due time as a text  *)
(* comes before that of now, open findings, and a dossier that is missing  *)
(* or not approved.                                                        *)
Blocked(p, now) ==
  \/ \E w \in UnacceptedWork(p) : \/ work[w].risk \in {"high", "critical"}
                                  \/ TextLess(work[w].due, now)
  \/ ProjectFindings(p) # {}
  \/ dossier[p].status # "approved"

OfProject(u, p) == UserOrg[u] = ProjectOrg[p]

-----------------------------------------------------------------------------
CreateDossier(u, p, documents) ==
  /\ UserRole[u] = "owner_admin" /\ OfProject(u, p)
  /\ dossier[p].status = "absent"
  /\ documents # {}
  /\ dossier' = [dossier EXCEPT ![p] =
       [status |-> "assembling", version |-> 1, required |-> documents,
        received |-> <<>>]]
  /\ UNCHANGED <<vars, proven>>

(* The update of a document's row: it gets the uri, others keep theirs.    *)
WithDocument(received, kind, uri) ==
  [k \in DOMAIN received \cup {kind} |->
     IF k = kind THEN uri ELSE received[k]]

(* Mutated form: documents are received at any time. *)
ReceiveDossierDocumentLate(u, p, kind, uri) ==
  /\ UserRole[u] \in {"owner_admin", "contractor_engineer"} /\ OfProject(u, p)
  /\ dossier[p].status # "absent"
  /\ kind \in dossier[p].required
  /\ dossier' = [dossier EXCEPT ![p].received = WithDocument(@, kind, uri)]
  /\ UNCHANGED <<vars, proven>>

(* Mutated form: a document of any kind is inserted. *)
ReceiveAnyDocument(u, p, kind, uri) ==
  /\ UserRole[u] \in {"owner_admin", "contractor_engineer"} /\ OfProject(u, p)
  /\ dossier[p].status = "assembling"
  /\ dossier' = [dossier EXCEPT ![p].received = WithDocument(@, kind, uri)]
  /\ UNCHANGED <<vars, proven>>

(* Receiving a document again replaces it; no version is raised. *)
ReceiveDossierDocument(u, p, kind, uri) ==
  /\ UserRole[u] \in {"owner_admin", "contractor_engineer"} /\ OfProject(u, p)
  /\ dossier[p].status = "assembling"
  /\ kind \in dossier[p].required
  /\ dossier' = [dossier EXCEPT ![p].received = WithDocument(@, kind, uri)]
  /\ UNCHANGED <<vars, proven>>

SubmitDossier(u, p, expected) ==
  /\ UserRole[u] = "owner_admin" /\ OfProject(u, p)
  /\ dossier[p].version = expected
  /\ dossier[p].status = "assembling"
  /\ Ready(p)
  /\ dossier' = [dossier EXCEPT ![p].status = "under_review",
                                ![p].version = expected + 1]
  /\ UNCHANGED <<vars, proven>>

(* Mutated form: the evidence of the submission is trusted. *)
DecideDossierOnSubmission(u, p, approve, expected) ==
  /\ UserRole[u] = "supervisor" /\ OfProject(u, p)
  /\ dossier[p].version = expected
  /\ dossier[p].status = "under_review"
  /\ dossier' = [dossier EXCEPT
       ![p].status = IF approve THEN "approved" ELSE "rejected",
       ![p].version = expected + 1]
  /\ UNCHANGED <<vars, proven>>

(* Mutated form: a decided dossier can be decided again. *)
DecideDossierAgain(u, p, approve, expected) ==
  /\ UserRole[u] = "supervisor" /\ OfProject(u, p)
  /\ dossier[p].version = expected
  /\ dossier[p].status \in {"under_review", "rejected"}
  /\ approve => Ready(p)
  /\ dossier' = [dossier EXCEPT
       ![p].status = IF approve THEN "approved" ELSE "rejected",
       ![p].version = expected + 1]
  /\ UNCHANGED <<vars, proven>>

(* An approval reads the evidence again; a rejection needs none. *)
DecideDossier(u, p, approve, expected) ==
  /\ UserRole[u] = "supervisor" /\ OfProject(u, p)
  /\ dossier[p].version = expected
  /\ dossier[p].status = "under_review"
  /\ approve => Ready(p)
  /\ dossier' = [dossier EXCEPT
       ![p].status = IF approve THEN "approved" ELSE "rejected",
       ![p].version = expected + 1]
  /\ UNCHANGED <<vars, proven>>

(* EvaluateLoadRun gives a run of the project the verdict "passed". *)
LoadRunPasses(p) ==
  /\ p \notin proven
  /\ proven' = proven \cup {p}
  /\ UNCHANGED <<vars, dossier>>

HandoverNext ==
  \/ Next /\ UNCHANGED <<dossier, proven>>
  \/ \E u \in Users, p \in Projects, documents \in SUBSET Documents :
       CreateDossier(u, p, documents)
  \/ \E u \in Users, p \in Projects, kind \in Documents, uri \in Uris :
       ReceiveDossierDocument(u, p, kind, uri)
  \/ \E u \in Users, p \in Projects, expected \in 1..3 :
       SubmitDossier(u, p, expected)
  \/ \E u \in Users, p \in Projects, approve \in BOOLEAN, expected \in 1..3 :
       DecideDossier(u, p, approve, expected)
  \/ \E p \in Projects : LoadRunPasses(p)

HandoverSpec == HandoverInit /\ [][HandoverNext]_handoverVars

-----------------------------------------------------------------------------
(* Type correctness of dossiers; only required documents are received. *)
DossierTypeOK ==
  /\ dossier \in [Projects -> DossierRow \cup {NoDossier}]
  /\ \A p \in Projects : DOMAIN dossier[p].received \subseteq dossier[p].required
  /\ proven \subseteq Projects

(* A dossier that was submitted keeps complete documents and a passed load *)
(* run behind it, through review, rejection and approval.                  *)
SubmittedIsDocumented ==
  \A p \in Projects : dossier[p].status \in DossierStatuses \ {"assembling"} =>
    /\ dossier[p].required # {}
    /\ DOMAIN dossier[p].received = dossier[p].required
    /\ p \in proven

(* A project that OpeningReadiness calls ready has its documents, a passed *)
(* load run, no open finding, and only accepted, hence passed, work apart  *)
(* from low-risk packages that are not overdue - or look so because the    *)
(* query compares texts, where WorkPackage.BlocksOpening (work.go:72)      *)
(* compares times: their due time is now without the last digits of its    *)
(* fraction, less than a second ago.                                       *)
ReadyIsEarned ==
  \A p \in Projects : \A now \in Instants : ~Blocked(p, now) =>
    /\ dossier[p].required # {}
    /\ DOMAIN dossier[p].received = dossier[p].required
    /\ p \in proven
    /\ \A w \in Packages(p) :
         \/ HasInspection(w, "passed")
         \/ /\ work[w].risk \in Risks \ {"high", "critical"}
            /\ work[w].due >= now \/ CutOff(work[w].due, now)
    /\ \A i \in Inspections : inspection[i].status # "absent"
         /\ inspection[i].work \in Packages(p) => OpenFindings(finding, i) = {}

(* The documents of a dossier are locked once it is submitted. *)
DocumentsLock ==
  [][\A p \in Projects : dossier[p].status \notin {"absent", "assembling"} =>
       /\ dossier'[p].required = dossier[p].required
       /\ dossier'[p].received = dossier[p].received]_handoverVars

(* An approval is right at the moment it is given, however long ago the    *)
(* submission was: all work accepted and passed, all findings resolved.    *)
ApprovalIsCurrent ==
  [][\A p \in Projects :
       dossier[p].status # "approved" /\ dossier'[p].status = "approved" =>
         \A w \in Works : work[w].status # "absent" /\ work[w].project = p =>
           /\ work[w].status = "accepted"
           /\ HasInspection(w, "passed")
           /\ \A i \in Inspections : inspection[i].work = w
                => OpenFindings(finding, i) = {}]_handoverVars

DossierRows == INSTANCE VersionedRows WITH
  Rows <- Projects, Absent <- "absent", Births <- {"assembling"},
  Moves <- {[from |-> "assembling", to |-> "under_review", bump |-> 1],
            [from |-> "under_review", to |-> "approved", bump |-> 1],
            [from |-> "under_review", to |-> "rejected", bump |-> 1]},
  status <- [p \in Projects |-> dossier[p].status],
  version <- [p \in Projects |-> dossier[p].version]

(* A dossier is submitted once and decided once; a rejected one stays      *)
(* rejected, and with it the only dossier its project can have.            *)
DossierLifecycle == DossierRows!Spec
=============================================================================
