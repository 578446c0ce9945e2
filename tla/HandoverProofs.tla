--------------------------- MODULE HandoverProofs ---------------------------
(***************************************************************************)
(* Proofs about Handover: dossiers and opening readiness over a closeout   *)
(* that goes on.  Every step is one of Closeout or leaves its tables       *)
(* alone, so what CloseoutProofs shows of work packages and inspections is *)
(* at hand here; on top of it come the types of dossiers and what a        *)
(* submitted one keeps.  That is inductive, for documents are only         *)
(* received while a dossier is assembled and no load run loses its         *)
(* verdict.  When a package blocks the opening depends on how the texts of *)
(* times compare, which TimestampsProofs settles.                          *)
(***************************************************************************)
EXTENDS Handover, CloseoutProofs, TimestampsProofs

HandoverInv == IInv /\ DossierTypeOK /\ SubmittedIsDocumented

-----------------------------------------------------------------------------
(* A dossier is of its table's type or missing. *)
LEMMA DossierShapes ==
  ASSUME DossierTypeOK
  PROVE  \A p \in Projects :
           \/ /\ dossier[p] \in DossierRow /\ dossier[p].status # "absent"
              /\ dossier[p].status \in DossierStatuses
           \/ dossier[p] = NoDossier /\ dossier[p].status = "absent"
BY DEF DossierTypeOK, DossierRow, DossierStatuses, NoDossier

(* A new dossier has no document. *)
LEMMA NewDossierRow ==
  ASSUME NEW documents \in SUBSET Documents
  PROVE  LET row == [status |-> "assembling", version |-> 1,
                     required |-> documents, received |-> <<>>]
         IN row \in DossierRow /\ DOMAIN row.received = {}
<1>1. <<>> \in UNION {[kinds -> Uris] : kinds \in SUBSET Documents}
  <2>1. <<>> \in [{} -> Uris]
    OBVIOUS
  <2> QED
    BY <2>1
<1>2. DOMAIN <<>> = {}
  OBVIOUS
<1> QED
  BY <1>1, <1>2 DEF DossierRow, DossierStatuses

(* What dossier_documents may hold of one dossier *)
Documentations == UNION {[kinds -> Uris] : kinds \in SUBSET Documents}

(* Receiving a document adds its kind to those received, and no other. *)
LEMMA ReceivedDocuments ==
  ASSUME NEW received \in Documentations, NEW kind \in Documents,
         NEW uri \in Uris
  PROVE  /\ WithDocument(received, kind, uri) \in Documentations
         /\ DOMAIN WithDocument(received, kind, uri)
              = DOMAIN received \cup {kind}
<1>1. PICK kinds \in SUBSET Documents : received \in [kinds -> Uris]
  BY DEF Documentations
<1>2. /\ WithDocument(received, kind, uri) \in [kinds \cup {kind} -> Uris]
      /\ kinds \cup {kind} \in SUBSET Documents
  BY <1>1 DEF WithDocument
<1> QED
  BY <1>1, <1>2 DEF Documentations

-----------------------------------------------------------------------------
(* What a step is for the dossier of one project *)
Kept(p) == dossier'[p] = dossier[p]

Created(p) ==
  /\ dossier[p].status = "absent"
  /\ dossier'[p].status = "assembling" /\ dossier'[p].version = 1
  /\ DOMAIN dossier'[p].received = {}

Received(p) ==
  /\ dossier[p].status = "assembling" /\ dossier'[p].status = "assembling"
  /\ dossier'[p].version = dossier[p].version
  /\ dossier'[p].required = dossier[p].required
  /\ DOMAIN dossier'[p].received \subseteq dossier[p].required

(* Submitted, rejected or approved; the first and the last ask Ready.      *)
Moved(p) ==
  /\ <<dossier[p].status, dossier'[p].status>> \in
       {<<"assembling", "under_review">>, <<"under_review", "approved">>,
        <<"under_review", "rejected">>}
  /\ dossier'[p].version = dossier[p].version + 1
  /\ dossier'[p].required = dossier[p].required
  /\ dossier'[p].received = dossier[p].received
  /\ dossier'[p].status # "rejected" => Ready(p)

(* A step changes the dossier of one project in one of these ways.         *)
DossierStep ==
  /\ dossier' \in [Projects -> DossierRow \cup {NoDossier}]
  /\ \A p \in Projects : Kept(p) \/ Created(p) \/ Received(p) \/ Moved(p)

LEMMA CreateDossierStep ==
  ASSUME DossierTypeOK, NEW u \in Users, NEW p \in Projects,
         NEW documents \in SUBSET Documents, CreateDossier(u, p, documents)
  PROVE  DossierStep
<1> DEFINE row == [status |-> "assembling", version |-> 1,
                   required |-> documents, received |-> <<>>]
<1>1. /\ row \in DossierRow /\ DOMAIN row.received = {}
      /\ row.status = "assembling" /\ row.version = 1
  BY NewDossierRow
<1>2. dossier' = [dossier EXCEPT ![p] = row] /\ dossier[p].status = "absent"
  BY DEF CreateDossier
<1> HIDE DEF row
<1> QED
  BY <1>1, <1>2 DEF DossierTypeOK, DossierStep, Kept, Created

LEMMA ReceiveDossierDocumentStep ==
  ASSUME DossierTypeOK, NEW u \in Users, NEW p \in Projects,
         NEW kind \in Documents, NEW uri \in Uris,
         ReceiveDossierDocument(u, p, kind, uri)
  PROVE  DossierStep
<1> DEFINE row == [dossier[p] EXCEPT !.received =
                     WithDocument(dossier[p].received, kind, uri)]
<1>1. /\ dossier[p].status = "assembling" /\ kind \in dossier[p].required
      /\ dossier' = [dossier EXCEPT ![p] = row]
  BY DEF ReceiveDossierDocument
<1>2. dossier[p] \in DossierRow
  BY <1>1, DossierShapes
<1>3. /\ row \in DossierRow /\ row.status = dossier[p].status
      /\ row.version = dossier[p].version
      /\ row.required = dossier[p].required
      /\ DOMAIN row.received = DOMAIN dossier[p].received \cup {kind}
  <2> DEFINE docs == WithDocument(dossier[p].received, kind, uri)
  <2>1. dossier[p].received \in Documentations
    BY <1>2 DEF DossierRow, Documentations
  <2>2. /\ docs \in Documentations
        /\ DOMAIN docs = DOMAIN dossier[p].received \cup {kind}
    BY <2>1, ReceivedDocuments
  <2>3. row = [dossier[p] EXCEPT !.received = docs]
    OBVIOUS
  <2> HIDE DEF row, docs
  <2> QED
    BY <1>2, <2>2, <2>3 DEF DossierRow, Documentations
<1>4. DOMAIN row.received \subseteq dossier[p].required
  BY <1>1, <1>3 DEF DossierTypeOK
<1> HIDE DEF row
<1> QED
  BY <1>1, <1>3, <1>4 DEF DossierTypeOK, DossierStep, Kept, Received

(* SubmitDossier and DecideDossier after their checks *)
MoveDossier(p, to) ==
  dossier' = [dossier EXCEPT ![p].status = to,
                             ![p].version = dossier[p].version + 1]

LEMMA MoveDossierStep ==
  ASSUME DossierTypeOK, NEW p \in Projects, NEW to, MoveDossier(p, to),
         <<dossier[p].status, to>> \in
           {<<"assembling", "under_review">>, <<"under_review", "approved">>,
            <<"under_review", "rejected">>},
         to # "rejected" => Ready(p)
  PROVE  DossierStep
<1> DEFINE row == [dossier[p] EXCEPT !.status = to,
                                     !.version = dossier[p].version + 1]
<1>1. dossier[p] \in DossierRow /\ to \in DossierStatuses
  BY DossierShapes DEF DossierStatuses
<1>2. dossier[p].version + 1 \in Nat
  BY <1>1 DEF DossierRow
<1>3. /\ row \in DossierRow /\ row.status = to
      /\ row.version = dossier[p].version + 1
      /\ row.required = dossier[p].required
      /\ row.received = dossier[p].received
  BY <1>1, <1>2 DEF DossierRow
<1>4. dossier' = [dossier EXCEPT ![p] = row]
  BY DEF MoveDossier
<1> HIDE DEF row
<1> QED
  BY <1>3, <1>4 DEF DossierTypeOK, DossierStep, Kept, Moved

(* Every step of the program is a step of dossiers in this sense, and one  *)
(* of Closeout or none.                                                    *)
LEMMA StepOfParts ==
  ASSUME DossierTypeOK, [HandoverNext]_handoverVars
  PROVE  /\ DossierStep
         /\ [Next]_vars
         /\ proven \subseteq proven' /\ proven' \subseteq Projects
<1> DEFINE Goal == /\ DossierStep
                   /\ [Next]_vars
                   /\ proven \subseteq proven' /\ proven' \subseteq Projects
<1>0. proven \subseteq Projects
  BY DEF DossierTypeOK
<1>1. ASSUME UNCHANGED dossier PROVE DossierStep
  BY <1>1 DEF DossierTypeOK, DossierStep, Kept
<1>2. ASSUME NEW u \in Users, NEW p \in Projects,
             NEW documents \in SUBSET Documents, CreateDossier(u, p, documents)
      PROVE  Goal
  BY <1>0, <1>2, CreateDossierStep DEF CreateDossier
<1>3. ASSUME NEW u \in Users, NEW p \in Projects, NEW kind \in Documents,
             NEW uri \in Uris, ReceiveDossierDocument(u, p, kind, uri)
      PROVE  Goal
  BY <1>0, <1>3, ReceiveDossierDocumentStep DEF ReceiveDossierDocument
<1>4. ASSUME NEW u \in Users, NEW p \in Projects, NEW expected \in 1..3,
             SubmitDossier(u, p, expected)
      PROVE  Goal
  <2>1. /\ dossier[p].status = "assembling" /\ Ready(p)
        /\ MoveDossier(p, "under_review") /\ UNCHANGED <<vars, proven>>
    BY <1>4 DEF SubmitDossier, MoveDossier
  <2> QED
    BY <1>0, <2>1, MoveDossierStep
<1>5. ASSUME NEW u \in Users, NEW p \in Projects, NEW approve \in BOOLEAN,
             NEW expected \in 1..3, DecideDossier(u, p, approve, expected)
      PROVE  Goal
  <2>1. PICK to : to = IF approve THEN "approved" ELSE "rejected"
    OBVIOUS
  <2>2. /\ dossier[p].status = "under_review" /\ to \in {"approved", "rejected"}
        /\ to # "rejected" => Ready(p)
        /\ MoveDossier(p, to) /\ UNCHANGED <<vars, proven>>
    BY <1>5, <2>1 DEF DecideDossier, MoveDossier
  <2> QED
    BY <1>0, <2>2, MoveDossierStep
<1>6. ASSUME NEW p \in Projects, LoadRunPasses(p)
      PROVE  Goal
  BY <1>0, <1>1, <1>6 DEF LoadRunPasses
<1>7. CASE Next /\ UNCHANGED <<dossier, proven>>
  BY <1>0, <1>1, <1>7
<1>8. CASE UNCHANGED handoverVars
  BY <1>0, <1>1, <1>8 DEF handoverVars, vars
<1> HIDE DEF Goal
<1>9. Goal
  BY <1>2, <1>3, <1>4, <1>5, <1>6, <1>7, <1>8 DEF HandoverNext, Goal
<1> QED
  BY <1>9 DEF Goal

-----------------------------------------------------------------------------
LEMMA HandoverInvInit == HandoverInit => HandoverInv
<1> SUFFICES ASSUME HandoverInit
             PROVE  HandoverInv
  OBVIOUS
<1>1. IInv
  BY InductiveInit DEF HandoverInit
<1>2. DossierTypeOK /\ SubmittedIsDocumented
  <2>1. DOMAIN <<>> = {}
    OBVIOUS
  <2>2. \A p \in Projects : dossier[p] = NoDossier
    BY DEF HandoverInit
  <2>3. DossierTypeOK
    BY <2>1, <2>2 DEF HandoverInit, DossierTypeOK, NoDossier
  <2>4. SubmittedIsDocumented
    BY <2>2 DEF SubmittedIsDocumented, NoDossier, DossierStatuses
  <2> QED
    BY <2>3, <2>4
<1> QED
  BY <1>1, <1>2 DEF HandoverInv

LEMMA HandoverInvStep ==
  ASSUME HandoverInv, [HandoverNext]_handoverVars
  PROVE  HandoverInv'
<1>1. DossierStep /\ [Next]_vars /\ proven \subseteq proven'
      /\ proven' \subseteq Projects
  BY StepOfParts DEF HandoverInv
<1>2. IInv'
  BY <1>1, InductiveStep DEF HandoverInv
<1>3. DossierTypeOK'
  <2>1. ASSUME NEW p \in Projects
        PROVE  DOMAIN dossier'[p].received \subseteq dossier'[p].required
    BY <1>1 DEF HandoverInv, DossierTypeOK, DossierStep, Kept, Created,
       Received, Moved
  <2> QED
    BY <1>1, <2>1 DEF DossierStep, DossierTypeOK
<1>4. SubmittedIsDocumented'
  <2> SUFFICES ASSUME NEW p \in Projects,
                      dossier'[p].status \in DossierStatuses \ {"assembling"}
               PROVE  /\ dossier'[p].required # {}
                      /\ DOMAIN dossier'[p].received = dossier'[p].required
                      /\ p \in proven'
    BY DEF SubmittedIsDocumented
  <2>1. CASE Kept(p)
    BY <1>1, <2>1 DEF Kept, HandoverInv, SubmittedIsDocumented
  <2>2. CASE Moved(p)
    <3>1. CASE dossier[p].status = "assembling"
      BY <1>1, <2>2, <3>1 DEF Moved, Ready
    <3>2. CASE dossier[p].status = "under_review"
      BY <1>1, <2>2, <3>2
      DEF Moved, HandoverInv, SubmittedIsDocumented, DossierStatuses
    <3> QED
      BY <2>2, <3>1, <3>2 DEF Moved
  <2> QED
    BY <1>1, <2>1, <2>2 DEF DossierStep, Created, Received
<1> QED
  BY <1>2, <1>3, <1>4 DEF HandoverInv

(* The inductive invariant holds of the handover. *)
LEMMA AlwaysHandoverInv == HandoverSpec => []HandoverInv
<1>1. HandoverInit => HandoverInv
  BY HandoverInvInit
<1>2. HandoverInv /\ [HandoverNext]_handoverVars => HandoverInv'
  BY HandoverInvStep
<1> QED
  BY <1>1, <1>2, PTL DEF HandoverSpec

-----------------------------------------------------------------------------
(* The evidence a dossier is submitted and approved on: every package is   *)
(* accepted and passed, and no inspection of the project has a finding     *)
(* open.                                                                   *)
LEMMA NoOpenFindings ==
  ASSUME NEW p \in Projects, ProjectFindings(p) = {},
         NEW i \in Inspections, inspection[i].work \in Packages(p)
  PROVE  OpenFindings(finding, i) = {}
<1> SUFFICES ASSUME NEW f \in OpenFindings(finding, i)
             PROVE  FALSE
  OBVIOUS
<1>1. f \in Findings /\ finding[f].inspection = i /\ ~finding[f].resolved
  BY DEF OpenFindings
<1>2. i # None
  BY ConstantsAssumption
<1> QED
  BY <1>1, <1>2 DEF ProjectFindings

LEMMA AcceptedIsPassed ==
  ASSUME IInv, NEW w \in Works, work[w].status = "accepted"
  PROVE  HasInspection(w, "passed")
BY DEF IInv, AcceptedWorkWasInspected, HasInspection

(* A due time whose text does not come before that of now is not past, or  *)
(* is now with its last digits cut off.                                    *)
LEMMA NotOverdue ==
  ASSUME NEW due \in Nat, NEW now \in Nat, ~TextLess(due, now)
  PROVE  due >= now \/ CutOff(due, now)
<1> SUFFICES ASSUME due < now
             PROVE  CutOff(due, now)
  OBVIOUS
<1>1. Text(due) # Text(now)
  BY TextsAndTimes
<1>2. TextLess(now, due)
  BY <1>1, TextsCompare
<1> QED
  BY <1>2, TextsAndTimes

LEMMA InvReady == HandoverInv => ReadyIsEarned
<1> SUFFICES ASSUME HandoverInv, NEW p \in Projects, NEW now \in Instants,
                    ~Blocked(p, now)
             PROVE  /\ dossier[p].required # {}
                    /\ DOMAIN dossier[p].received = dossier[p].required
                    /\ p \in proven
                    /\ \A w \in Packages(p) :
                         \/ HasInspection(w, "passed")
                         \/ /\ work[w].risk \in Risks \ {"high", "critical"}
                            /\ \/ work[w].due >= now
                               \/ CutOff(work[w].due, now)
                    /\ \A i \in Inspections : inspection[i].status # "absent"
                         /\ inspection[i].work \in Packages(p)
                         => OpenFindings(finding, i) = {}
  BY DEF ReadyIsEarned
<1>1. /\ dossier[p].status = "approved" /\ ProjectFindings(p) = {}
      /\ \A w \in UnacceptedWork(p) : /\ work[w].risk \notin {"high", "critical"}
                                      /\ ~TextLess(work[w].due, now)
  BY DEF Blocked
<1>2. /\ dossier[p].required # {}
      /\ DOMAIN dossier[p].received = dossier[p].required
      /\ p \in proven
  BY <1>1 DEF HandoverInv, SubmittedIsDocumented, DossierStatuses
<1>3. ASSUME NEW w \in Packages(p)
      PROVE  \/ HasInspection(w, "passed")
             \/ /\ work[w].risk \in Risks \ {"high", "critical"}
                /\ work[w].due >= now \/ CutOff(work[w].due, now)
  <2>1. w \in Works /\ work[w].status # "absent"
    BY DEF Packages
  <2>2. CASE work[w].status = "accepted"
    BY <2>1, <2>2, AcceptedIsPassed DEF HandoverInv
  <2>3. CASE work[w].status # "accepted"
    <3>1. work[w] \in WorkRow
      BY <2>1, RowShapes DEF HandoverInv, IInv
    <3>2. work[w].risk \in Risks /\ work[w].due \in Nat /\ now \in Nat
      BY <3>1, HandoverAssumption DEF WorkRow
    <3>3. work[w].risk \notin {"high", "critical"} /\ ~TextLess(work[w].due, now)
      BY <1>1, <2>3 DEF UnacceptedWork
    <3>4. work[w].due >= now \/ CutOff(work[w].due, now)
      BY <3>2, <3>3, NotOverdue
    <3> QED
      BY <3>2, <3>3, <3>4
  <2> QED
    BY <2>2, <2>3
<1> QED
  BY <1>1, <1>2, <1>3, NoOpenFindings

(* Dossiers are well formed and hold only documents they require. *)
THEOREM DossierTypes == HandoverSpec => []DossierTypeOK
<1>1. HandoverInv => DossierTypeOK
  BY DEF HandoverInv
<1> QED
  BY <1>1, AlwaysHandoverInv, PTL

(* A submitted dossier keeps its documents and its load run.  A project    *)
(* that is called ready to open has earned it, however much closeout work  *)
(* went on since its dossier was approved: all its work is accepted but    *)
(* for low-risk packages that are not overdue, or whose due time is the    *)
(* present one with its last digits cut off.                               *)
THEOREM ReadinessIsSafe ==
  HandoverSpec => [](SubmittedIsDocumented /\ ReadyIsEarned)
<1>1. HandoverInv => SubmittedIsDocumented
  BY DEF HandoverInv
<1> QED
  BY <1>1, InvReady, AlwaysHandoverInv, PTL

(* The closeout promises go on holding while dossiers are assembled. *)
THEOREM HandoverIsCloseout == HandoverSpec => Spec
<1>1. HandoverInit => Init
  BY DEF HandoverInit
<1>2. HandoverInv /\ [HandoverNext]_handoverVars => [Next]_vars
  BY StepOfParts DEF HandoverInv
<1> QED
  BY <1>1, <1>2, AlwaysHandoverInv, PTL DEF HandoverSpec, Spec

(* Nobody changes the documents of a dossier under review or decided.      *)
THEOREM DocumentsAreLocked == HandoverSpec => DocumentsLock
<1>1. HandoverInv /\ [HandoverNext]_handoverVars =>
        [\A p \in Projects : dossier[p].status \notin {"absent", "assembling"} =>
           /\ dossier'[p].required = dossier[p].required
           /\ dossier'[p].received = dossier[p].received]_handoverVars
  BY StepOfParts DEF HandoverInv, DossierStep, Kept, Created, Received, Moved
<1> QED
  BY <1>1, AlwaysHandoverInv, PTL DEF HandoverSpec, DocumentsLock

(* An approval rests on the evidence of its own moment. *)
THEOREM ApprovalsAreCurrent == HandoverSpec => ApprovalIsCurrent
<1>1. HandoverInv /\ [HandoverNext]_handoverVars =>
        [\A p \in Projects :
           dossier[p].status # "approved" /\ dossier'[p].status = "approved" =>
             \A w \in Works : work[w].status # "absent" /\ work[w].project = p =>
               /\ work[w].status = "accepted"
               /\ HasInspection(w, "passed")
               /\ \A i \in Inspections : inspection[i].work = w
                    => OpenFindings(finding, i) = {}]_handoverVars
  <2> SUFFICES ASSUME HandoverInv, [HandoverNext]_handoverVars,
                      NEW p \in Projects, dossier[p].status # "approved",
                      dossier'[p].status = "approved",
                      NEW w \in Works, work[w].status # "absent",
                      work[w].project = p
               PROVE  /\ work[w].status = "accepted"
                      /\ HasInspection(w, "passed")
                      /\ \A i \in Inspections : inspection[i].work = w
                           => OpenFindings(finding, i) = {}
    OBVIOUS
  <2>1. Ready(p)
    BY StepOfParts
    DEF HandoverInv, DossierStep, Kept, Created, Received, Moved
  <2>2. w \in Packages(p) /\ work[w].status = "accepted"
    BY <2>1 DEF Packages, Ready, UnacceptedWork
  <2>3. HasInspection(w, "passed")
    BY <2>2, AcceptedIsPassed DEF HandoverInv
  <2>4. \A i \in Inspections : inspection[i].work = w
          => OpenFindings(finding, i) = {}
    BY <2>1, <2>2, NoOpenFindings DEF Ready
  <2> QED
    BY <2>2, <2>3, <2>4
<1> QED
  BY <1>1, AlwaysHandoverInv, PTL DEF HandoverSpec, ApprovalIsCurrent

(* A dossier is submitted once, decided once, and its version counts both. *)
THEOREM DossiersAreVersioned == HandoverSpec => DossierLifecycle
<1>1. HandoverInit => DossierRows!Init
  BY DEF HandoverInit, NoDossier, DossierRows!Init
<1>2. HandoverInv /\ [HandoverNext]_handoverVars => DossierRows!Next
  <2> SUFFICES ASSUME HandoverInv, [HandoverNext]_handoverVars,
                      NEW p \in Projects
               PROVE  \/ DossierRows!Inserted(p) \/ DossierRows!Moved(p)
                      \/ DossierRows!Kept(p)
    BY DEF DossierRows!Next
  <2>1. Kept(p) \/ Created(p) \/ Received(p) \/ Moved(p)
    BY StepOfParts DEF HandoverInv, DossierStep
  <2>2. CASE Kept(p) \/ Received(p)
    BY <2>2 DEF Kept, Received, DossierRows!Kept
  <2>3. CASE Created(p)
    BY <2>3 DEF Created, DossierRows!Inserted
  <2>4. CASE Moved(p)
    BY <2>4 DEF Moved, DossierRows!Moved
  <2> QED
    BY <2>1, <2>2, <2>3, <2>4
<1> QED
  BY <1>1, <1>2, AlwaysHandoverInv, PTL
  DEF HandoverSpec, DossierLifecycle, DossierRows!Spec
=============================================================================
