\* Two packages, two inspections, one finding, two documents: work goes on
\* while the dossier is assembled, reviewed and after it is decided.  A
\* second has two instants: work is due on a whole second, and readiness is
\* asked for then, half a second later and a second later.
SPECIFICATION HandoverSpec
CONSTANTS
  orgA = orgA  ownerA = ownerA  contractorA = contractorA
  supervisorA = supervisorA  None = None
  ProjectOrg <- MCProjectOrg  UserOrg <- MCUserOrg  UserRole <- MCUserRole
  Works = {w1, w2}  Inspections = {i1, i2}  Findings = {f1}
  Projects = {bridgeA}  Orgs = {orgA}
  Users = {ownerA, contractorA, supervisorA}
  Owners = {contractorA}  Risks = {"low", "high"}  DueTimes = {2}
  Handlers = {h1}  Base = 2  Places = 1  Instants = {2, 3, 4}
  MaxWorkVersion = 4  Documents = {d1, d2}  Uris = {u1, u2}
SYMMETRY Symmetric
CHECK_DEADLOCK FALSE
INVARIANTS
  DossierTypeOK
  SubmittedIsDocumented
  ReadyIsEarned
PROPERTIES
  DocumentsLock
  DossierLifecycle
  ApprovalIsCurrent
