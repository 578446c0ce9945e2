\* One package through a rework, two inspections, two scheduling handlers, and
\* users of another organization.
SPECIFICATION Spec
CONSTANTS
  orgA = orgA  orgB = orgB  bridgeA = bridgeA  bridgeB = bridgeB
  contractorA = contractorA  supervisorA = supervisorA
  supervisorB = supervisorB  ownerB = ownerB  None = None
  ProjectOrg <- MCProjectOrg  UserOrg <- MCUserOrg  UserRole <- MCUserRole
  Works = {w1}  Inspections = {i1, i2}  Findings = {f1, f2}
  Projects = {bridgeA, bridgeB}  Orgs = {orgA, orgB}
  Users = {contractorA, supervisorA, supervisorB, ownerB}
  Owners = {contractorA, supervisorB}  Risks = {"high"}  DueTimes = {0}  Handlers = {h1, h2}
  MaxWorkVersion = 7
CHECK_DEADLOCK FALSE
INVARIANTS
  TypeOK
  AcceptedWorkWasInspected
  PassedInspectionIsClean
  InspectionsFollowSubmission
  AuditExplainsStatus
  CheckedReferencesAreLocal
PROPERTIES
  Lifecycles
