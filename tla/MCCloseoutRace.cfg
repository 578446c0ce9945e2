\* The package leaves "submitted" between the check and the insert.
SPECIFICATION Spec
CONSTANTS
  orgA = orgA  orgB = orgB  bridgeA = bridgeA  bridgeB = bridgeB
  contractorA = contractorA  supervisorA = supervisorA
  supervisorB = supervisorB  ownerB = ownerB  None = None
  ProjectOrg <- MCProjectOrg  UserOrg <- MCUserOrg  UserRole <- MCUserRole
  Works = {w1}  Inspections = {i1, i2}  Findings = {f1, f2}
  Projects = {bridgeA}  Orgs = {orgA}  Users = {contractorA, supervisorA}
  Owners = {contractorA}  Risks = {"high"}  DueTimes = {0}  Handlers = {h1, h2}
  MaxWorkVersion = 7
CHECK_DEADLOCK FALSE
PROPERTY
  InspectsSubmittedWork
