\* One run whose handler may fail.
SPECIFICATION FairCommissioning
CONSTANTS
  orgA = orgA  bridgeA = bridgeA  officerA = officerA
  supervisorA = supervisorA  None = None
  ProjectOrg <- MCProjectOrg  UserOrg <- MCUserOrg  UserRole <- MCUserRole
  Plans = {p1}  Runs = {r1}  Channels = {c1}  Sequences = {1}
  Projects = {bridgeA}  Orgs = {orgA}  Users = {officerA, supervisorA}
  Handlers = {h1}  Runners = {w1}
  MaxAttempts = 2  Lease = 1  Interval = 1  MaxBackoff = 2
  Times <- MCTimes  TextLeq <- ClockLeq  Settle = 0  MaxFaults = 0
CHECK_DEADLOCK FALSE
PROPERTIES
  EvaluationIsDurable
