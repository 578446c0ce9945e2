\* Two organizations, one key, two bodies, two requests in flight; a key
\* expires while the clock runs.
SPECIFICATION Spec
CONSTANTS
  None = None  NoKey = NoKey
  orgA = orgA  orgB = orgB  ownerA = ownerA  ownerB = ownerB
  UserOrg <- MCUserOrg  UserRole <- MCUserRole
  Handlers = {h1, h2}  Users = {ownerA, ownerB}  Orgs = {orgA, orgB}
  Keys = {k1}  Names = {n1, n2}  Ids = {p1, p2, p3}
  Lifetime = 1  Times <- MCTimes  MaxCommits = 2
SYMMETRY Symmetric
CHECK_DEADLOCK FALSE
INVARIANTS
  TypeOK
  CreationIsWhole
  AnswersAgree
PROPERTIES
  ImplementsRegistry
