\* Three projects of two organizations, pages of one or two, times of two
\* binary digits in two seconds.
SPECIFICATION Spec
CONSTANTS
  None = None  Base = 2  Places = 2  Instants <- MCInstants
  Ids = {1, 2, 3}  Orgs = {orgA, orgB}
  Asked = {0, 1, 3}  Usual = 1  Most = 2
SYMMETRY Symmetric
CHECK_DEADLOCK FALSE
INVARIANTS
  NothingIsSkipped
  TotalIsReached
  SeenInOrder
