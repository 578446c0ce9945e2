\* One crash is enough for an attempt too many.
SPECIFICATION Spec
CONSTANTS
  None = None  Jobs = {j1}  Runners = {r1, r2}
  MaxAttempts = 2  Lease = 2  Interval = 1  MaxBackoff = 2
  Times <- MCTimes  TextLeq <- ClockLeq  Settle = 0  MaxFaults = 1
CHECK_DEADLOCK FALSE
INVARIANTS
  AttemptsWithinLimit
