\* Two jobs, two server processes, at most two attempts; the one fault always
\* leaves a process that goes on.
SPECIFICATION FairSpec
CONSTANTS
  None = None  Jobs = {j1, j2}  Runners = {r1, r2}
  MaxAttempts = 2  Lease = 1  Interval = 1  MaxBackoff = 2
  Times <- MCTimes  TextLeq <- ClockLeq  Settle = 0  MaxFaults = 1
CHECK_DEADLOCK FALSE
INVARIANTS
  TypeOK
  CompletedMeansEvaluated
  CopyIsCurrent
  FailedMeansExhausted
  ExtraAttemptsAreFaults
PROPERTIES
  LeaseIsExclusive
  JobsEnd
