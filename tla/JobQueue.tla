------------------------------ MODULE JobQueue ------------------------------
(***************************************************************************)
(* The leased job queue: the jobs table (internal/storage/sqlite/          *)
(* operations.go) and the worker runners of one or more server processes   *)
(* (internal/worker/runner.go) that claim, handle, complete and retry its  *)
(* jobs while the clock runs.  Each SQL statement of a runner is one       *)
(* action; between two of them the process may stop, die, or be overtaken  *)
(* by the expiry of its lease.  A process that starts again has a new      *)
(* owner id, hence a new runner.                                           *)
(*                                                                         *)
(* The handler is evaluate_load_run: it records the verdict of the job's   *)
(* load run in a transaction of its own, once (EvaluateLoadRun refuses a   *)
(* run that is no longer evaluating).                                      *)
(*                                                                         *)
(* Timestamps are compared as the texts SQLite stores; that comparison is  *)
(* the parameter TextLeq.                                                  *)
(***************************************************************************)
EXTENDS Integers, FiniteSets

CONSTANTS
  Jobs,            \* identifiers of jobs
  Runners,         \* owner ids, one for each life of a server process
  None,            \* no lease owner, no job in hand
  MaxAttempts,     \* domain.Job.MaxAttempts
  Lease,           \* lease of a claimed job and timeout of its handler
  Interval,        \* poll interval, the unit of the retry backoff
  MaxBackoff,      \* one minute
  Times,           \* instants of the clock
  TextLeq(_, _),   \* a <= b on stored timestamps
  Settle,          \* ticks after which text and clock order agree
  MaxFaults        \* bound on faults: crashes, stops, overruns, SQL errors

ASSUME QueueAssumption ==
  /\ None \notin Jobs \cup Runners
  /\ MaxAttempts \in Nat \ {0}
  /\ {Lease, Interval, MaxBackoff, Settle, MaxFaults} \subseteq Nat
  /\ 0 \in Times /\ Times \subseteq Nat
  /\ \A t \in Times : ~TextLeq(t + Lease, t)

VARIABLES
  now,      \* the clock, in ticks
  job,      \* Jobs -> row of jobs
  runner,   \* Runners -> control state of Runner.Run
  verdict,  \* Jobs -> the load run of the job has been evaluated
  faults    \* faults so far

vars == <<now, job, runner, verdict, faults>>

JobStatuses == {"pending", "leased", "completed", "failed"}

NoJob == [status |-> "absent", attempts |-> 0, availableAt |-> 0,
          leaseOwner |-> None, leaseUntil |-> 0]

JobRow == [status : JobStatuses, attempts : Nat, availableAt : Nat,
           leaseOwner : Runners \cup {None}, leaseUntil : Nat]

(* pc: where Run and once are; job, attempts and deadline: the job in      *)
(* hand as ClaimJob returned it and its handler's timeout; startedAt: the  *)
(* time Run was called, which its deferred ReleaseLeases has captured.     *)
Control == [pc : {"new", "idle", "handling", "succeeded", "errored",
                  "stopping", "dead"},
            job : Jobs \cup {None}, attempts : Nat, deadline : Nat,
            startedAt : Nat]

NewRunner == [pc |-> "new", job |-> None, attempts |-> 0, deadline |-> 0,
              startedAt |-> 0]

Init ==
  /\ now = 0
  /\ job = [j \in Jobs |-> NoJob]
  /\ runner = [r \in Runners |-> NewRunner]
  /\ verdict = [j \in Jobs |-> FALSE]
  /\ faults = 0

-----------------------------------------------------------------------------
(* Conditions of the SQL statements. *)

Expired(j) == TextLeq(job[j].leaseUntil, now)

(* Mutated form: an expired lease is not taken over. *)
ClaimablePendingOnly(j) ==
  /\ TextLeq(job[j].availableAt, now)
  /\ job[j].status = "pending"

(* WHERE of ClaimJob's subquery *)
Claimable(j) ==
  /\ TextLeq(job[j].availableAt, now)
  /\ \/ job[j].status = "pending"
     \/ job[j].status = "leased" /\ Expired(j)

(* ORDER BY available_at, id LIMIT 1: ids are random, so ties are free. *)
First(j) ==
  /\ Claimable(j)
  /\ \A k \in Jobs : Claimable(k)
                     => TextLeq(job[j].availableAt, job[k].availableAt)

HeldBy(j, r) == job[j].status = "leased" /\ job[j].leaseOwner = r

(* Mutated form: the attempt that is running is not counted. *)
RetryableOnceMore(attempts) == attempts <= MaxAttempts

(* Mutated form: the last attempt is given away. *)
RetryableOnceLess(attempts) == attempts + 1 < MaxAttempts

(* Job.Retryable, on the attempts the runner's copy of the job has *)
Retryable(attempts) == attempts < MaxAttempts

(* Runner.fail: the interval doubled for every attempt after the first *)
Backoff(attempts) ==
  LET delay == 2 ^ (attempts - 1) * Interval
  IN IF delay > MaxBackoff THEN MaxBackoff ELSE delay

Fault == faults < MaxFaults /\ faults' = faults + 1

-----------------------------------------------------------------------------
(* EnqueueJob: the insert made by QueueLoadEvaluation's transaction. *)
Enqueue(j) ==
  /\ job[j].status = "absent"
  /\ job' = [job EXCEPT ![j] = [NoJob EXCEPT !.status = "pending",
                                             !.availableAt = now]]
  /\ UNCHANGED <<now, runner, verdict, faults>>

Start(r) ==
  /\ runner[r].pc = "new"
  /\ runner' = [runner EXCEPT ![r] = [NewRunner EXCEPT !.pc = "idle",
                                                       !.startedAt = now]]
  /\ UNCHANGED <<now, job, verdict, faults>>

(* Mutated form: the row is read before the UPDATE, not by RETURNING. *)
ClaimReadBefore(r, j) ==
  /\ runner[r].pc = "idle"
  /\ First(j)
  /\ job' = [job EXCEPT ![j] =
       [status |-> "leased", attempts |-> job[j].attempts + 1,
        availableAt |-> job[j].availableAt, leaseOwner |-> r,
        leaseUntil |-> now + Lease]]
  /\ runner' = [runner EXCEPT ![r] =
       [pc |-> "handling", job |-> j, attempts |-> job[j].attempts,
        deadline |-> now + Lease, startedAt |-> runner[r].startedAt]]
  /\ UNCHANGED <<now, verdict, faults>>

(* once, up to the call of the handler: ClaimJob is a single UPDATE. *)
Claim(r, j) ==
  /\ runner[r].pc = "idle"
  /\ First(j)
  /\ job' = [job EXCEPT ![j] =
       [status |-> "leased", attempts |-> job[j].attempts + 1,
        availableAt |-> job[j].availableAt, leaseOwner |-> r,
        leaseUntil |-> now + Lease]]
  /\ runner' = [runner EXCEPT ![r] =
       [pc |-> "handling", job |-> j, attempts |-> job[j].attempts + 1,
        deadline |-> now + Lease, startedAt |-> runner[r].startedAt]]
  /\ UNCHANGED <<now, verdict, faults>>

(* The handler commits the verdict before its timeout and returns nil. *)
HandlerCommits(r) ==
  /\ runner[r].pc = "handling"
  /\ now <= runner[r].deadline
  /\ ~verdict[runner[r].job]
  /\ verdict' = [verdict EXCEPT ![runner[r].job] = TRUE]
  /\ runner' = [runner EXCEPT ![r].pc = "succeeded"]
  /\ UNCHANGED <<now, job, faults>>

(* Mutated form: once goes on to CompleteJob after fail. *)
HandlerFailsUnnoticed(r) ==
  /\ runner[r].pc = "handling"
  /\ runner' = [runner EXCEPT ![r].pc = "succeeded"]
  /\ UNCHANGED <<now, job, verdict, faults>>

(* The handler returns an error: its timeout, a busy database, or a run    *)
(* that is no longer evaluating.                                           *)
HandlerFails(r) ==
  /\ runner[r].pc = "handling"
  /\ runner' = [runner EXCEPT ![r].pc = "errored"]
  /\ UNCHANGED <<now, job, verdict, faults>>

Idle(r) == [runner EXCEPT ![r].pc = "idle", ![r].job = None]

(* CompleteJob, whose WHERE asks for the caller's unexpired lease; with no *)
(* row affected once only reports the conflict.                            *)
Complete(r) ==
  LET j == runner[r].job
  IN /\ runner[r].pc = "succeeded"
     /\ runner' = Idle(r)
     /\ job' = IF HeldBy(j, r) /\ ~Expired(j)
               THEN [job EXCEPT ![j].status = "completed",
                                ![j].leaseOwner = None, ![j].leaseUntil = 0]
               ELSE job
     /\ UNCHANGED <<now, verdict, faults>>

(* Mutated form: the WHERE of RetryJob only names the job. *)
RetryUnowned(r) ==
  LET j == runner[r].job
  IN /\ runner[r].pc = "errored"
     /\ runner' = Idle(r)
     /\ job' = [job EXCEPT ![j] =
            [status |-> IF Retryable(runner[r].attempts) THEN "pending"
                        ELSE "failed",
             attempts |-> job[j].attempts,
             availableAt |-> now + Backoff(runner[r].attempts),
             leaseOwner |-> None, leaseUntil |-> 0]]
     /\ UNCHANGED <<now, verdict, faults>>

(* fail: RetryJob asks for the caller's lease, expired or not, and decides *)
(* on the runner's copy of the job.                                        *)
Retry(r) ==
  LET j == runner[r].job
  IN /\ runner[r].pc = "errored"
     /\ runner' = Idle(r)
     /\ job' = IF HeldBy(j, r)
               THEN [job EXCEPT ![j] =
                 [status |-> IF Retryable(runner[r].attempts) THEN "pending"
                             ELSE "failed",
                  attempts |-> job[j].attempts,
                  availableAt |-> now + Backoff(runner[r].attempts),
                  leaseOwner |-> None, leaseUntil |-> 0]]
               ELSE job
     /\ UNCHANGED <<now, verdict, faults>>

(* CompleteJob or RetryJob returns an error (SQLITE_BUSY): the lease is    *)
(* left to expire.                                                         *)
StatementFails(r) ==
  /\ runner[r].pc \in {"succeeded", "errored"}
  /\ runner' = Idle(r)
  /\ Fault
  /\ UNCHANGED <<now, job, verdict>>

(* The context is cancelled: no statement of once succeeds any more. *)
Stop(r) ==
  /\ runner[r].pc \in {"idle", "handling", "succeeded", "errored"}
  /\ runner' = [runner EXCEPT ![r].pc = "stopping"]
  /\ Fault
  /\ UNCHANGED <<now, job, verdict>>

(* Mutated form: lease_owner is not cleared. *)
ReleaseLeasesKeepOwner(r) ==
  /\ runner[r].pc = "stopping"
  /\ runner' = [runner EXCEPT ![r].pc = "dead"]
  /\ job' = [j \in Jobs |->
       IF HeldBy(j, r) THEN [job[j] EXCEPT !.status = "pending",
                                           !.availableAt = runner[r].startedAt]
       ELSE job[j]]
  /\ UNCHANGED <<now, verdict, faults>>

(* Run's deferred ReleaseLeases. *)
ReleaseLeases(r) ==
  /\ runner[r].pc = "stopping"
  /\ runner' = [runner EXCEPT ![r].pc = "dead"]
  /\ job' = [j \in Jobs |->
       IF HeldBy(j, r)
       THEN [status |-> "pending", attempts |-> job[j].attempts,
             availableAt |-> runner[r].startedAt, leaseOwner |-> None,
             leaseUntil |-> 0]
       ELSE job[j]]
  /\ UNCHANGED <<now, verdict, faults>>

(* The process dies: before a signal, or after it with the store closed    *)
(* before ReleaseLeases ran (main does not wait for the worker).           *)
Crash(r) ==
  /\ runner[r].pc \notin {"new", "dead"}
  /\ runner' = [runner EXCEPT ![r].pc = "dead"]
  /\ Fault
  /\ UNCHANGED <<now, job, verdict>>

(* Time matters while a job waits for it, and Settle ticks longer. *)
Horizon == {job[j].availableAt : j \in {k \in Jobs : job[k].status = "pending"}}
           \cup {job[j].leaseUntil : j \in {k \in Jobs : job[k].status = "leased"}}

Active(r) == runner[r].pc \in {"handling", "succeeded", "errored"}

(* Leases that run out under a working runner at the next tick. *)
Overruns == {r \in Runners :
  /\ Active(r)
  /\ HeldBy(runner[r].job, r)
  /\ ~Expired(runner[r].job)
  /\ TextLeq(job[runner[r].job].leaseUntil, now + 1)}

(* The clock moves on. *)
TimePasses ==
  /\ now + 1 \in Times
  /\ \E t \in Horizon : now < t + Settle
  /\ now' = now + 1
  /\ UNCHANGED <<job, runner, verdict>>

Tick ==
  /\ TimePasses
  /\ Overruns = {}
  /\ UNCHANGED faults

(* A tick that ends the lease of a runner still at work is a fault. *)
TickOverrun ==
  /\ TimePasses
  /\ Overruns # {}
  /\ Fault

-----------------------------------------------------------------------------
Next ==
  \/ \E j \in Jobs : Enqueue(j)
  \/ \E r \in Runners : Start(r)
  \/ \E r \in Runners, j \in Jobs : Claim(r, j)
  \/ \E r \in Runners : HandlerCommits(r)
  \/ \E r \in Runners : HandlerFails(r)
  \/ \E r \in Runners : Complete(r)
  \/ \E r \in Runners : Retry(r)
  \/ \E r \in Runners : StatementFails(r)
  \/ \E r \in Runners : Stop(r)
  \/ \E r \in Runners : ReleaseLeases(r)
  \/ \E r \in Runners : Crash(r)
  \/ Tick
  \/ TickOverrun

Spec == Init /\ [][Next]_vars

(* The steps of a live runner happen: Run loops on its ticker, statements  *)
(* return, the handler has a timeout and time passes.                      *)
Fairness ==
  /\ \A r \in Runners :
       /\ WF_vars(Start(r))
       /\ WF_vars(\E j \in Jobs : Claim(r, j))
       /\ WF_vars(HandlerCommits(r) \/ HandlerFails(r))
       /\ WF_vars(Complete(r) \/ Retry(r))
       /\ WF_vars(ReleaseLeases(r))
  /\ WF_vars(Tick)

FairSpec == Spec /\ Fairness

-----------------------------------------------------------------------------
(* Type correctness, with the shape of the rows: a job has a lease owner   *)
(* exactly while it is leased.                                             *)
TypeOK ==
  /\ now \in Times
  /\ job \in [Jobs -> JobRow \cup {NoJob}]
  /\ \A j \in Jobs : job[j].status = "leased" <=> job[j].leaseOwner # None
  /\ runner \in [Runners -> Control]
  /\ verdict \in [Jobs -> BOOLEAN]
  /\ faults \in Nat

(* A completed job did its work: CompleteJob is only reached by a runner   *)
(* whose own handler recorded the verdict.                                 *)
CompletedMeansEvaluated ==
  \A j \in Jobs : job[j].status = "completed" => verdict[j]

(* RetryJob decides on a copy of the job taken at the claim; as long as    *)
(* the runner still owns the lease that copy is current.                   *)
CopyIsCurrent ==
  \A r \in Runners : Active(r) /\ HeldBy(runner[r].job, r) =>
    runner[r].attempts = job[runner[r].job].attempts

(* A job is only given up after its allowed number of attempts. *)
FailedMeansExhausted ==
  \A j \in Jobs : job[j].status = "failed" => job[j].attempts >= MaxAttempts

(* ClaimJob does not look at max_attempts; still, every attempt beyond the *)
(* limit is paid for by a fault that kept an earlier one from being        *)
(* recorded.                                                               *)
ExtraAttemptsAreFaults ==
  \A j \in Jobs : job[j].attempts <= MaxAttempts + faults

(* A lease that has not expired is ended by a step of its owner only. *)
LeaseIsExclusive ==
  [][\A j \in Jobs, r \in Runners :
       HeldBy(j, r) /\ ~Expired(j) /\ job'[j] # job[j]
         => runner'[r] # runner[r]]_vars

(* Completed and failed jobs never run again. *)
TerminalJobsStay ==
  [][\A j \in Jobs : job[j].status \in {"completed", "failed"}
       => job'[j] = job[j]]_vars

(* With finitely many faults every job that was enqueued is completed or   *)
(* failed in the end: leases of dead runners expire and are taken over.    *)
JobsEnd ==
  \A j \in Jobs : job[j].status = "pending"
                  ~> job[j].status \in {"completed", "failed"}

-----------------------------------------------------------------------------
(* Statements of the source that the runs find violated. *)

(* "handler calls = %d, want 2" for a job with MaxAttempts 2               *)
(* (runner_test.go:110): a job is attempted at most MaxAttempts times.     *)
AttemptsWithinLimit ==
  \A j \in Jobs : job[j].attempts <= MaxAttempts

(* An active lease is not claimed by another worker (db_test.go:272).      *)
ActiveLeaseIsNotStolen ==
  [][\A j \in Jobs, r \in Runners :
       HeldBy(j, r) /\ now < job[j].leaseUntil /\ job'[j] # job[j]
         => job'[j].leaseOwner \in {r, None}]_vars
=============================================================================
