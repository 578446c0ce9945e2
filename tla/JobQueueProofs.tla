--------------------------- MODULE JobQueueProofs ---------------------------
(***************************************************************************)
(* The safety of JobQueue, proved for every value of its constants and for *)
(* every order TextLeq under which a new lease has not expired yet.        *)
(***************************************************************************)
EXTENDS JobQueue, FiniteSetTheorems, TLAPS

(* A runner past its claim has a job in hand, at its first attempt or a    *)
(* later one.                                                              *)
HandsAreFull ==
  \A r \in Runners : Active(r) => /\ runner[r].job \in Jobs
                                  /\ runner[r].attempts # 0

(* The handler of a runner about to call CompleteJob recorded the verdict. *)
SuccessIsRecorded ==
  \A r \in Runners : runner[r].pc = "succeeded" => verdict[runner[r].job]

(* r works on j under its own lease, which has not expired. *)
Guarded(j, r) ==
  /\ Active(r) /\ runner[r].job = j
  /\ HeldBy(j, r) /\ ~Expired(j)

(* ClaimJob may take j now, or as soon as the lease of nobody expires. *)
Open(j) ==
  \/ job[j].status = "pending"
  \/ job[j].status = "leased" /\ \A r \in Runners : ~Guarded(j, r)

(* What makes ExtraAttemptsAreFaults inductive: a job that can be claimed  *)
(* is still one attempt below the limit.                                   *)
AttemptsLeft ==
  \A j \in Jobs : /\ Open(j) => job[j].attempts < MaxAttempts + faults
                  /\ job[j].status = "absent" => job[j].attempts = 0

IInv ==
  /\ TypeOK
  /\ HandsAreFull
  /\ SuccessIsRecorded
  /\ CompletedMeansEvaluated
  /\ CopyIsCurrent
  /\ FailedMeansExhausted
  /\ ExtraAttemptsAreFaults
  /\ AttemptsLeft

-----------------------------------------------------------------------------
(* The doubling of Runner.fail, computed as the size of a power set. *)
LEMMA PowerOfTwo == ASSUME NEW n \in Nat PROVE 2 ^ n \in Nat
<1>1. IsFiniteSet(1..n) /\ Cardinality(1..n) = n
  BY FS_Interval
<1>2. IsFiniteSet(SUBSET (1..n)) /\ Cardinality(SUBSET (1..n)) = 2 ^ n
  BY <1>1, FS_SUBSET
<1> QED
  BY <1>2, FS_CardinalityType

LEMMA BackoffType == ASSUME NEW n \in Nat, n # 0 PROVE Backoff(n) \in Nat
<1> USE QueueAssumption
<1>1. n - 1 \in Nat
  OBVIOUS
<1> DEFINE power == 2 ^ (n - 1)
<1>2. power \in Nat
  BY <1>1, PowerOfTwo
<1> HIDE DEF power
<1>3. power * Interval \in Nat
  BY <1>2
<1> QED
  BY <1>3 DEF Backoff, power

(* The row of a job in any state but absent. *)
LEMMA PresentRow ==
  ASSUME TypeOK, NEW j \in Jobs, job[j].status # "absent"
  PROVE  job[j] \in JobRow
BY DEF TypeOK, NoJob

(* Only the owner of a lease holds a job. *)
LEMMA OneHolder ==
  ASSUME NEW j \in Jobs, NEW r \in Runners, NEW s \in Runners,
         HeldBy(j, r), HeldBy(j, s)
  PROVE  r = s
BY DEF HeldBy

-----------------------------------------------------------------------------
(* A step that only moves runner r to another place of its loop. *)
Moves(r, pc) ==
  /\ runner'[r] \in Control /\ runner'[r].pc = pc
  /\ runner'[r].job = runner[r].job
  /\ runner'[r].attempts = runner[r].attempts
  /\ runner' \in [Runners -> Control]
  /\ \A s \in Runners \ {r} : runner'[s] = runner[s]

LEMMA MoveRunner ==
  ASSUME TypeOK, NEW r \in Runners,
         NEW pc \in {"new", "idle", "handling", "succeeded", "errored",
                     "stopping", "dead"},
         runner' = [runner EXCEPT ![r].pc = pc]
  PROVE  Moves(r, pc)
<1>1. runner[r] \in Control
  BY DEF TypeOK
<1>2. runner' = [runner EXCEPT ![r] = [runner[r] EXCEPT !.pc = pc]]
  BY DEF TypeOK
<1>3. [runner[r] EXCEPT !.pc = pc] \in Control
  BY <1>1 DEF Control
<1>4. /\ runner'[r] = [runner[r] EXCEPT !.pc = pc]
      /\ runner' \in [Runners -> Control]
      /\ \A s \in Runners \ {r} : runner'[s] = runner[s]
  BY <1>2, <1>3 DEF TypeOK
<1>5. /\ [runner[r] EXCEPT !.pc = pc].pc = pc
      /\ [runner[r] EXCEPT !.pc = pc].job = runner[r].job
      /\ [runner[r] EXCEPT !.pc = pc].attempts = runner[r].attempts
  BY <1>1 DEF Control
<1> QED
  BY <1>3, <1>4, <1>5 DEF Moves

(* Back at the head of the loop, with no job in hand. *)
LEMMA IdleRunner ==
  ASSUME TypeOK, NEW r \in Runners, runner' = Idle(r)
  PROVE  /\ runner'[r].pc = "idle"
         /\ runner' \in [Runners -> Control]
         /\ \A s \in Runners \ {r} : runner'[s] = runner[s]
<1>1. runner[r] \in Control
  BY DEF TypeOK
<1>2. runner' = [runner EXCEPT ![r] =
                   [runner[r] EXCEPT !.pc = "idle", !.job = None]]
  BY DEF TypeOK, Idle
<1>3. /\ [runner[r] EXCEPT !.pc = "idle", !.job = None] \in Control
      /\ [runner[r] EXCEPT !.pc = "idle", !.job = None].pc = "idle"
  BY <1>1 DEF Control
<1> QED
  BY <1>2, <1>3 DEF TypeOK

-----------------------------------------------------------------------------
(* What each statement writes into the row of its job. *)

LEMMA EnqueuedRow ==
  ASSUME TypeOK, NEW j \in Jobs, Enqueue(j)
  PROVE  /\ job' \in [Jobs -> JobRow \cup {NoJob}]
         /\ job'[j].status = "pending" /\ job'[j].attempts = 0
         /\ job'[j].leaseOwner = None
         /\ \A k \in Jobs \ {j} : job'[k] = job[k]
<1> USE QueueAssumption
<1>1. /\ [NoJob EXCEPT !.status = "pending", !.availableAt = now] \in JobRow
      /\ [NoJob EXCEPT !.status = "pending", !.availableAt = now].status
           = "pending"
      /\ [NoJob EXCEPT !.status = "pending", !.availableAt = now].attempts = 0
      /\ [NoJob EXCEPT !.status = "pending", !.availableAt = now].leaseOwner
           = None
  BY DEF NoJob, JobRow, JobStatuses, TypeOK
<1> QED
  BY <1>1 DEF TypeOK, Enqueue

LEMMA ClaimedRow ==
  ASSUME TypeOK, NEW r \in Runners, NEW j \in Jobs, Claim(r, j)
  PROVE  /\ job[j].status \in {"pending", "leased"}
         /\ job' \in [Jobs -> JobRow \cup {NoJob}]
         /\ job'[j].status = "leased" /\ job'[j].leaseOwner = r
         /\ job[j].attempts \in Nat
         /\ job'[j].attempts = job[j].attempts + 1
         /\ job'[j].leaseUntil = now + Lease
         /\ \A k \in Jobs \ {j} : job'[k] = job[k]
         /\ runner' \in [Runners -> Control]
         /\ runner'[r].pc = "handling" /\ runner'[r].job = j
         /\ runner'[r].attempts = job[j].attempts + 1
         /\ \A s \in Runners \ {r} : runner'[s] = runner[s]
<1> USE QueueAssumption
<1>1. job[j].status \in {"pending", "leased"}
  BY DEF Claim, First, Claimable
<1>2. job[j] \in JobRow
  BY <1>1, PresentRow
<1>3. job[j].attempts \in Nat /\ job[j].availableAt \in Nat
  BY <1>2 DEF JobRow
<1>4. now + Lease \in Nat /\ job[j].attempts + 1 \in Nat
  BY <1>3 DEF TypeOK
<1>5. runner[r].startedAt \in Nat
  BY DEF TypeOK, Control
<1>6. [status |-> "leased", attempts |-> job[j].attempts + 1,
       availableAt |-> job[j].availableAt, leaseOwner |-> r,
       leaseUntil |-> now + Lease] \in JobRow
  BY <1>3, <1>4 DEF JobRow, JobStatuses
<1>7. [pc |-> "handling", job |-> j, attempts |-> job[j].attempts + 1,
       deadline |-> now + Lease, startedAt |-> runner[r].startedAt] \in Control
  BY <1>4, <1>5 DEF Control
<1> QED
  BY <1>1, <1>3, <1>6, <1>7 DEF TypeOK, Claim

LEMMA CompletedJobRow ==
  ASSUME TypeOK, HandsAreFull, NEW r \in Runners, Complete(r),
         HeldBy(runner[r].job, r), ~Expired(runner[r].job)
  PROVE  /\ job' \in [Jobs -> JobRow \cup {NoJob}]
         /\ job'[runner[r].job].status = "completed"
         /\ job'[runner[r].job].leaseOwner = None
         /\ job'[runner[r].job].attempts = job[runner[r].job].attempts
         /\ \A k \in Jobs \ {runner[r].job} : job'[k] = job[k]
<1> USE QueueAssumption
<1> DEFINE j == runner[r].job
<1>1. j \in Jobs
  BY DEF HandsAreFull, Active, Complete
<1> HIDE DEF j
<1>2. job[j] \in JobRow
  BY <1>1, PresentRow DEF HeldBy, j
<1>3. job' = [job EXCEPT ![j] = [job[j] EXCEPT !.status = "completed",
                                  !.leaseOwner = None, !.leaseUntil = 0]]
  BY <1>1 DEF Complete, TypeOK, j
<1>4. /\ [job[j] EXCEPT !.status = "completed", !.leaseOwner = None,
                        !.leaseUntil = 0] \in JobRow
      /\ [job[j] EXCEPT !.status = "completed", !.leaseOwner = None,
                        !.leaseUntil = 0].status = "completed"
      /\ [job[j] EXCEPT !.status = "completed", !.leaseOwner = None,
                        !.leaseUntil = 0].leaseOwner = None
      /\ [job[j] EXCEPT !.status = "completed", !.leaseOwner = None,
                        !.leaseUntil = 0].attempts = job[j].attempts
  BY <1>2 DEF JobRow, JobStatuses
<1>5. /\ job' \in [Jobs -> JobRow \cup {NoJob}]
      /\ job'[j].status = "completed"
      /\ job'[j].leaseOwner = None
      /\ job'[j].attempts = job[j].attempts
      /\ \A k \in Jobs \ {j} : job'[k] = job[k]
  BY <1>1, <1>3, <1>4 DEF TypeOK
<1> QED
  BY <1>5 DEF j

LEMMA RetriedRow ==
  ASSUME TypeOK, HandsAreFull, NEW r \in Runners, Retry(r),
         HeldBy(runner[r].job, r)
  PROVE  /\ job' \in [Jobs -> JobRow \cup {NoJob}]
         /\ job'[runner[r].job].status =
              IF Retryable(runner[r].attempts) THEN "pending" ELSE "failed"
         /\ job'[runner[r].job].leaseOwner = None
         /\ job'[runner[r].job].attempts = job[runner[r].job].attempts
         /\ \A k \in Jobs \ {runner[r].job} : job'[k] = job[k]
<1> USE QueueAssumption
<1> DEFINE j == runner[r].job
           status == IF Retryable(runner[r].attempts) THEN "pending"
                     ELSE "failed"
           at == now + Backoff(runner[r].attempts)
           row == [status |-> status, attempts |-> job[j].attempts,
                   availableAt |-> at, leaseOwner |-> None, leaseUntil |-> 0]
<1>1. j \in Jobs
  BY DEF HandsAreFull, Active, Retry
<1>2. at \in Nat
  <2>1. runner[r].attempts \in Nat /\ runner[r].attempts # 0
    BY DEF TypeOK, Control, HandsAreFull, Active, Retry
  <2>2. Backoff(runner[r].attempts) \in Nat
    BY <2>1, BackoffType
  <2> QED
    BY <2>2 DEF TypeOK
<1>3. status \in JobStatuses
  BY DEF JobStatuses
<1>4. job[j].attempts \in Nat
  BY <1>1, PresentRow DEF HeldBy, JobRow
<1>5. job' = [job EXCEPT ![j] = row]
  BY DEF Retry
<1> HIDE DEF j, status, at
<1>6. row \in JobRow
  BY <1>2, <1>3, <1>4 DEF JobRow
<1>7. /\ job' \in [Jobs -> JobRow \cup {NoJob}]
      /\ job'[j].status = status
      /\ job'[j].leaseOwner = None
      /\ job'[j].attempts = job[j].attempts
      /\ \A k \in Jobs \ {j} : job'[k] = job[k]
  BY <1>1, <1>5, <1>6 DEF TypeOK
<1> QED
  BY <1>7 DEF j, status

LEMMA ReleasedRows ==
  ASSUME TypeOK, NEW r \in Runners, ReleaseLeases(r)
  PROVE  /\ job' \in [Jobs -> JobRow \cup {NoJob}]
         /\ \A k \in Jobs :
              IF HeldBy(k, r)
              THEN /\ job'[k].status = "pending"
                   /\ job'[k].leaseOwner = None
                   /\ job'[k].attempts = job[k].attempts
              ELSE job'[k] = job[k]
<1> USE QueueAssumption
<1>1. runner[r].startedAt \in Nat
  BY DEF TypeOK, Control
<1>2. ASSUME NEW k \in Jobs, HeldBy(k, r)
      PROVE  [status |-> "pending", attempts |-> job[k].attempts,
              availableAt |-> runner[r].startedAt, leaseOwner |-> None,
              leaseUntil |-> 0] \in JobRow
  <2>1. job[k].attempts \in Nat
    BY <1>2, PresentRow DEF HeldBy, JobRow
  <2> QED
    BY <1>1, <2>1 DEF JobRow, JobStatuses
<1>3. job' = [k \in Jobs |->
       IF HeldBy(k, r)
       THEN [status |-> "pending", attempts |-> job[k].attempts,
             availableAt |-> runner[r].startedAt, leaseOwner |-> None,
             leaseUntil |-> 0]
       ELSE job[k]]
  BY DEF ReleaseLeases
<1>4. job' \in [Jobs -> JobRow \cup {NoJob}]
  BY <1>2, <1>3 DEF TypeOK
<1> QED
  BY <1>3, <1>4

-----------------------------------------------------------------------------
(* Every step writes well-formed rows and control states. *)
LEMMA TypeStep == ASSUME TypeOK, HandsAreFull, [Next]_vars PROVE TypeOK'
<1> USE QueueAssumption
<1>1. ASSUME NEW j \in Jobs, Enqueue(j) PROVE TypeOK'
  BY <1>1, EnqueuedRow DEF TypeOK, Enqueue
<1>2. ASSUME NEW r \in Runners, Start(r) PROVE TypeOK'
  <2>1. [NewRunner EXCEPT !.pc = "idle", !.startedAt = now] \in Control
    BY DEF NewRunner, Control, TypeOK
  <2> QED
    BY <1>2, <2>1 DEF TypeOK, Start
<1>3. ASSUME NEW r \in Runners, NEW j \in Jobs, Claim(r, j) PROVE TypeOK'
  <2>1. UNCHANGED <<now, verdict, faults>>
    BY <1>3 DEF Claim
  <2>2. /\ job' \in [Jobs -> JobRow \cup {NoJob}]
        /\ runner' \in [Runners -> Control]
        /\ job'[j].status = "leased" /\ job'[j].leaseOwner = r
        /\ \A k \in Jobs \ {j} : job'[k] = job[k]
    BY <1>3, ClaimedRow
  <2> QED
    BY <2>1, <2>2 DEF TypeOK
<1>4. ASSUME NEW r \in Runners, HandlerCommits(r) PROVE TypeOK'
  <2>1. Moves(r, "succeeded")
    BY <1>4, MoveRunner DEF HandlerCommits
  <2> QED
    BY <1>4, <2>1 DEF TypeOK, HandlerCommits, Moves
<1>5. ASSUME NEW r \in Runners, HandlerFails(r) PROVE TypeOK'
  <2>1. Moves(r, "errored")
    BY <1>5, MoveRunner DEF HandlerFails
  <2> QED
    BY <1>5, <2>1 DEF TypeOK, HandlerFails, Moves
<1>6. ASSUME NEW r \in Runners, Complete(r) PROVE TypeOK'
  <2>1. runner' \in [Runners -> Control]
    BY <1>6, IdleRunner DEF Complete
  <2>2. CASE HeldBy(runner[r].job, r) /\ ~Expired(runner[r].job)
    BY <1>6, <2>1, <2>2, CompletedJobRow DEF TypeOK, Complete
  <2>3. CASE ~(HeldBy(runner[r].job, r) /\ ~Expired(runner[r].job))
    BY <1>6, <2>1, <2>3 DEF TypeOK, Complete
  <2> QED
    BY <2>2, <2>3
<1>7. ASSUME NEW r \in Runners, Retry(r) PROVE TypeOK'
  <2>1. runner' \in [Runners -> Control]
    BY <1>7, IdleRunner DEF Retry
  <2>2. CASE HeldBy(runner[r].job, r)
    BY <1>7, <2>1, <2>2, RetriedRow DEF TypeOK, Retry
  <2>3. CASE ~HeldBy(runner[r].job, r)
    BY <1>7, <2>1, <2>3 DEF TypeOK, Retry
  <2> QED
    BY <2>2, <2>3
<1>8. ASSUME NEW r \in Runners, StatementFails(r) PROVE TypeOK'
  BY <1>8, IdleRunner DEF TypeOK, StatementFails, Fault
<1>9. ASSUME NEW r \in Runners, Stop(r) PROVE TypeOK'
  <2>1. Moves(r, "stopping")
    BY <1>9, MoveRunner DEF Stop
  <2> QED
    BY <1>9, <2>1 DEF TypeOK, Stop, Moves, Fault
<1>10. ASSUME NEW r \in Runners, ReleaseLeases(r) PROVE TypeOK'
  <2>1. Moves(r, "dead")
    BY <1>10, MoveRunner DEF ReleaseLeases
  <2> QED
    BY <1>10, <2>1, ReleasedRows DEF TypeOK, ReleaseLeases, Moves
<1>11. ASSUME NEW r \in Runners, Crash(r) PROVE TypeOK'
  <2>1. Moves(r, "dead")
    BY <1>11, MoveRunner DEF Crash
  <2> QED
    BY <1>11, <2>1 DEF TypeOK, Crash, Moves, Fault
<1>12. CASE Tick \/ TickOverrun
  BY <1>12 DEF TypeOK, Tick, TickOverrun, TimePasses, Fault
<1>13. CASE UNCHANGED vars
  BY <1>13 DEF TypeOK, vars
<1> QED
  BY <1>1, <1>2, <1>3, <1>4, <1>5, <1>6, <1>7, <1>8, <1>9, <1>10, <1>11,
     <1>12, <1>13
  DEF Next

-----------------------------------------------------------------------------
(* The invariant, one action at a time. *)

(* A step that leaves the clock, the row of k and the work of the runners  *)
(* on k alone opens nothing.                                               *)
LEMMA StaysGuarded ==
  ASSUME NEW k \in Jobs, now' = now, job'[k] = job[k],
         \A s \in Runners : Active(s) /\ runner[s].job = k
                            => Active(s)' /\ runner'[s].job = k,
         Open(k)'
  PROVE  Open(k)
BY DEF Open, Guarded, HeldBy, Expired

LEMMA ClaimStep ==
  ASSUME IInv, TypeOK', NEW r \in Runners, NEW j \in Jobs, Claim(r, j)
  PROVE  IInv'
<1> USE QueueAssumption
<1>1. /\ job[j].attempts \in Nat
      /\ job'[j].status = "leased" /\ job'[j].leaseOwner = r
      /\ job'[j].attempts = job[j].attempts + 1
      /\ job'[j].leaseUntil = now + Lease
      /\ \A k \in Jobs \ {j} : job'[k] = job[k]
      /\ runner'[r].pc = "handling" /\ runner'[r].job = j
      /\ runner'[r].attempts = job[j].attempts + 1
      /\ \A s \in Runners \ {r} : runner'[s] = runner[s]
  BY ClaimedRow DEF IInv
<1>2. /\ runner[r].pc = "idle" /\ now' = now /\ verdict' = verdict
      /\ faults' = faults
  BY DEF Claim
<1>3. ~Active(r)
  BY <1>2 DEF Active
<1>4. job[j].attempts < MaxAttempts + faults
  <2>1. Open(j)
    BY DEF Claim, First, Claimable, Open, Guarded
  <2> QED
    BY <2>1 DEF IInv, AttemptsLeft
<1>5. ~Open(j)'
  <2>1. now \in Times
    BY DEF IInv, TypeOK
  <2>2. ~Expired(j)'
    BY <1>1, <1>2, <2>1 DEF Expired
  <2>3. Guarded(j, r)'
    BY <1>1, <2>2 DEF Guarded, Active, HeldBy
  <2> QED
    BY <1>1, <2>3 DEF Open
<1>6. ASSUME NEW k \in Jobs, k # j, Open(k)' PROVE Open(k)
  <2>1. \A s \in Runners : Active(s) /\ runner[s].job = k
                           => Active(s)' /\ runner'[s].job = k
    BY <1>1, <1>3 DEF Active
  <2> QED
    BY <1>1, <1>2, <1>6, <2>1, StaysGuarded
<1>7. AttemptsLeft'
  <2> SUFFICES ASSUME NEW k \in Jobs
               PROVE  /\ Open(k)' => job'[k].attempts < MaxAttempts + faults'
                      /\ job'[k].status = "absent" => job'[k].attempts = 0
    BY DEF AttemptsLeft
  <2> QED
    BY <1>1, <1>2, <1>5, <1>6 DEF IInv, AttemptsLeft
<1>8. ExtraAttemptsAreFaults'
  <2>1. faults \in Nat
    BY DEF IInv, TypeOK
  <2>2. job'[j].attempts <= MaxAttempts + faults
    BY <1>1, <1>4, <2>1
  <2> QED
    BY <1>1, <1>2, <2>2 DEF IInv, ExtraAttemptsAreFaults
<1>9. HandsAreFull'
  BY <1>1 DEF IInv, HandsAreFull, Active
<1>10. SuccessIsRecorded'
  BY <1>1, <1>2 DEF IInv, SuccessIsRecorded
<1>11. CompletedMeansEvaluated' /\ FailedMeansExhausted'
  BY <1>1, <1>2 DEF IInv, CompletedMeansEvaluated, FailedMeansExhausted
<1>12. CopyIsCurrent'
  <2> SUFFICES ASSUME NEW s \in Runners, Active(s)',
                      HeldBy(runner[s].job, s)'
               PROVE  runner'[s].attempts = job'[runner'[s].job].attempts
    BY DEF CopyIsCurrent, HeldBy
  <2>1. CASE s = r
    BY <1>1, <2>1
  <2>2. CASE s # r
    <3>1. runner'[s] = runner[s] /\ Active(s) /\ runner[s].job \in Jobs
      BY <1>1, <2>2 DEF Active, IInv, HandsAreFull
    <3>2. runner[s].job # j
      BY <1>1, <2>2, <3>1 DEF HeldBy
    <3>3. job'[runner[s].job] = job[runner[s].job]
      BY <1>1, <3>1, <3>2
    <3> QED
      BY <3>1, <3>3 DEF IInv, CopyIsCurrent, HeldBy
  <2> QED
    BY <2>1, <2>2
<1> QED
  BY <1>7, <1>8, <1>9, <1>10, <1>11, <1>12 DEF IInv

(* The steps that move r along its loop and touch no job: the handler's    *)
(* two outcomes, and the faults that take r away from its work.            *)
LEMMA MoveStep ==
  ASSUME IInv, TypeOK', NEW r \in Runners, NEW pc, Moves(r, pc),
         UNCHANGED <<now, job>>,
         \A j \in Jobs : verdict[j] => verdict'[j],
         pc = "succeeded" => verdict'[runner[r].job],
         \/ /\ faults' = faults
            /\ pc \in {"succeeded", "errored"}
            /\ Active(r)
         \/ /\ faults' = faults + 1
            /\ pc \in {"stopping", "dead"}
  PROVE  IInv'
<1> USE QueueAssumption
<1>1. /\ runner'[r].pc = pc
      /\ runner'[r].job = runner[r].job
      /\ runner'[r].attempts = runner[r].attempts
      /\ \A s \in Runners \ {r} : runner'[s] = runner[s]
  BY DEF Moves
<1>2. \A s \in Runners : Active(s)' =>
        /\ Active(s)
        /\ runner'[s].job = runner[s].job
        /\ runner'[s].attempts = runner[s].attempts
  BY <1>1 DEF Active
<1>3. HandsAreFull'
  BY <1>2 DEF IInv, HandsAreFull
<1>4. SuccessIsRecorded'
  <2> SUFFICES ASSUME NEW s \in Runners, runner'[s].pc = "succeeded"
               PROVE  verdict'[runner'[s].job]
    BY DEF SuccessIsRecorded
  <2>1. CASE s = r
    BY <1>1, <2>1
  <2>2. CASE s # r
    <3>1. runner'[s] = runner[s] /\ runner[s].job \in Jobs
      BY <1>1, <2>2 DEF IInv, HandsAreFull, Active
    <3> QED
      BY <3>1 DEF IInv, SuccessIsRecorded
  <2> QED
    BY <2>1, <2>2
<1>5. CompletedMeansEvaluated' /\ FailedMeansExhausted'
  BY DEF IInv, CompletedMeansEvaluated, FailedMeansExhausted
<1>6. CopyIsCurrent'
  BY <1>2 DEF IInv, CopyIsCurrent, HeldBy
<1>7. ExtraAttemptsAreFaults' /\ AttemptsLeft'
  <2>1. faults \in Nat /\ \A k \in Jobs : job[k].attempts \in Nat
    BY DEF IInv, TypeOK, JobRow, NoJob
  <2>2. CASE faults' = faults /\ Active(r) /\ pc \in {"succeeded", "errored"}
    <3>1. \A s \in Runners : Active(s) => Active(s)' /\ runner'[s].job = runner[s].job
      BY <1>1, <2>2 DEF Active
    <3>2. \A k \in Jobs : Open(k)' => Open(k)
      BY <3>1, StaysGuarded
    <3> QED
      BY <2>2, <3>2 DEF IInv, ExtraAttemptsAreFaults, AttemptsLeft
  <2>3. CASE faults' = faults + 1
    BY <2>1, <2>3 DEF IInv, ExtraAttemptsAreFaults, AttemptsLeft
  <2> QED
    BY <2>2, <2>3
<1> QED
  BY <1>3, <1>4, <1>5, <1>6, <1>7 DEF IInv

(* The steps after which r is idle: what they write into the row of the    *)
(* job in hand is a result (completed or failed), a retry with attempts    *)
(* left, or nothing, and in the last case the job is not held by r, its    *)
(* lease has expired, or a fault is counted.                               *)
LEMMA IdleStep ==
  ASSUME IInv, TypeOK', NEW r \in Runners, Active(r),
         UNCHANGED <<now, verdict>>,
         runner'[r].pc = "idle",
         \A s \in Runners \ {r} : runner'[s] = runner[s],
         \A k \in Jobs \ {runner[r].job} : job'[k] = job[k],
         \/ /\ job' = job /\ faults' = faults
            /\ ~HeldBy(runner[r].job, r) \/ Expired(runner[r].job)
         \/ job' = job /\ faults' = faults + 1
         \/ /\ faults' = faults
            /\ HeldBy(runner[r].job, r)
            /\ job'[runner[r].job].leaseOwner = None
            /\ job'[runner[r].job].attempts = job[runner[r].job].attempts
            /\ \/ /\ job'[runner[r].job].status = "completed"
                  /\ verdict[runner[r].job]
               \/ /\ job'[runner[r].job].status = "failed"
                  /\ job[runner[r].job].attempts >= MaxAttempts
               \/ /\ job'[runner[r].job].status = "pending"
                  /\ job[runner[r].job].attempts < MaxAttempts
  PROVE  IInv'
<1> USE QueueAssumption
<1> DEFINE j == runner[r].job
<1>1. j \in Jobs
  BY DEF IInv, HandsAreFull
<1>2. \A s \in Runners : Active(s)' => s # r /\ runner'[s] = runner[s] /\ Active(s)
  BY DEF Active
<1>3. faults \in Nat /\ \A k \in Jobs : job[k].attempts \in Nat
  BY DEF IInv, TypeOK, JobRow, NoJob
<1>4. HandsAreFull'
  BY <1>2 DEF IInv, HandsAreFull
<1>5. SuccessIsRecorded'
  BY <1>2 DEF IInv, SuccessIsRecorded, Active
<1>6. ASSUME NEW k \in Jobs, k # j PROVE job'[k] = job[k]
  BY <1>6
<1>7. ASSUME NEW k \in Jobs, job[k] = job'[k], faults' = faults,
             ~HeldBy(k, r) \/ Expired(k) \/ k # j, Open(k)'
      PROVE  Open(k)
  <2>1. \A s \in Runners : Guarded(k, s) => Guarded(k, s)'
    BY <1>7 DEF Guarded, Active, HeldBy, Expired
  <2> QED
    BY <1>7, <2>1 DEF Open
<1>8. CASE job' = job
  <2>1. CompletedMeansEvaluated' /\ FailedMeansExhausted'
    BY <1>8 DEF IInv, CompletedMeansEvaluated, FailedMeansExhausted
  <2>2. CopyIsCurrent'
    BY <1>2, <1>8 DEF IInv, CopyIsCurrent, HeldBy
  <2>3. CASE faults' = faults /\ (~HeldBy(j, r) \/ Expired(j))
    <3>1. \A k \in Jobs : Open(k)' => Open(k)
      BY <1>7, <1>8, <2>3
    <3>2. ExtraAttemptsAreFaults' /\ AttemptsLeft'
      BY <1>8, <2>3, <3>1 DEF IInv, ExtraAttemptsAreFaults, AttemptsLeft
    <3> QED
      BY <1>4, <1>5, <2>1, <2>2, <3>2 DEF IInv
  <2>4. CASE faults' = faults + 1
    <3>1. ExtraAttemptsAreFaults' /\ AttemptsLeft'
      BY <1>3, <1>8, <2>4 DEF IInv, ExtraAttemptsAreFaults, AttemptsLeft
    <3> QED
      BY <1>4, <1>5, <2>1, <2>2, <3>1 DEF IInv
  <2>5. CASE HeldBy(j, r) /\ job'[j].leaseOwner = None
    BY <1>8, <2>5 DEF HeldBy
  <2> QED
    BY <2>3, <2>4, <2>5
<1>9. CASE /\ faults' = faults /\ HeldBy(j, r)
           /\ job'[j].leaseOwner = None
           /\ job'[j].attempts = job[j].attempts
           /\ \/ job'[j].status = "completed" /\ verdict[j]
              \/ job'[j].status = "failed" /\ job[j].attempts >= MaxAttempts
              \/ job'[j].status = "pending" /\ job[j].attempts < MaxAttempts
  <2>1. CompletedMeansEvaluated'
    BY <1>6, <1>9 DEF IInv, CompletedMeansEvaluated
  <2>2. FailedMeansExhausted'
    BY <1>6, <1>9 DEF IInv, FailedMeansExhausted
  <2>3. CopyIsCurrent'
    <3> SUFFICES ASSUME NEW s \in Runners, Active(s)',
                        HeldBy(runner[s].job, s)'
                 PROVE  runner'[s].attempts = job'[runner'[s].job].attempts
      BY DEF CopyIsCurrent
    <3>1. runner'[s] = runner[s] /\ Active(s) /\ runner[s].job \in Jobs
      BY <1>2 DEF IInv, HandsAreFull
    <3>2. runner[s].job # j
      BY <1>9, <3>1 DEF HeldBy
    <3>3. job'[runner[s].job] = job[runner[s].job]
      BY <1>6, <3>1, <3>2
    <3> QED
      BY <3>1, <3>3 DEF IInv, CopyIsCurrent, HeldBy
  <2>4. ExtraAttemptsAreFaults'
    BY <1>6, <1>9 DEF IInv, ExtraAttemptsAreFaults
  <2>5. AttemptsLeft'
    <3> SUFFICES ASSUME NEW k \in Jobs
                 PROVE  /\ Open(k)' => job'[k].attempts < MaxAttempts + faults'
                        /\ job'[k].status = "absent" => job'[k].attempts = 0
      BY DEF AttemptsLeft
    <3>1. CASE k # j
      <4>1. job'[k] = job[k]
        BY <1>6, <3>1
      <4>2. Open(k)' => Open(k)
        BY <1>7, <1>9, <3>1, <4>1
      <4> QED
        BY <1>9, <4>1, <4>2 DEF IInv, AttemptsLeft
    <3>2. CASE k = j
      BY <1>1, <1>3, <1>9, <3>2 DEF Open
    <3> QED
      BY <3>1, <3>2
  <2> QED
    BY <1>4, <1>5, <2>1, <2>2, <2>3, <2>4, <2>5 DEF IInv
<1> QED
  BY <1>8, <1>9

(* Giving the leases of a stopping runner back opens only what was open.   *)
LEMMA ReleaseLeasesStep ==
  ASSUME IInv, TypeOK', NEW r \in Runners, ReleaseLeases(r)
  PROVE  IInv'
<1> USE QueueAssumption
<1>1. /\ UNCHANGED <<now, verdict, faults>>
      /\ runner[r].pc = "stopping"
      /\ \A k \in Jobs :
           IF HeldBy(k, r)
           THEN /\ job'[k].status = "pending"
                /\ job'[k].leaseOwner = None
                /\ job'[k].attempts = job[k].attempts
           ELSE job'[k] = job[k]
  BY ReleasedRows DEF IInv, ReleaseLeases
<1>2. /\ runner'[r].pc = "dead"
      /\ \A s \in Runners \ {r} : runner'[s] = runner[s]
  BY MoveRunner DEF IInv, ReleaseLeases, Moves
<1>3. ~Active(r) /\ ~Active(r)'
  BY <1>1, <1>2 DEF Active
<1>4. \A s \in Runners : Active(s)' => s # r /\ runner'[s] = runner[s] /\ Active(s)
  BY <1>2, <1>3 DEF Active
<1>5. HandsAreFull' /\ SuccessIsRecorded'
  BY <1>1, <1>4 DEF IInv, HandsAreFull, SuccessIsRecorded, Active
<1>6. CompletedMeansEvaluated' /\ FailedMeansExhausted'
  BY <1>1 DEF IInv, CompletedMeansEvaluated, FailedMeansExhausted
<1>7. CopyIsCurrent'
  <2> SUFFICES ASSUME NEW s \in Runners, Active(s)',
                      HeldBy(runner[s].job, s)'
               PROVE  runner'[s].attempts = job'[runner'[s].job].attempts
    BY DEF CopyIsCurrent
  <2>1. s # r /\ runner'[s] = runner[s] /\ Active(s) /\ runner[s].job \in Jobs
    BY <1>4 DEF IInv, HandsAreFull
  <2>2. job'[runner[s].job].status = "leased"
        /\ job'[runner[s].job].leaseOwner = s
    BY <2>1 DEF HeldBy
  <2>3. job'[runner[s].job] = job[runner[s].job]
    BY <1>1, <2>1, <2>2
  <2> QED
    BY <2>1, <2>2, <2>3 DEF IInv, CopyIsCurrent, HeldBy
<1>8. ASSUME NEW k \in Jobs, Open(k)' PROVE Open(k)
  <2>1. CASE HeldBy(k, r)
    BY <1>3, <2>1 DEF Open, Guarded, HeldBy
  <2>2. CASE ~HeldBy(k, r)
    <3>1. job'[k] = job[k]
      BY <1>1, <2>2
    <3>2. \A s \in Runners : Active(s) /\ runner[s].job = k
                             => Active(s)' /\ runner'[s].job = k
      BY <1>2, <1>3 DEF Active
    <3> QED
      BY <1>1, <1>8, <3>1, <3>2, StaysGuarded
  <2> QED
    BY <2>1, <2>2
<1>9. ExtraAttemptsAreFaults'
  BY <1>1 DEF IInv, ExtraAttemptsAreFaults
<1>10. AttemptsLeft'
  BY <1>1, <1>8 DEF IInv, AttemptsLeft
<1> QED
  BY <1>5, <1>6, <1>7, <1>9, <1>10 DEF IInv

LEMMA EnqueueStep ==
  ASSUME IInv, TypeOK', NEW j \in Jobs, Enqueue(j)
  PROVE  IInv'
<1> USE QueueAssumption
<1>1. /\ UNCHANGED <<now, runner, verdict, faults>>
      /\ job[j].status = "absent"
      /\ job'[j].status = "pending" /\ job'[j].attempts = 0
      /\ job'[j].leaseOwner = None
      /\ \A k \in Jobs \ {j} : job'[k] = job[k]
  BY EnqueuedRow DEF IInv, Enqueue
<1>2. HandsAreFull' /\ SuccessIsRecorded'
  BY <1>1 DEF IInv, HandsAreFull, SuccessIsRecorded, Active
<1>3. CompletedMeansEvaluated' /\ FailedMeansExhausted'
  BY <1>1 DEF IInv, CompletedMeansEvaluated, FailedMeansExhausted
<1>4. CopyIsCurrent'
  BY <1>1 DEF IInv, CopyIsCurrent, HandsAreFull, Active, HeldBy
<1>5. \A k \in Jobs \ {j} : Open(k)' => Open(k)
  BY <1>1, StaysGuarded DEF Active
<1>6. faults \in Nat
  BY DEF IInv, TypeOK
<1>7. ExtraAttemptsAreFaults'
  BY <1>1, <1>6 DEF IInv, ExtraAttemptsAreFaults
<1>8. AttemptsLeft'
  <2> SUFFICES ASSUME NEW k \in Jobs
               PROVE  /\ Open(k)' => job'[k].attempts < MaxAttempts + faults'
                      /\ job'[k].status = "absent" => job'[k].attempts = 0
    BY DEF AttemptsLeft
  <2> QED
    BY <1>1, <1>5, <1>6 DEF IInv, AttemptsLeft
<1> QED
  BY <1>2, <1>3, <1>4, <1>7, <1>8 DEF IInv

LEMMA StartStep ==
  ASSUME IInv, TypeOK', NEW r \in Runners, Start(r)
  PROVE  IInv'
<1>1. /\ UNCHANGED <<now, job, verdict, faults>>
      /\ runner[r].pc = "new" /\ runner'[r].pc = "idle"
      /\ \A s \in Runners \ {r} : runner'[s] = runner[s]
  BY DEF IInv, TypeOK, Start, NewRunner
<1>2. \A s \in Runners : /\ Active(s)' <=> Active(s)
                         /\ Active(s) => runner'[s] = runner[s]
  BY <1>1 DEF Active
<1>3. HandsAreFull' /\ SuccessIsRecorded' /\ CopyIsCurrent'
  BY <1>1, <1>2
  DEF IInv, HandsAreFull, SuccessIsRecorded, CopyIsCurrent, HeldBy, Active
<1>4. \A k \in Jobs : Open(k)' => Open(k)
  BY <1>1, <1>2, StaysGuarded
<1> QED
  BY <1>1, <1>3, <1>4
  DEF IInv, CompletedMeansEvaluated, FailedMeansExhausted,
      ExtraAttemptsAreFaults, AttemptsLeft

(* Time: a tick that ends the lease of a runner at work is a fault, and    *)
(* any other tick leaves every guarded job guarded.                        *)
LEMMA TimeStep ==
  ASSUME IInv, TypeOK', Tick \/ TickOverrun
  PROVE  IInv'
<1> USE QueueAssumption
<1>1. UNCHANGED <<job, runner, verdict>> /\ now' = now + 1
  BY DEF Tick, TickOverrun, TimePasses
<1>2. /\ HandsAreFull' /\ SuccessIsRecorded' /\ CopyIsCurrent'
      /\ CompletedMeansEvaluated' /\ FailedMeansExhausted'
  BY <1>1
  DEF IInv, HandsAreFull, SuccessIsRecorded, CopyIsCurrent, HeldBy, Active,
      CompletedMeansEvaluated, FailedMeansExhausted
<1>3. faults \in Nat /\ \A k \in Jobs : job[k].attempts \in Nat
  BY DEF IInv, TypeOK, JobRow, NoJob
<1>4. CASE TickOverrun
  <2>1. faults' = faults + 1
    BY <1>4 DEF TickOverrun, Fault
  <2>2. ExtraAttemptsAreFaults' /\ AttemptsLeft'
    BY <1>1, <1>3, <2>1 DEF IInv, ExtraAttemptsAreFaults, AttemptsLeft
  <2> QED
    BY <1>2, <2>2 DEF IInv
<1>5. CASE Tick
  <2>1. faults' = faults /\ Overruns = {}
    BY <1>5 DEF Tick
  <2>2. ASSUME NEW k \in Jobs, NEW s \in Runners, Guarded(k, s)
        PROVE  Guarded(k, s)'
    BY <1>1, <2>1, <2>2 DEF Guarded, Overruns, Active, HeldBy, Expired
  <2>3. \A k \in Jobs : Open(k)' => Open(k)
    BY <1>1, <2>2 DEF Open
  <2>4. ExtraAttemptsAreFaults' /\ AttemptsLeft'
    BY <1>1, <2>1, <2>3 DEF IInv, ExtraAttemptsAreFaults, AttemptsLeft
  <2> QED
    BY <1>2, <2>4 DEF IInv
<1> QED
  BY <1>4, <1>5

LEMMA InductiveStep == ASSUME IInv, [Next]_vars PROVE IInv'
<1> USE QueueAssumption
<1>1. TypeOK'
  BY TypeStep DEF IInv
<1>2. ASSUME NEW r \in Runners, HandlerCommits(r) PROVE IInv'
  <2>1. Moves(r, "succeeded")
    BY <1>2, MoveRunner DEF IInv, HandlerCommits
  <2>2. Active(r) /\ runner[r].job \in Jobs
    BY <1>2 DEF IInv, HandsAreFull, Active, HandlerCommits
  <2>3. /\ \A j \in Jobs : verdict[j] => verdict'[j]
        /\ verdict'[runner[r].job]
    BY <1>2, <2>2 DEF IInv, TypeOK, HandlerCommits
  <2>4. UNCHANGED <<now, job, faults>>
    BY <1>2 DEF HandlerCommits
  <2> QED
    BY <1>1, <2>1, <2>2, <2>3, <2>4, MoveStep
<1>3. ASSUME NEW r \in Runners, HandlerFails(r) PROVE IInv'
  <2>1. Moves(r, "errored")
    BY <1>3, MoveRunner DEF IInv, HandlerFails
  <2>2. Active(r) /\ UNCHANGED <<now, job, verdict, faults>>
    BY <1>3 DEF Active, HandlerFails
  <2> QED
    BY <1>1, <2>1, <2>2, MoveStep
<1>4. ASSUME NEW r \in Runners, Complete(r) PROVE IInv'
  <2>1. /\ runner'[r].pc = "idle"
        /\ \A s \in Runners \ {r} : runner'[s] = runner[s]
    BY <1>4, IdleRunner DEF IInv, Complete
  <2>2. /\ Active(r) /\ runner[r].job \in Jobs /\ verdict[runner[r].job]
        /\ UNCHANGED <<now, verdict, faults>>
    BY <1>4 DEF IInv, HandsAreFull, SuccessIsRecorded, Active, Complete
  <2>3. CASE HeldBy(runner[r].job, r) /\ ~Expired(runner[r].job)
    BY <1>1, <1>4, <2>1, <2>2, <2>3, CompletedJobRow, IdleStep DEF IInv
  <2>4. CASE ~HeldBy(runner[r].job, r) \/ Expired(runner[r].job)
    <3>1. job' = job
      BY <1>4, <2>4 DEF Complete
    <3> QED
      BY <1>1, <2>1, <2>2, <2>4, <3>1, IdleStep
  <2> QED
    BY <2>3, <2>4
<1>5. ASSUME NEW r \in Runners, Retry(r) PROVE IInv'
  <2>1. /\ runner'[r].pc = "idle"
        /\ \A s \in Runners \ {r} : runner'[s] = runner[s]
    BY <1>5, IdleRunner DEF IInv, Retry
  <2>2. /\ Active(r) /\ runner[r].job \in Jobs
        /\ UNCHANGED <<now, verdict, faults>>
    BY <1>5 DEF IInv, HandsAreFull, Active, Retry
  <2>3. CASE HeldBy(runner[r].job, r)
    <3>1. /\ job'[runner[r].job].status =
               IF Retryable(runner[r].attempts) THEN "pending" ELSE "failed"
          /\ job'[runner[r].job].leaseOwner = None
          /\ job'[runner[r].job].attempts = job[runner[r].job].attempts
          /\ \A k \in Jobs \ {runner[r].job} : job'[k] = job[k]
      BY <1>5, <2>3, RetriedRow DEF IInv
    <3>2. runner[r].attempts = job[runner[r].job].attempts
      BY <2>2, <2>3 DEF IInv, CopyIsCurrent
    <3>3. runner[r].attempts \in Nat
      BY DEF IInv, TypeOK, Control
    <3>4. \/ /\ job'[runner[r].job].status = "failed"
             /\ job[runner[r].job].attempts >= MaxAttempts
          \/ /\ job'[runner[r].job].status = "pending"
             /\ job[runner[r].job].attempts < MaxAttempts
      BY <3>1, <3>2, <3>3 DEF Retryable
    <3> QED
      BY <1>1, <2>1, <2>2, <2>3, <3>1, <3>4, IdleStep
  <2>4. CASE ~HeldBy(runner[r].job, r)
    <3>1. job' = job
      BY <1>5, <2>4 DEF Retry
    <3> QED
      BY <1>1, <2>1, <2>2, <2>4, <3>1, IdleStep
  <2> QED
    BY <2>3, <2>4
<1>6. ASSUME NEW r \in Runners, StatementFails(r) PROVE IInv'
  <2>1. /\ runner'[r].pc = "idle"
        /\ \A s \in Runners \ {r} : runner'[s] = runner[s]
    BY <1>6, IdleRunner DEF IInv, StatementFails
  <2>2. Active(r) /\ faults' = faults + 1 /\ UNCHANGED <<now, job, verdict>>
    BY <1>6 DEF Active, StatementFails, Fault
  <2> QED
    BY <1>1, <2>1, <2>2, IdleStep
<1>7. ASSUME NEW r \in Runners, Stop(r) PROVE IInv'
  <2>1. Moves(r, "stopping")
    BY <1>7, MoveRunner DEF IInv, Stop
  <2>2. faults' = faults + 1 /\ UNCHANGED <<now, job, verdict>>
    BY <1>7 DEF Stop, Fault
  <2> QED
    BY <1>1, <2>1, <2>2, MoveStep
<1>8. ASSUME NEW r \in Runners, Crash(r) PROVE IInv'
  <2>1. Moves(r, "dead")
    BY <1>8, MoveRunner DEF IInv, Crash
  <2>2. faults' = faults + 1 /\ UNCHANGED <<now, job, verdict>>
    BY <1>8 DEF Crash, Fault
  <2> QED
    BY <1>1, <2>1, <2>2, MoveStep
<1>9. CASE UNCHANGED vars
  BY <1>1, <1>9
  DEF IInv, vars, HandsAreFull, SuccessIsRecorded, CopyIsCurrent, Active,
      HeldBy, CompletedMeansEvaluated, FailedMeansExhausted,
      ExtraAttemptsAreFaults, AttemptsLeft, Open, Guarded, Expired
<1> QED
  BY <1>1, <1>2, <1>3, <1>4, <1>5, <1>6, <1>7, <1>8, <1>9, EnqueueStep,
     StartStep, ClaimStep, ReleaseLeasesStep, TimeStep
  DEF Next

LEMMA InductiveInit == Init => IInv
BY QueueAssumption
DEF Init, IInv, TypeOK, NoJob, NewRunner, Control, HandsAreFull,
    SuccessIsRecorded, CopyIsCurrent, Active, HeldBy, CompletedMeansEvaluated,
    FailedMeansExhausted, ExtraAttemptsAreFaults, AttemptsLeft, Open

(* Rows and control states keep their types, and only leased jobs have an  *)
(* owner, under every interleaving of the runners, the clock and faults.   *)
THEOREM TypeCorrect == Spec => []TypeOK
<1>1. Init => IInv
  BY InductiveInit
<1>2. IInv /\ [Next]_vars => IInv'
  BY InductiveStep
<1>3. IInv => TypeOK
  BY DEF IInv
<1> QED
  BY <1>1, <1>2, <1>3, PTL DEF Spec

(* The queue's promises for any number of jobs, runners and faults: a      *)
(* completed job was evaluated, a failed one used up its attempts, the     *)
(* runner that still holds a lease decides on current attempts, and each   *)
(* attempt beyond the limit is paid for by a fault.                        *)
THEOREM QueueIsSafe ==
  Spec => [](/\ CompletedMeansEvaluated
             /\ CopyIsCurrent
             /\ FailedMeansExhausted
             /\ ExtraAttemptsAreFaults)
<1>1. Init => IInv
  BY InductiveInit
<1>2. IInv /\ [Next]_vars => IInv'
  BY InductiveStep
<1>3. IInv => /\ CompletedMeansEvaluated
              /\ CopyIsCurrent
              /\ FailedMeansExhausted
              /\ ExtraAttemptsAreFaults
  BY DEF IInv
<1> QED
  BY <1>1, <1>2, <1>3, PTL DEF Spec

(* Who may change the row of a job: its insert, a claim of a pending job   *)
(* or an expired lease, or a step of the runner that holds it.             *)
LEMMA RowChanges ==
  ASSUME IInv, [Next]_vars, NEW j \in Jobs, job'[j] # job[j]
  PROVE  \/ job[j].status \in {"absent", "pending"}
         \/ job[j].status = "leased" /\ Expired(j)
         \/ \E s \in Runners : HeldBy(j, s) /\ runner'[s] # runner[s]
<1> DEFINE Allowed ==
      \/ job[j].status \in {"absent", "pending"}
      \/ job[j].status = "leased" /\ Expired(j)
      \/ \E s \in Runners : HeldBy(j, s) /\ runner'[s] # runner[s]
<1>1. ASSUME NEW k \in Jobs, Enqueue(k) PROVE Allowed
  BY <1>1, EnqueuedRow DEF IInv, Enqueue
<1>2. ASSUME NEW r \in Runners, NEW k \in Jobs, Claim(r, k) PROVE Allowed
  <2>1. k = j
    BY <1>2, ClaimedRow DEF IInv
  <2> QED
    BY <1>2, <2>1 DEF Claim, First, Claimable
<1>3. ASSUME NEW r \in Runners, Complete(r) PROVE Allowed
  <2>1. HeldBy(runner[r].job, r) /\ ~Expired(runner[r].job)
    BY <1>3 DEF Complete
  <2>2. runner[r].job = j
    BY <1>3, <2>1, CompletedJobRow DEF IInv
  <2>3. runner[r].pc = "succeeded" /\ runner'[r].pc = "idle"
    BY <1>3, IdleRunner DEF IInv, Complete
  <2> QED
    BY <2>1, <2>2, <2>3
<1>4. ASSUME NEW r \in Runners, Retry(r) PROVE Allowed
  <2>1. HeldBy(runner[r].job, r)
    BY <1>4 DEF Retry
  <2>2. runner[r].job = j
    BY <1>4, <2>1, RetriedRow DEF IInv
  <2>3. runner[r].pc = "errored" /\ runner'[r].pc = "idle"
    BY <1>4, IdleRunner DEF IInv, Retry
  <2> QED
    BY <2>1, <2>2, <2>3
<1>5. ASSUME NEW r \in Runners, ReleaseLeases(r) PROVE Allowed
  <2>1. HeldBy(j, r)
    BY <1>5, ReleasedRows DEF IInv
  <2>2. runner[r].pc = "stopping" /\ runner'[r].pc = "dead"
    BY <1>5, MoveRunner DEF IInv, ReleaseLeases, Moves
  <2> QED
    BY <2>1, <2>2
<1>6. CASE UNCHANGED job
  BY <1>6
<1>7. \/ \E k \in Jobs : Enqueue(k)
      \/ \E r \in Runners, k \in Jobs : Claim(r, k)
      \/ \E r \in Runners : Complete(r) \/ Retry(r) \/ ReleaseLeases(r)
      \/ UNCHANGED job
  BY DEF Next, vars, Start, HandlerCommits, HandlerFails, StatementFails,
         Stop, Crash, Tick, TickOverrun, TimePasses
<1> QED
  BY <1>1, <1>2, <1>3, <1>4, <1>5, <1>6, <1>7

(* The statements of runners neither insert nor delete a job.              *)
LEMMA JobsStay ==
  ASSUME IInv, NEW j \in Jobs,
         \/ \E r \in Runners, k \in Jobs : Claim(r, k)
         \/ \E r \in Runners : Complete(r) \/ Retry(r) \/ ReleaseLeases(r)
         \/ UNCHANGED job
  PROVE  job'[j].status = "absent" <=> job[j].status = "absent"
<1> DEFINE Goal == job'[j].status = "absent" <=> job[j].status = "absent"
<1>1. ASSUME NEW r \in Runners, NEW k \in Jobs, Claim(r, k) PROVE Goal
  BY <1>1, ClaimedRow DEF IInv
<1>2. ASSUME NEW r \in Runners, Complete(r) PROVE Goal
  <2>1. CASE HeldBy(runner[r].job, r) /\ ~Expired(runner[r].job)
    BY <1>2, <2>1, CompletedJobRow DEF IInv, HeldBy
  <2> QED
    BY <1>2, <2>1 DEF Complete
<1>3. ASSUME NEW r \in Runners, Retry(r) PROVE Goal
  <2>1. CASE HeldBy(runner[r].job, r)
    BY <1>3, <2>1, RetriedRow DEF IInv, HeldBy
  <2> QED
    BY <1>3, <2>1 DEF Retry
<1>4. ASSUME NEW r \in Runners, ReleaseLeases(r) PROVE Goal
  BY <1>4, ReleasedRows DEF IInv, HeldBy
<1>5. CASE UNCHANGED job
  BY <1>5
<1> QED
  BY <1>1, <1>2, <1>3, <1>4, <1>5

(* Nobody but its owner ends a lease that has not expired, although every  *)
(* statement of every runner may come between two of the owner's.          *)
THEOREM LeasesAreExclusive == Spec => LeaseIsExclusive
<1>1. Init => IInv
  BY InductiveInit
<1>2. IInv /\ [Next]_vars => IInv'
  BY InductiveStep
<1>3. IInv /\ [Next]_vars =>
        [\A j \in Jobs, r \in Runners :
           HeldBy(j, r) /\ ~Expired(j) /\ job'[j] # job[j]
             => runner'[r] # runner[r]]_vars
  <2> SUFFICES ASSUME IInv, [Next]_vars, NEW j \in Jobs, NEW r \in Runners,
                      HeldBy(j, r), ~Expired(j), job'[j] # job[j]
               PROVE  runner'[r] # runner[r]
    OBVIOUS
  <2>1. \E s \in Runners : HeldBy(j, s) /\ runner'[s] # runner[s]
    BY RowChanges DEF HeldBy
  <2> QED
    BY <2>1, OneHolder
<1> QED
  BY <1>1, <1>2, <1>3, PTL DEF Spec, LeaseIsExclusive

(* A completed or failed job is never written again, by no runner however  *)
(* late.                                                                   *)
THEOREM ResultsAreFinal == Spec => TerminalJobsStay
<1>1. Init => IInv
  BY InductiveInit
<1>2. IInv /\ [Next]_vars => IInv'
  BY InductiveStep
<1>3. IInv /\ [Next]_vars =>
        [\A j \in Jobs : job[j].status \in {"completed", "failed"}
           => job'[j] = job[j]]_vars
  BY RowChanges DEF HeldBy
<1> QED
  BY <1>1, <1>2, <1>3, PTL DEF Spec, TerminalJobsStay
=============================================================================
