----------------------- MODULE LoadCommissioningProofs -----------------------
(***************************************************************************)
(* Proofs about load commissioning.                                        *)
(*                                                                         *)
(* First about LoadTest alone: its types, that a run has an approved plan  *)
(* behind it, that a verdict is right on all readings there will ever be,  *)
(* and that load_test_runs implements VersionedRows.  The three invariants *)
(* need one another: a verdict stays right because the run's plan is       *)
(* approved and an approved plan is never written again, and because a run *)
(* that is not running takes no reading.  The inductive invariant adds     *)
(* only the versions of runs, which the refinement counts.                 *)
(*                                                                         *)
(* Then about LoadCommissioning: that it is both its parts, LoadTest and   *)
(* the job queue, whatever the interleaving, so that what is proved of a   *)
(* part is true of the composition; and that the jobs match the runs.  The *)
(* part that is not obvious is the handler's step.  It is a step of        *)
(* LoadTest because a runner that handles has a run in hand, and a step of *)
(* the queue because a run that is evaluating has no verdict: each part's  *)
(* own invariant makes the step one of the other part.                     *)
(***************************************************************************)
EXTENDS LoadCommissioning, TLAPS

(* A run is inserted at version 2. *)
RunVersions == \A r \in Runs : run[r].status # "absent" => run[r].version >= 2

IInv == TypeOK /\ RunsFollowApproval /\ VerdictIsJustified /\ RunVersions

-----------------------------------------------------------------------------
(* A row is of its table's type or missing. *)
LEMMA RowShapes ==
  ASSUME TypeOK
  PROVE  /\ \A p \in Plans : \/ plan[p] \in PlanRow /\ plan[p].status # "absent"
                             \/ plan[p] = NoPlan /\ plan[p].status = "absent"
         /\ \A r \in Runs : \/ run[r] \in RunRow /\ run[r].status # "absent"
                               /\ run[r].plan \in Plans
                            \/ run[r] = NoRun /\ run[r].status = "absent"
BY DEF TypeOK, PlanRow, PlanStatuses, NoPlan, RunRow, RunStatuses, NoRun

(* MoveRun: one row, along the lifecycle, at the next version *)
LEMMA MovedRun ==
  ASSUME TypeOK, NEW r \in Runs, NEW to, MoveRun(r, to)
  PROVE  /\ run' \in [Runs -> RunRow \cup {NoRun}]
         /\ run[r] \in RunRow /\ run'[r] \in RunRow
         /\ <<run[r].status, to>> \in Lifecycle
         /\ run'[r].status = to /\ run'[r].version = run[r].version + 1
         /\ run'[r].plan = run[r].plan /\ run[r].plan \in Plans
         /\ \A q \in Runs \ {r} : run'[q] = run[q]
<1> DEFINE row == [run[r] EXCEPT !.status = to, !.version = run[r].version + 1]
<1>1. <<run[r].status, to>> \in Lifecycle
  BY DEF MoveRun
<1>2. run[r].status # "absent" /\ to \in RunStatuses
  BY <1>1 DEF Lifecycle, RunStatuses
<1>3. run[r] \in RunRow /\ run[r].plan \in Plans
  BY <1>2, RowShapes
<1>4. run[r].version + 1 \in Nat
  BY <1>3 DEF RunRow
<1>5. /\ row \in RunRow /\ row.status = to
      /\ row.version = run[r].version + 1 /\ row.plan = run[r].plan
  BY <1>2, <1>3, <1>4 DEF RunRow
<1>6. run' = [run EXCEPT ![r] = row]
  BY DEF MoveRun
<1> HIDE DEF row
<1> QED
  BY <1>1, <1>3, <1>5, <1>6 DEF TypeOK

(* A verdict is final: the lifecycle leads out of no verdict.              *)
LEMMA LifecycleEnds ==
  ASSUME NEW from, NEW to, <<from, to>> \in Lifecycle
  PROVE  /\ from \notin {"passed", "failed", "absent"}
         /\ to = "evaluating" => from = "running"
         /\ to \in {"passed", "failed"} => from = "evaluating"
BY DEF Lifecycle

-----------------------------------------------------------------------------
(* A step that leaves runs and readings alone, inserts or approves plans   *)
(* and writes no approved plan, keeps the invariant.                       *)
LEMMA PlanStep ==
  ASSUME IInv, plan' \in [Plans -> PlanRow \cup {NoPlan}],
         \A p \in Plans :
           /\ plan'[p].mandatory \subseteq plan'[p].channels
           /\ \A q \in Plans \ {p} :
                plan'[p].channels \cap plan'[q].channels = {}
           /\ plan[p].status = "approved" => plan'[p] = plan[p],
         UNCHANGED <<run, readings, starting>>
  PROVE  IInv'
<1>1. \A r \in Runs : run[r].status # "absent" =>
        run[r].plan \in Plans /\ plan'[run[r].plan] = plan[run[r].plan]
  BY RowShapes DEF IInv, RunsFollowApproval
<1>2. TypeOK'
  BY <1>1 DEF IInv, TypeOK
<1>3. RunsFollowApproval'
  BY <1>1 DEF IInv, TypeOK, RunsFollowApproval
<1>4. VerdictIsJustified'
  BY <1>1 DEF IInv, VerdictIsJustified
<1> QED
  BY <1>2, <1>3, <1>4 DEF IInv, RunVersions

LEMMA CreateLoadPlanStep ==
  ASSUME IInv, NEW u \in Users, NEW p \in Plans, NEW project \in Projects,
         NEW channels \in SUBSET Channels, NEW mandatory \in SUBSET channels,
         CreateLoadPlan(u, p, project, channels, mandatory)
  PROVE  IInv'
<1> DEFINE row == [status |-> "draft", version |-> 1, project |-> project,
                   channels |-> channels, mandatory |-> mandatory]
<1>1. /\ row \in PlanRow /\ row.channels = channels
      /\ row.mandatory = mandatory
  BY DEF PlanRow, PlanStatuses
<1>2. /\ plan' = [plan EXCEPT ![p] = row] /\ plan[p].status = "absent"
      /\ \A q \in Plans : plan[q].channels \cap channels = {}
      /\ UNCHANGED <<run, readings, starting>>
  BY DEF CreateLoadPlan
<1> HIDE DEF row
<1>3. plan' \in [Plans -> PlanRow \cup {NoPlan}]
  BY <1>1, <1>2 DEF IInv, TypeOK
<1>4. \A q \in Plans :
        /\ plan'[q].mandatory \subseteq plan'[q].channels
        /\ \A o \in Plans \ {q} : plan'[q].channels \cap plan'[o].channels = {}
        /\ plan[q].status = "approved" => plan'[q] = plan[q]
  BY <1>1, <1>2 DEF IInv, TypeOK
<1> QED
  BY <1>2, <1>3, <1>4, PlanStep

LEMMA ApproveLoadPlanStep ==
  ASSUME IInv, NEW u \in Users, NEW p \in Plans, NEW expected \in 1..2,
         ApproveLoadPlan(u, p, expected)
  PROVE  IInv'
<1> DEFINE row == [plan[p] EXCEPT !.status = "approved",
                                  !.version = expected + 1]
<1>1. plan[p] \in PlanRow
  BY RowShapes DEF IInv, ApproveLoadPlan
<1>2. /\ row \in PlanRow /\ row.channels = plan[p].channels
      /\ row.mandatory = plan[p].mandatory
  <2>1. expected + 1 \in Nat /\ "approved" \in PlanStatuses
    BY DEF PlanStatuses
  <2> QED
    BY <1>1, <2>1 DEF PlanRow
<1>3. /\ plan' = [plan EXCEPT ![p] = row] /\ plan[p].status = "draft"
      /\ UNCHANGED <<run, readings, starting>>
  BY DEF ApproveLoadPlan
<1> HIDE DEF row
<1>4. plan' \in [Plans -> PlanRow \cup {NoPlan}]
  BY <1>2, <1>3 DEF IInv, TypeOK
<1>5. \A q \in Plans :
        /\ plan'[q].mandatory \subseteq plan'[q].channels
        /\ \A o \in Plans \ {q} : plan'[q].channels \cap plan'[o].channels = {}
        /\ plan[q].status = "approved" => plan'[q] = plan[q]
  BY <1>2, <1>3 DEF IInv, TypeOK
<1> QED
  BY <1>3, <1>4, <1>5, PlanStep

(* Between its two steps StartLoadRun only carries the plan it read.       *)
LEMMA StartingStep ==
  ASSUME IInv, NEW h \in Handlers, NEW p \in Plans \cup {None},
         starting' = [starting EXCEPT ![h] = p],
         p # None => plan[p].status = "approved",
         UNCHANGED <<plan, run, readings>>
  PROVE  IInv'
<1>1. TypeOK'
  BY DEF IInv, TypeOK
<1>2. RunsFollowApproval'
  BY DEF IInv, TypeOK, RunsFollowApproval
<1> QED
  BY <1>1, <1>2 DEF IInv, VerdictIsJustified, RunVersions

(* The plan read earlier is still approved when the run is inserted, and   *)
(* a run that was not there has no readings.                               *)
LEMMA StartLoadRunStep ==
  ASSUME IInv, NEW h \in Handlers, NEW r \in Runs, StartLoadRun(h, r)
  PROVE  IInv'
<1> DEFINE row == [status |-> "running", version |-> 2, plan |-> starting[h]]
<1>1. starting[h] \in Plans /\ plan[starting[h]].status = "approved"
  BY DEF IInv, TypeOK, StartLoadRun, RunsFollowApproval
<1>2. /\ row \in RunRow /\ row.status = "running" /\ row.version = 2
      /\ row.plan = starting[h]
  BY <1>1 DEF RunRow, RunStatuses
<1>3. /\ run[r].status = "absent" /\ run' = [run EXCEPT ![r] = row]
      /\ starting' = [starting EXCEPT ![h] = None]
      /\ UNCHANGED <<plan, readings>>
  BY DEF StartLoadRun
<1> HIDE DEF row
<1>4. /\ run' \in [Runs -> RunRow \cup {NoRun}] /\ run'[r] = row
      /\ \A q \in Runs \ {r} : run'[q] = run[q]
  BY <1>2, <1>3 DEF IInv, TypeOK
<1>5. readings[r] = {}
  BY <1>3 DEF IInv, TypeOK
<1>6. TypeOK'
  <2>1. \A q \in Runs : \A x, y \in readings'[q] :
          /\ run'[q].status # "absent"
          /\ x.channel \in plan'[run'[q].plan].channels
          /\ x.channel = y.channel /\ x.sequence = y.sequence => x = y
    BY <1>3, <1>4, <1>5 DEF IInv, TypeOK
  <2>2. starting' \in [Handlers -> Plans \cup {None}]
    BY <1>3 DEF IInv, TypeOK
  <2> QED
    BY <1>3, <1>4, <2>1, <2>2 DEF IInv, TypeOK
<1>7. RunsFollowApproval'
  <2>1. \A g \in Handlers : starting'[g] # None => starting'[g] = starting[g]
    BY <1>3 DEF IInv, TypeOK
  <2> QED
    BY <1>1, <1>2, <1>3, <1>4, <2>1 DEF IInv, RunsFollowApproval
<1>8. VerdictIsJustified'
  BY <1>2, <1>3, <1>4 DEF IInv, VerdictIsJustified
<1>9. RunVersions'
  BY <1>2, <1>4 DEF IInv, RunVersions
<1> QED
  BY <1>6, <1>7, <1>8, <1>9 DEF IInv

(* A reading goes to a run that has no verdict, under a new number.        *)
LEMMA AppendReadingStep ==
  ASSUME IInv, NEW u \in Users, NEW r \in Runs, NEW reading \in Reading,
         AppendReading(u, r, reading)
  PROVE  IInv'
<1>1. /\ run[r].status = "running"
      /\ readings' = [readings EXCEPT ![r] = readings[r] \cup {reading}]
      /\ UNCHANGED <<plan, run, starting>>
  BY DEF AppendReading
<1>2. /\ readings' \in [Runs -> SUBSET Reading]
      /\ readings'[r] = readings[r] \cup {reading}
      /\ \A q \in Runs \ {r} : readings'[q] = readings[q]
  BY <1>1 DEF IInv, TypeOK
<1>3. TypeOK'
  <2>1. \A x, y \in readings'[r] :
          /\ run'[r].status # "absent"
          /\ x.channel \in plan'[run'[r].plan].channels
          /\ x.channel = y.channel /\ x.sequence = y.sequence => x = y
    BY <1>1, <1>2 DEF IInv, TypeOK, AppendReading
  <2> QED
    BY <1>1, <1>2, <2>1 DEF IInv, TypeOK
<1>4. RunsFollowApproval'
  BY <1>1 DEF IInv, RunsFollowApproval
<1>5. VerdictIsJustified'
  BY <1>1, <1>2 DEF IInv, VerdictIsJustified
<1> QED
  BY <1>1, <1>3, <1>4, <1>5 DEF IInv, RunVersions

(* A run moves without a word on the other tables; if it gets a verdict,   *)
(* the verdict is the one EvaluateRun gives on its readings.               *)
LEMMA MoveRunStep ==
  ASSUME IInv, NEW r \in Runs, NEW to, MoveRun(r, to),
         to \in {"passed", "failed"} => (to = "passed" <=> Passes(r)),
         UNCHANGED <<plan, readings, starting>>
  PROVE  IInv'
<1>1. /\ run' \in [Runs -> RunRow \cup {NoRun}]
      /\ run[r].status # "absent"
      /\ run'[r].status = to /\ run'[r].version = run[r].version + 1
      /\ run'[r].plan = run[r].plan
      /\ \A q \in Runs \ {r} : run'[q] = run[q]
  BY MovedRun, LifecycleEnds DEF IInv
<1>2. to # "absent" /\ run[r].version \in Nat
  BY MovedRun DEF IInv, Lifecycle, RunRow
<1>3. TypeOK'
  BY <1>1, <1>2 DEF IInv, TypeOK
<1>4. RunsFollowApproval'
  BY <1>1 DEF IInv, RunsFollowApproval
<1>5. VerdictIsJustified'
  <2>1. Passes(r) <=>
          /\ \A x \in readings[r] : x.within
          /\ plan[run[r].plan].mandatory \subseteq {x.channel : x \in readings[r]}
    BY DEF Passes, OutOfRange, Missing
  <2> QED
    BY <1>1, <2>1 DEF IInv, VerdictIsJustified
<1>6. RunVersions'
  BY <1>1, <1>2 DEF IInv, RunVersions
<1> QED
  BY <1>3, <1>4, <1>5, <1>6 DEF IInv

(* The evaluation moves a run to the verdict EvaluateRun gives.            *)
LEMMA EvaluateLoadRunStep ==
  ASSUME IInv, NEW r \in Runs, EvaluateLoadRun(r)
  PROVE  IInv'
<1>1. PICK to : /\ to = (IF Passes(r) THEN "passed" ELSE "failed")
                /\ MoveRun(r, to)
  BY DEF EvaluateLoadRun
<1>2. to \in {"passed", "failed"} => (to = "passed" <=> Passes(r))
  BY <1>1
<1> QED
  BY <1>1, <1>2, MoveRunStep DEF EvaluateLoadRun

LEMMA InductiveStep == ASSUME IInv, [Next]_loadVars PROVE IInv'
<1>1. ASSUME NEW h \in Handlers, NEW u \in Users, NEW p \in Plans,
             ReadPlan(h, u, p)
      PROVE  IInv'
  BY <1>1, StartingStep DEF ReadPlan
<1>2. ASSUME NEW h \in Handlers, AbandonStart(h)
      PROVE  IInv'
  BY <1>2, StartingStep DEF AbandonStart
<1>3. ASSUME NEW u \in Users, NEW r \in Runs, QueueLoadEvaluation(u, r)
      PROVE  IInv'
  <2>1. MoveRun(r, "evaluating") /\ UNCHANGED <<plan, readings, starting>>
    BY <1>3 DEF QueueLoadEvaluation
  <2> QED
    BY <2>1, MoveRunStep
<1>4. CASE UNCHANGED loadVars
  BY <1>4 DEF loadVars, IInv, TypeOK, RunsFollowApproval, VerdictIsJustified,
     RunVersions
<1> QED
  BY <1>1, <1>2, <1>3, <1>4, CreateLoadPlanStep, ApproveLoadPlanStep,
     StartLoadRunStep, AppendReadingStep, EvaluateLoadRunStep
  DEF Next, Commission

LEMMA InductiveInit == Init => IInv
BY LoadTestAssumption
DEF Init, IInv, TypeOK, RunsFollowApproval, VerdictIsJustified, RunVersions,
    NoPlan, NoRun

(* The inductive invariant holds of the operations of load commissioning.  *)
LEMMA AlwaysIInv == Spec => []IInv
<1>1. Init => IInv
  BY InductiveInit
<1>2. IInv /\ [Next]_loadVars => IInv'
  BY InductiveStep
<1> QED
  BY <1>1, <1>2, PTL DEF Spec

(* Rows are well formed, a channel is of one plan, and a run has one value *)
(* for each sequence number of a channel of its own plan.                  *)
THEOREM LoadTypes == Spec => []TypeOK
<1>1. IInv => TypeOK
  BY DEF IInv
<1> QED
  BY <1>1, AlwaysIInv, PTL

(* No run without an approved plan behind it, and no verdict that the      *)
(* readings do not bear out, for any number of plans, runs, channels and   *)
(* requests in flight.                                                     *)
THEOREM VerdictsAreRight == Spec => [](RunsFollowApproval /\ VerdictIsJustified)
<1>1. IInv => RunsFollowApproval /\ VerdictIsJustified
  BY DEF IInv
<1> QED
  BY <1>1, AlwaysIInv, PTL

-----------------------------------------------------------------------------
(* What a step of the program is for one row of load_test_runs             *)
LEMMA RunChanges ==
  ASSUME IInv, [Next]_loadVars, NEW r \in Runs
  PROVE  \/ run'[r] = run[r]
         \/ /\ run[r] = NoRun
            /\ run'[r].status = "running" /\ run'[r].version = 2
         \/ /\ <<run[r].status, run'[r].status>> \in Lifecycle
            /\ run'[r].status \in {"evaluating", "passed", "failed"}
            /\ run[r].version \in Nat /\ run[r].version >= 2
            /\ run'[r].version = run[r].version + 1
<1> DEFINE Allowed ==
      \/ run'[r] = run[r]
      \/ /\ run[r] = NoRun
         /\ run'[r].status = "running" /\ run'[r].version = 2
      \/ /\ <<run[r].status, run'[r].status>> \in Lifecycle
         /\ run'[r].status \in {"evaluating", "passed", "failed"}
         /\ run[r].version \in Nat /\ run[r].version >= 2
         /\ run'[r].version = run[r].version + 1
<1>1. ASSUME NEW h \in Handlers, NEW q \in Runs, StartLoadRun(h, q)
      PROVE  Allowed
  <2> DEFINE row == [status |-> "running", version |-> 2, plan |-> starting[h]]
  <2>1. /\ run' = [run EXCEPT ![q] = row] /\ run[q].status = "absent"
        /\ row.status = "running" /\ row.version = 2
    BY <1>1 DEF StartLoadRun
  <2> HIDE DEF row
  <2> QED
    BY <2>1, RowShapes DEF IInv, TypeOK
<1>2. ASSUME NEW q \in Runs, NEW to \in {"evaluating", "passed", "failed"},
             MoveRun(q, to)
      PROVE  Allowed
  <2>1. /\ run[q] \in RunRow /\ <<run[q].status, to>> \in Lifecycle
        /\ run'[q].status = to /\ run'[q].version = run[q].version + 1
        /\ \A o \in Runs \ {q} : run'[o] = run[o]
    BY <1>2, MovedRun DEF IInv
  <2>2. run[q].version \in Nat /\ run[q].version >= 2
    BY <2>1, LifecycleEnds DEF IInv, RunVersions, RunRow
  <2> QED
    BY <2>1, <2>2
<1>3. CASE UNCHANGED run
  BY <1>3
<1>4. \/ \E h \in Handlers, q \in Runs : StartLoadRun(h, q)
      \/ \E q \in Runs, to \in {"evaluating", "passed", "failed"} : MoveRun(q, to)
      \/ UNCHANGED run
  BY DEF Next, loadVars, Commission, CreateLoadPlan, ApproveLoadPlan, ReadPlan,
     AbandonStart, AppendReading, QueueLoadEvaluation, EvaluateLoadRun
<1> QED
  BY <1>1, <1>2, <1>3, <1>4

(* A run is inserted once, running, gets one verdict and keeps it; every   *)
(* move raises its version by one.                                         *)
THEOREM RunsAreVersioned == Spec => RunLifecycle
<1>1. Init => RunStates!Init
  BY DEF Init, NoRun, RunStates!Init
<1>2. IInv /\ [Next]_loadVars => RunStates!Next
  <2> SUFFICES ASSUME IInv, [Next]_loadVars, NEW r \in Runs
               PROVE  \/ RunStates!Inserted(r) \/ RunStates!Moved(r)
                      \/ RunStates!Kept(r)
    BY DEF RunStates!Next
  <2>1. CASE run'[r] = run[r]
    BY <2>1 DEF RunStates!Kept
  <2>2. CASE /\ run[r] = NoRun
             /\ run'[r].status = "running" /\ run'[r].version = 2
    BY <2>2 DEF RunStates!Inserted, NoRun
  <2>3. CASE /\ <<run[r].status, run'[r].status>> \in Lifecycle
             /\ run'[r].status \in {"evaluating", "passed", "failed"}
             /\ run[r].version \in Nat /\ run[r].version >= 2
             /\ run'[r].version = run[r].version + 1
    <3>1. run'[r].version - 1 = (run[r].version - 1) + 1
      BY <2>3
    <3>2. /\ run[r].version # 0 /\ run'[r].version # 0
      BY <2>3
    <3>3. \/ run[r].status = "running" /\ run'[r].status = "evaluating"
          \/ run[r].status = "evaluating" /\ run'[r].status = "passed"
          \/ run[r].status = "evaluating" /\ run'[r].status = "failed"
      BY <2>3, LifecycleEnds
    <3> QED
      BY <3>1, <3>2, <3>3 DEF RunStates!Moved
  <2> QED
    BY <2>1, <2>2, <2>3, RunChanges
<1> QED
  BY <1>1, <1>2, AlwaysIInv, PTL DEF Spec, RunLifecycle, RunStates!Spec

-----------------------------------------------------------------------------

QueueProofs == INSTANCE JobQueueProofs WITH
  Jobs <- Runs, verdict <- [r \in Runs |-> Evaluated(r)]

(* The invariants of both parts *)
Parts == IInv /\ QueueProofs!IInv

-----------------------------------------------------------------------------
(* The statements of runners on the jobs table are the same in Queue and   *)
(* in the instance whose theorems are used here.                           *)
LEMMA SameStatements ==
  ASSUME NEW w \in Runners
  PROVE  /\ \A r \in Runs : Queue!Claim(w, r) <=> QueueProofs!Claim(w, r)
         /\ Queue!Complete(w) <=> QueueProofs!Complete(w)
         /\ Queue!Retry(w) <=> QueueProofs!Retry(w)
         /\ Queue!ReleaseLeases(w) <=> QueueProofs!ReleaseLeases(w)
<1>1. \A r \in Runs : Queue!Claim(w, r) <=> QueueProofs!Claim(w, r)
  BY DEF Queue!Claim, QueueProofs!Claim, Queue!First, QueueProofs!First,
     Queue!Claimable, QueueProofs!Claimable, Queue!Expired,
     QueueProofs!Expired
<1>2. Queue!Complete(w) <=> QueueProofs!Complete(w)
  BY DEF Queue!Complete, QueueProofs!Complete, Queue!Idle, QueueProofs!Idle,
     Queue!HeldBy, QueueProofs!HeldBy, Queue!Expired, QueueProofs!Expired
<1>3. Queue!Retry(w) <=> QueueProofs!Retry(w)
  BY DEF Queue!Retry, QueueProofs!Retry, Queue!Idle, QueueProofs!Idle,
     Queue!HeldBy, QueueProofs!HeldBy, Queue!Retryable,
     QueueProofs!Retryable, Queue!Backoff, QueueProofs!Backoff
<1>4. Queue!ReleaseLeases(w) <=> QueueProofs!ReleaseLeases(w)
  BY DEF Queue!ReleaseLeases, QueueProofs!ReleaseLeases, Queue!HeldBy,
     QueueProofs!HeldBy
<1> QED
  BY <1>1, <1>2, <1>3, <1>4

(* The queue of the specification is the one the proofs are about. *)
LEMMA SameQueue ==
  /\ Queue!Init <=> QueueProofs!Init
  /\ Queue!Next <=> QueueProofs!Next
  /\ Queue!vars = QueueProofs!vars
<1>1. Queue!Init <=> QueueProofs!Init
  BY DEF Queue!Init, QueueProofs!Init, Queue!NoJob, QueueProofs!NoJob,
     Queue!NewRunner, QueueProofs!NewRunner
<1>2. Queue!vars = QueueProofs!vars
  BY DEF Queue!vars, QueueProofs!vars
<1>3. \A r \in Runs : Queue!Enqueue(r) <=> QueueProofs!Enqueue(r)
  BY DEF Queue!Enqueue, QueueProofs!Enqueue, Queue!NoJob, QueueProofs!NoJob
<1>4. \A w \in Runners : Queue!Start(w) <=> QueueProofs!Start(w)
  BY DEF Queue!Start, QueueProofs!Start, Queue!NewRunner,
     QueueProofs!NewRunner
<1>5. \A w \in Runners :
        /\ Queue!HandlerCommits(w) <=> QueueProofs!HandlerCommits(w)
        /\ Queue!HandlerFails(w) <=> QueueProofs!HandlerFails(w)
  BY DEF Queue!HandlerCommits, QueueProofs!HandlerCommits,
     Queue!HandlerFails, QueueProofs!HandlerFails
<1>6. \A w \in Runners :
        /\ Queue!StatementFails(w) <=> QueueProofs!StatementFails(w)
        /\ Queue!Stop(w) <=> QueueProofs!Stop(w)
        /\ Queue!Crash(w) <=> QueueProofs!Crash(w)
  BY DEF Queue!StatementFails, QueueProofs!StatementFails, Queue!Stop,
     QueueProofs!Stop, Queue!Crash, QueueProofs!Crash, Queue!Idle,
     QueueProofs!Idle, Queue!Fault, QueueProofs!Fault
<1>7. Queue!Tick <=> QueueProofs!Tick
  BY DEF Queue!Tick, QueueProofs!Tick, Queue!TimePasses,
     QueueProofs!TimePasses, Queue!Horizon, QueueProofs!Horizon,
     Queue!Overruns, QueueProofs!Overruns, Queue!Active, QueueProofs!Active,
     Queue!HeldBy, QueueProofs!HeldBy, Queue!Expired, QueueProofs!Expired
<1>8. Queue!TickOverrun <=> QueueProofs!TickOverrun
  BY DEF Queue!TickOverrun, QueueProofs!TickOverrun, Queue!TimePasses,
     QueueProofs!TimePasses, Queue!Horizon, QueueProofs!Horizon,
     Queue!Overruns, QueueProofs!Overruns, Queue!Active, QueueProofs!Active,
     Queue!HeldBy, QueueProofs!HeldBy, Queue!Expired, QueueProofs!Expired,
     Queue!Fault, QueueProofs!Fault
<1>9. Queue!Next <=> QueueProofs!Next
  BY <1>3, <1>4, <1>5, <1>6, <1>7, <1>8, SameStatements
  DEF Queue!Next, QueueProofs!Next
<1> QED
  BY <1>1, <1>2, <1>9

(* A runner that handles a job has a run in hand. *)
LEMMA HandlingARun ==
  ASSUME QueueProofs!IInv, NEW w \in Runners, runner[w].pc = "handling"
  PROVE  runner[w].job \in Runs
BY DEF QueueProofs!IInv, QueueProofs!HandsAreFull, QueueProofs!Active

-----------------------------------------------------------------------------
(* Each step of the composition is one of load commissioning, or none.     *)
LEMMA StepOfLoadTest ==
  ASSUME Parts, [CommissioningNext]_vars
  PROVE  [Next]_loadVars
<1>1. ASSUME NEW u \in Users, NEW r \in Runs, EnqueueEvaluation(u, r)
      PROVE  Next
  BY <1>1 DEF EnqueueEvaluation, Next
<1>2. ASSUME NEW w \in Runners, Evaluate(w)
      PROVE  Next
  <2>1. runner[w].job \in Runs
    BY <1>2, HandlingARun DEF Evaluate, Parts
  <2> QED
    BY <1>2, <2>1 DEF Evaluate, Next
<1>3. CASE UNCHANGED loadVars
  BY <1>3
<1>4. CASE Commission
  BY <1>4 DEF Next
<1> QED
  BY <1>1, <1>2, <1>3, <1>4 DEF CommissioningNext, vars, loadVars

(* An operation of the users other than the queueing gives no verdict. *)
LEMMA NoVerdict ==
  ASSUME Parts, Commission
  PROVE  [r \in Runs |-> Evaluated(r)]' = [r \in Runs |-> Evaluated(r)]
<1> SUFFICES ASSUME NEW r \in Runs
             PROVE  Evaluated(r)' <=> Evaluated(r)
  BY DEF Evaluated
<1>1. ASSUME NEW h \in Handlers, NEW q \in Runs, StartLoadRun(h, q)
      PROVE  Evaluated(r)' <=> Evaluated(r)
  <2> DEFINE row == [status |-> "running", version |-> 2, plan |-> starting[h]]
  <2>1. /\ run' = [run EXCEPT ![q] = row] /\ run[q].status = "absent"
        /\ row.status = "running"
    BY <1>1 DEF StartLoadRun
  <2> HIDE DEF row
  <2> QED
    BY <2>1 DEF Parts, IInv, TypeOK, Evaluated
<1>2. CASE UNCHANGED run
  BY <1>2 DEF Evaluated
<1> QED
  BY <1>1, <1>2 DEF Commission, CreateLoadPlan, ApproveLoadPlan, ReadPlan,
     AbandonStart, AppendReading

(* The handler's transaction records the verdict of the job in hand, which *)
(* has none yet.                                                           *)
LEMMA EvaluateCommits ==
  ASSUME Parts, NEW w \in Runners, Evaluate(w)
  PROVE  Queue!HandlerCommits(w)
<1> DEFINE j == runner[w].job
           verdict == [r \in Runs |-> Evaluated(r)]
<1>1. /\ runner[w].pc = "handling" /\ j \in Runs
      /\ run[j].status = "evaluating"
      /\ \E to \in {"passed", "failed"} : MoveRun(j, to)
  BY HandlingARun DEF Evaluate, EvaluateLoadRun, Parts
<1>2. /\ run'[j].status \in {"passed", "failed"}
      /\ \A r \in Runs \ {j} : run'[r] = run[r]
  BY <1>1, MovedRun DEF Parts, IInv
<1>3. ~verdict[j]
  BY <1>1 DEF Evaluated
<1>4. verdict' = [verdict EXCEPT ![j] = TRUE]
  <2>1. \A r \in Runs : Evaluated(r)' <=> (r = j \/ Evaluated(r))
    BY <1>2 DEF Evaluated
  <2>2. \A r \in Runs : Evaluated(r)' \in BOOLEAN /\ Evaluated(r) \in BOOLEAN
    BY DEF Evaluated
  <2>3. \A r \in Runs : Evaluated(r)' = [verdict EXCEPT ![j] = TRUE][r]
    BY <1>1, <2>1, <2>2
  <2> QED
    BY <2>3
<1> QED
  BY <1>1, <1>3, <1>4 DEF Evaluate, Queue!HandlerCommits

(* Each step of the composition is one of the queue, or none.              *)
LEMMA StepOfQueue ==
  ASSUME Parts, [CommissioningNext]_vars
  PROVE  [Queue!Next]_(Queue!vars)
<1>1. CASE Commission /\ UNCHANGED queueVars
  BY <1>1, NoVerdict DEF queueVars, Queue!vars
<1>2. ASSUME NEW u \in Users, NEW r \in Runs, EnqueueEvaluation(u, r)
      PROVE  Queue!Next
  BY <1>2 DEF EnqueueEvaluation, Queue!Next
<1>3. ASSUME NEW w \in Runners, Evaluate(w)
      PROVE  Queue!Next
  BY <1>3, EvaluateCommits DEF Queue!Next
<1>4. CASE UNCHANGED loadVars /\ Work
  BY <1>4 DEF Work, Queue!Next
<1>5. CASE UNCHANGED vars
  BY <1>5 DEF vars, Queue!vars, Evaluated
<1> QED
  BY <1>1, <1>2, <1>3, <1>4, <1>5 DEF CommissioningNext

-----------------------------------------------------------------------------
(* No job and no verdict at the start *)
LEMMA QueueInit == CommissioningInit => Queue!Init
<1> SUFFICES ASSUME CommissioningInit
             PROVE  Queue!Init
  OBVIOUS
<1>1. \A r \in Runs : run[r] = NoRun
  BY DEF CommissioningInit, Init
<1>2. NoRun.status \notin {"passed", "failed"}
  BY DEF NoRun
<1>3. \A r \in Runs : Evaluated(r) = FALSE
  BY <1>1, <1>2 DEF Evaluated
<1>4. [r \in Runs |-> Evaluated(r)] = [r \in Runs |-> FALSE]
  BY <1>3
<1> QED
  BY <1>4 DEF CommissioningInit, Queue!Init

LEMMA PartsInit == CommissioningInit => Parts
<1> SUFFICES ASSUME CommissioningInit
             PROVE  Parts
  OBVIOUS
<1>1. IInv
  BY InductiveInit DEF CommissioningInit
<1>2. QueueProofs!IInv
  BY QueueInit, SameQueue, QueueProofs!InductiveInit, CommissioningAssumption
<1> QED
  BY <1>1, <1>2 DEF Parts

LEMMA PartsStep == ASSUME Parts, [CommissioningNext]_vars PROVE Parts'
<1>1. IInv'
  BY StepOfLoadTest, InductiveStep DEF Parts
<1>2. [QueueProofs!Next]_(QueueProofs!vars)
  BY StepOfQueue, SameQueue DEF Queue!vars, QueueProofs!vars
<1>3. QueueProofs!IInv'
  BY <1>2, QueueProofs!InductiveStep, CommissioningAssumption DEF Parts
<1> QED
  BY <1>1, <1>3 DEF Parts

(* The jobs go on matching the runs: one step of either part, seen with    *)
(* both invariants.                                                        *)
LEMMA JobsMatchStep ==
  ASSUME Parts, Parts', JobsMatchRuns, [CommissioningNext]_vars
  PROVE  JobsMatchRuns'
<1> DEFINE Queued(r) == run[r].status = "evaluating" \/ Evaluated(r)
<1>1. \A r \in Runs : job'[r].status # "absent" <=> Queued(r)'
  <2> SUFFICES ASSUME NEW r \in Runs
               PROVE  job'[r].status # "absent" <=> Queued(r)'
    OBVIOUS
  <2>1. job[r].status # "absent" <=> Queued(r)
    BY DEF JobsMatchRuns
  <2>2. ASSUME NEW u \in Users, NEW q \in Runs, EnqueueEvaluation(u, q)
        PROVE  job'[r].status # "absent" <=> Queued(r)'
    <3>1. QueueProofs!Enqueue(q)
      BY <2>2 DEF EnqueueEvaluation, Queue!Enqueue, QueueProofs!Enqueue,
         Queue!NoJob, QueueProofs!NoJob
    <3>2. /\ job'[q].status = "pending"
          /\ \A k \in Runs \ {q} : job'[k] = job[k]
      BY <3>1, QueueProofs!EnqueuedRow, CommissioningAssumption
      DEF Parts, QueueProofs!IInv
    <3>3. /\ run'[q].status = "evaluating"
          /\ \A k \in Runs \ {q} : run'[k] = run[k]
      BY <2>2, MovedRun DEF EnqueueEvaluation, QueueLoadEvaluation, Parts, IInv
    <3> QED
      BY <2>1, <3>2, <3>3 DEF Evaluated
  <2>3. ASSUME NEW w \in Runners, Evaluate(w)
        PROVE  job'[r].status # "absent" <=> Queued(r)'
    <3>1. /\ runner[w].job \in Runs /\ job' = job
          /\ run[runner[w].job].status = "evaluating"
          /\ \E to \in {"passed", "failed"} : MoveRun(runner[w].job, to)
      BY <2>3, HandlingARun DEF Evaluate, EvaluateLoadRun, Parts
    <3>2. /\ run'[runner[w].job].status \in {"passed", "failed"}
          /\ \A k \in Runs \ {runner[w].job} : run'[k] = run[k]
      BY <3>1, MovedRun DEF Parts, IInv
    <3> QED
      BY <2>1, <3>1, <3>2 DEF Evaluated
  <2>4. CASE Commission /\ UNCHANGED queueVars
    <3>1. run[r].status = "evaluating" <=> run'[r].status = "evaluating"
      <4>1. ASSUME NEW h \in Handlers, NEW q \in Runs, StartLoadRun(h, q)
            PROVE  run[r].status = "evaluating" <=> run'[r].status = "evaluating"
        <5> DEFINE row == [status |-> "running", version |-> 2,
                           plan |-> starting[h]]
        <5>1. /\ run' = [run EXCEPT ![q] = row] /\ run[q].status = "absent"
              /\ row.status = "running"
          BY <4>1 DEF StartLoadRun
        <5> HIDE DEF row
        <5> QED
          BY <5>1 DEF Parts, IInv, TypeOK
      <4> QED
        BY <2>4, <4>1 DEF Commission, CreateLoadPlan, ApproveLoadPlan,
           ReadPlan, AbandonStart, AppendReading
    <3>2. Evaluated(r)' <=> Evaluated(r)
      <4>1. [q \in Runs |-> Evaluated(q)]'[r] = [q \in Runs |-> Evaluated(q)][r]
        BY <2>4, NoVerdict
      <4> QED
        BY <4>1 DEF Evaluated
    <3> QED
      BY <2>1, <2>4, <3>1, <3>2 DEF queueVars
  <2>5. CASE UNCHANGED loadVars /\ Work
    <3>1. \/ \E w \in Runners, q \in Runs : QueueProofs!Claim(w, q)
          \/ \E w \in Runners : \/ QueueProofs!Complete(w)
                               \/ QueueProofs!Retry(w)
                               \/ QueueProofs!ReleaseLeases(w)
          \/ UNCHANGED job
      BY <2>5, SameStatements
      DEF Work, Queue!Start, Queue!HandlerFails, Queue!StatementFails,
          Queue!Stop, Queue!Crash, Queue!Tick, Queue!TickOverrun,
          Queue!TimePasses
    <3>2. job'[r].status = "absent" <=> job[r].status = "absent"
      BY <3>1, QueueProofs!JobsStay, CommissioningAssumption DEF Parts
    <3> QED
      BY <2>1, <2>5, <3>2 DEF loadVars, Evaluated
  <2>6. CASE UNCHANGED vars
    BY <2>1, <2>6 DEF vars, Evaluated
  <2> QED
    BY <2>2, <2>3, <2>4, <2>5, <2>6 DEF CommissioningNext
<1>2. ASSUME NEW r \in Runs, run'[r].status = "evaluating"
      PROVE  \/ job'[r].status \in {"pending", "leased"}
             \/ job'[r].status = "failed" /\ job'[r].attempts >= MaxAttempts
  <2>1. ~Evaluated(r)'
    BY <1>2 DEF Evaluated
  <2>2. job'[r].status # "completed"
    BY <2>1 DEF Parts, QueueProofs!IInv, QueueProofs!CompletedMeansEvaluated
  <2>3. job'[r].status # "absent"
    BY <1>1, <1>2
  <2>4. job'[r] \in QueueProofs!JobRow
    BY <2>3 DEF Parts, QueueProofs!IInv, QueueProofs!TypeOK, QueueProofs!NoJob
  <2>5. job'[r].status \in {"pending", "leased", "failed"}
    BY <2>2, <2>4 DEF QueueProofs!JobRow, QueueProofs!JobStatuses
  <2>6. job'[r].status = "failed" => job'[r].attempts >= MaxAttempts
    BY DEF Parts, QueueProofs!IInv, QueueProofs!FailedMeansExhausted
  <2> QED
    BY <2>5, <2>6
<1> QED
  BY <1>1, <1>2 DEF JobsMatchRuns

-----------------------------------------------------------------------------
(* The invariants of both parts hold of the composition. *)
LEMMA AlwaysParts == CommissioningSpec => []Parts
<1>1. CommissioningInit => Parts
  BY PartsInit
<1>2. Parts /\ [CommissioningNext]_vars => Parts'
  BY PartsStep
<1> QED
  BY <1>1, <1>2, PTL DEF CommissioningSpec

(* With workers, crashes and retries beside it, load commissioning behaves *)
(* as LoadTest says: an evaluation in the background is one of its steps.  *)
THEOREM CommissioningIsLoadTest == CommissioningSpec => Spec
<1>1. CommissioningInit => Init
  BY DEF CommissioningInit
<1>2. Parts /\ [CommissioningNext]_vars => [Next]_loadVars
  BY StepOfLoadTest
<1> QED
  BY <1>1, <1>2, AlwaysParts, PTL DEF CommissioningSpec, Spec

(* The types, approvals and verdicts of LoadTest under background          *)
(* evaluation: a job delivered twice or late gives no second and no wrong  *)
(* verdict.                                                                *)
THEOREM CommissioningIsSafe ==
  CommissioningSpec => [](TypeOK /\ RunsFollowApproval /\ VerdictIsJustified)
BY CommissioningIsLoadTest, LoadTypes, VerdictsAreRight, PTL

(* A run keeps to its lifecycle whoever evaluates it. *)
THEOREM CommissionedRunsAreVersioned == CommissioningSpec => RunLifecycle
BY CommissioningIsLoadTest, RunsAreVersioned, PTL

(* QueueLoadEvaluation and the handler keep the contract of the queue: the *)
(* job is inserted with the move of its run, the verdict is recorded once  *)
(* and by a runner within its timeout.                                     *)
THEOREM CommissioningImplementsQueue == CommissioningSpec => ImplementsQueue
<1>1. CommissioningInit => Queue!Init
  BY QueueInit
<1>2. Parts /\ [CommissioningNext]_vars => [Queue!Next]_(Queue!vars)
  BY StepOfQueue
<1> QED
  BY <1>1, <1>2, AlwaysParts, PTL
  DEF CommissioningSpec, ImplementsQueue, Queue!Spec

(* A run has a job once it was queued; while it waits for its verdict the  *)
(* job is still to be run, or was given up after all its attempts.         *)
THEOREM JobsFollowRuns == CommissioningSpec => []JobsMatchRuns
<1>1. CommissioningInit => JobsMatchRuns
  BY DEF CommissioningInit, Init, NoRun, JobsMatchRuns, Evaluated, Queue!NoJob
<1>2. Parts /\ Parts' /\ JobsMatchRuns /\ [CommissioningNext]_vars
        => JobsMatchRuns'
  BY JobsMatchStep
<1> QED
  BY <1>1, <1>2, AlwaysParts, PTL DEF CommissioningSpec

(* What the queue promises, of the real runs: a completed job has an       *)
(* evaluated run, a failed one used up its attempts.                       *)
THEOREM QueuePromisesHold ==
  CommissioningSpec => [](/\ Queue!CompletedMeansEvaluated
                          /\ Queue!FailedMeansExhausted)
<1>1. Parts => /\ Queue!CompletedMeansEvaluated
               /\ Queue!FailedMeansExhausted
  BY DEF Parts, QueueProofs!IInv, Queue!CompletedMeansEvaluated,
     QueueProofs!CompletedMeansEvaluated, Queue!FailedMeansExhausted,
     QueueProofs!FailedMeansExhausted
<1> QED
  BY <1>1, AlwaysParts, PTL
=============================================================================
