------------------------- MODULE LoadCommissioning -------------------------
(***************************************************************************)
(* Load commissioning with its background evaluation: the operations of    *)
(* LoadTest and the job queue, joined where the code joins them.           *)
(* QueueLoadEvaluation moves the run and inserts its job in one            *)
(* transaction; the handler evaluate_load_run of a worker commits the      *)
(* verdict in a transaction of its own, apart from the statements that     *)
(* claim, complete and retry the job.  A run is queued at most once, so    *)
(* the job of run r is named r.                                            *)
(***************************************************************************)
EXTENDS LoadTest

CONSTANTS
  Runners, MaxAttempts, Lease, Interval, MaxBackoff,   \* as in JobQueue
  Times, TextLeq(_, _), Settle, MaxFaults

(* What JobQueue asks of its constants, of the jobs that are runs *)
ASSUME CommissioningAssumption ==
  /\ None \notin Runs \cup Runners
  /\ MaxAttempts \in Nat \ {0}
  /\ {Lease, Interval, MaxBackoff, Settle, MaxFaults} \subseteq Nat
  /\ 0 \in Times /\ Times \subseteq Nat
  /\ \A t \in Times : ~TextLeq(t + Lease, t)

VARIABLES now, job, runner, faults    \* as in JobQueue

queueVars == <<now, job, runner, faults>>
vars == <<plan, run, readings, starting, now, job, runner, faults>>

Evaluated(r) == run[r].status \in {"passed", "failed"}

Queue == INSTANCE JobQueue WITH
  Jobs <- Runs, verdict <- [r \in Runs |-> Evaluated(r)]

CommissioningInit ==
  /\ Init
  /\ now = 0
  /\ job = [r \in Runs |-> Queue!NoJob]
  /\ runner = [w \in Runners |-> Queue!NewRunner]
  /\ faults = 0

-----------------------------------------------------------------------------
(* Mutated form: the job is inserted after the commit, and may be lost. *)
EnqueueEvaluationLater(u, r) ==
  /\ QueueLoadEvaluation(u, r)
  /\ Queue!Enqueue(r) \/ UNCHANGED queueVars

(* QueueLoadEvaluation, with its insert into jobs. *)
EnqueueEvaluation(u, r) ==
  /\ QueueLoadEvaluation(u, r)
  /\ Queue!Enqueue(r)

(* The handler's transaction commits and the handler returns nil. *)
Evaluate(w) ==
  /\ runner[w].pc = "handling"
  /\ now <= runner[w].deadline
  /\ EvaluateLoadRun(runner[w].job)
  /\ runner' = [runner EXCEPT ![w].pc = "succeeded"]
  /\ UNCHANGED <<now, job, faults>>

(* What runners, the clock and faults do apart from evaluating. *)
Work ==
  \/ \E w \in Runners : Queue!Start(w)
  \/ \E w \in Runners, r \in Runs : Queue!Claim(w, r)
  \/ \E w \in Runners : Queue!HandlerFails(w)
  \/ \E w \in Runners : Queue!Complete(w)
  \/ \E w \in Runners : Queue!Retry(w)
  \/ \E w \in Runners : Queue!StatementFails(w)
  \/ \E w \in Runners : Queue!Stop(w)
  \/ \E w \in Runners : Queue!ReleaseLeases(w)
  \/ \E w \in Runners : Queue!Crash(w)
  \/ Queue!Tick
  \/ Queue!TickOverrun

CommissioningNext ==
  \/ Commission /\ UNCHANGED queueVars
  \/ \E u \in Users, r \in Runs : EnqueueEvaluation(u, r)
  \/ \E w \in Runners : Evaluate(w)
  \/ UNCHANGED loadVars /\ Work

CommissioningSpec == CommissioningInit /\ [][CommissioningNext]_vars

(* As in JobQueue: live runners keep going and time passes.  Users owe     *)
(* nothing.                                                                *)
Fairness ==
  /\ \A w \in Runners :
       /\ WF_vars(UNCHANGED loadVars /\ Queue!Start(w))
       /\ WF_vars(UNCHANGED loadVars /\ \E r \in Runs : Queue!Claim(w, r))
       /\ WF_vars(Evaluate(w) \/ (UNCHANGED loadVars /\ Queue!HandlerFails(w)))
       /\ WF_vars(UNCHANGED loadVars /\ (Queue!Complete(w) \/ Queue!Retry(w)))
       /\ WF_vars(UNCHANGED loadVars /\ Queue!ReleaseLeases(w))
  /\ WF_vars(UNCHANGED loadVars /\ Queue!Tick)

FairCommissioning == CommissioningSpec /\ Fairness

-----------------------------------------------------------------------------
(* A run has a job exactly from the commit that queued its evaluation on,  *)
(* and while it waits for its verdict the job still is to be run: pending, *)
(* leased, or given up after all its attempts - never reported completed,  *)
(* nor given up with attempts left.                                        *)
JobsMatchRuns ==
  \A r \in Runs :
    /\ job[r].status # "absent" <=> run[r].status = "evaluating" \/ Evaluated(r)
    /\ run[r].status = "evaluating" =>
         \/ job[r].status \in {"pending", "leased"}
         \/ job[r].status = "failed" /\ job[r].attempts >= MaxAttempts

(* The handler's part of the queue's contract is kept: a verdict is        *)
(* recorded once, by a runner within its timeout, and a second delivery of *)
(* the job is answered with an error.                                      *)
ImplementsQueue == Queue!Spec

(* A queued run gets its verdict, unless its job used up its attempts.     *)
EvaluationSettles ==
  \A r \in Runs : run[r].status = "evaluating"
                  ~> Evaluated(r) \/ job[r].status = "failed"

(* "enqueue durable evaluation" (README.md:29): a queued run gets its      *)
(* verdict.                                                                *)
EvaluationIsDurable ==
  \A r \in Runs : run[r].status = "evaluating" ~> Evaluated(r)
=============================================================================
