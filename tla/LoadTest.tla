------------------------------ MODULE LoadTest ------------------------------
(***************************************************************************)
(* Load commissioning: load-test plans with their sensor channels, runs    *)
(* and readings, and the operations of internal/service/loadtest.go.       *)
(*                                                                         *)
(* An operation that runs in store.WithinTx is one action.  StartLoadRun   *)
(* has no transaction: it reads the plan in one step of the handler that   *)
(* serves it and inserts the run in another.  A reading is abstracted to   *)
(* whether its value lies within the limits of its channel; load cases     *)
(* only take part as "at least one", which every plan has.                 *)
(***************************************************************************)
EXTENDS Naturals

CONSTANTS
  Plans, Runs, Channels,        \* identifiers idgen.New may hand out
  Sequences,                    \* sequence numbers clients send
  Projects, Orgs, ProjectOrg,   \* projects, organizations, whose is which
  Users, UserOrg, UserRole,     \* users, their organization and role
  Handlers,                     \* goroutines serving StartLoadRun
  None                          \* the absent reference

ASSUME LoadTestAssumption ==
  /\ ProjectOrg \in [Projects -> Orgs]
  /\ UserOrg \in [Users -> Orgs]
  /\ None \notin Projects \cup Plans

VARIABLES
  plan,      \* Plans -> row of load_test_plans with its sensor_channels
  run,       \* Runs -> row of load_test_runs
  readings,  \* Runs -> rows of sensor_readings
  starting   \* Handlers -> plan a StartLoadRun in flight has read, or None

loadVars == <<plan, run, readings, starting>>

-----------------------------------------------------------------------------
PlanStatuses == {"draft", "approved", "archived"}
RunStatuses == {"pending", "running", "evaluating", "passed", "failed",
                "canceled"}

NoPlan == [status |-> "absent", version |-> 0, project |-> None,
           channels |-> {}, mandatory |-> {}]

PlanRow == [status : PlanStatuses, version : Nat, project : Projects,
            channels : SUBSET Channels, mandatory : SUBSET Channels]

NoRun == [status |-> "absent", version |-> 0, plan |-> None]

RunRow == [status : RunStatuses, version : Nat, plan : Plans]

(* within: SensorReading.Within, the limits being part of the channel. *)
Reading == [channel : Channels, sequence : Sequences, within : BOOLEAN]

Init ==
  /\ plan = [p \in Plans |-> NoPlan]
  /\ run = [r \in Runs |-> NoRun]
  /\ readings = [r \in Runs |-> {}]
  /\ starting = [h \in Handlers |-> None]

(* LoadTestRun.Transition *)
Lifecycle == {<<"pending", "running">>, <<"running", "evaluating">>,
              <<"running", "canceled">>, <<"evaluating", "passed">>,
              <<"evaluating", "failed">>}

(* A user of the role, in the organization of the project. *)
May(u, role, project) ==
  UserRole[u] = role /\ UserOrg[u] = ProjectOrg[project]

ProjectOf(r) == plan[run[r].plan].project

(* UpdateLoadRun of a run after Transition, in a transaction. *)
MoveRun(r, to) ==
  /\ <<run[r].status, to>> \in Lifecycle
  /\ run' = [run EXCEPT ![r].status = to, ![r].version = run[r].version + 1]

-----------------------------------------------------------------------------
(* The plan, its cases and its channels are inserted together; channels    *)
(* get fresh identifiers.                                                  *)
CreateLoadPlan(u, p, project, channels, mandatory) ==
  /\ May(u, "commissioning_officer", project)
  /\ plan[p].status = "absent"
  /\ channels # {}
  /\ \A q \in Plans : plan[q].channels \cap channels = {}
  /\ plan' = [plan EXCEPT ![p] =
       [status |-> "draft", version |-> 1, project |-> project,
        channels |-> channels, mandatory |-> mandatory]]
  /\ UNCHANGED <<run, readings, starting>>

ApproveLoadPlan(u, p, expected) ==
  /\ plan[p].status = "draft"
  /\ May(u, "supervisor", plan[p].project)
  /\ plan[p].version = expected
  /\ plan[p].channels # {}
  /\ plan' = [plan EXCEPT ![p].status = "approved", ![p].version = expected + 1]
  /\ UNCHANGED <<run, readings, starting>>

(* Mutated form: the status of the plan is not looked at. *)
ReadPlanAnyStatus(h, u, p) ==
  /\ starting[h] = None
  /\ plan[p].status # "absent"
  /\ May(u, "commissioning_officer", plan[p].project)
  /\ starting' = [starting EXCEPT ![h] = p]
  /\ UNCHANGED <<plan, run, readings>>

(* StartLoadRun up to its insert. *)
ReadPlan(h, u, p) ==
  /\ starting[h] = None
  /\ plan[p].status = "approved"
  /\ May(u, "commissioning_officer", plan[p].project)
  /\ starting' = [starting EXCEPT ![h] = p]
  /\ UNCHANGED <<plan, run, readings>>

(* Its insert, of a run that is already running. *)
StartLoadRun(h, r) ==
  /\ starting[h] # None
  /\ run[r].status = "absent"
  /\ run' = [run EXCEPT ![r] = [status |-> "running", version |-> 2,
                                plan |-> starting[h]]]
  /\ starting' = [starting EXCEPT ![h] = None]
  /\ UNCHANGED <<plan, readings>>

(* The insert fails or the process dies before it. *)
AbandonStart(h) ==
  /\ starting[h] # None
  /\ starting' = [starting EXCEPT ![h] = None]
  /\ UNCHANGED <<plan, run, readings>>

(* Mutated form: the run is not asked whether it still collects. *)
AppendReadingLate(u, r, reading) ==
  /\ run[r].status # "absent"
  /\ May(u, "commissioning_officer", ProjectOf(r))
  /\ reading.channel \in plan[run[r].plan].channels
  /\ \A x \in readings[r] : \/ x.channel # reading.channel
                            \/ x.sequence # reading.sequence
  /\ readings' = [readings EXCEPT ![r] = @ \cup {reading}]
  /\ UNCHANGED <<plan, run, starting>>

(* Mutated form: sensor_readings without its primary key *)
AppendReadingTwice(u, r, reading) ==
  /\ run[r].status = "running"
  /\ May(u, "commissioning_officer", ProjectOf(r))
  /\ reading.channel \in plan[run[r].plan].channels
  /\ readings' = [readings EXCEPT ![r] = @ \cup {reading}]
  /\ UNCHANGED <<plan, run, starting>>

(* PRIMARY KEY(run_id, channel_id, sequence) *)
AppendReading(u, r, reading) ==
  /\ run[r].status = "running"
  /\ May(u, "commissioning_officer", ProjectOf(r))
  /\ reading.channel \in plan[run[r].plan].channels
  /\ \A x \in readings[r] : \/ x.channel # reading.channel
                            \/ x.sequence # reading.sequence
  /\ readings' = [readings EXCEPT ![r] = @ \cup {reading}]
  /\ UNCHANGED <<plan, run, starting>>

(* QueueLoadEvaluation on the run; the job it inserts in the same          *)
(* transaction is the business of LoadCommissioning.                       *)
QueueLoadEvaluation(u, r) ==
  /\ run[r].status # "absent"
  /\ May(u, "commissioning_officer", ProjectOf(r))
  /\ MoveRun(r, "evaluating")
  /\ UNCHANGED <<plan, readings, starting>>

OutOfRange(r) == {x \in readings[r] : ~x.within}

Missing(r) == {c \in plan[run[r].plan].mandatory :
                 \A x \in readings[r] : x.channel # c}

(* EvaluateRun *)
Passes(r) == OutOfRange(r) = {} /\ Missing(r) = {}

(* Mutated form: a run with a verdict is evaluated again. *)
EvaluateLoadRunAgain(r) ==
  /\ run[r].status \in {"evaluating", "passed", "failed"}
  /\ run' = [run EXCEPT ![r].status = IF Passes(r) THEN "passed" ELSE "failed",
                        ![r].version = run[r].version + 1]
  /\ UNCHANGED <<plan, readings, starting>>

EvaluateLoadRun(r) ==
  /\ run[r].status = "evaluating"
  /\ MoveRun(r, IF Passes(r) THEN "passed" ELSE "failed")
  /\ UNCHANGED <<plan, readings, starting>>

-----------------------------------------------------------------------------
(* Every operation except the evaluation and its queueing. *)
Commission ==
  \/ \E u \in Users, p \in Plans, project \in Projects :
       \E channels \in SUBSET Channels : \E mandatory \in SUBSET channels :
         CreateLoadPlan(u, p, project, channels, mandatory)
  \/ \E u \in Users, p \in Plans, expected \in 1..2 :
       ApproveLoadPlan(u, p, expected)
  \/ \E h \in Handlers, u \in Users, p \in Plans : ReadPlan(h, u, p)
  \/ \E h \in Handlers, r \in Runs : StartLoadRun(h, r)
  \/ \E h \in Handlers : AbandonStart(h)
  \/ \E u \in Users, r \in Runs, reading \in Reading :
       AppendReading(u, r, reading)

Next ==
  \/ Commission
  \/ \E u \in Users, r \in Runs : QueueLoadEvaluation(u, r)
  \/ \E r \in Runs : EvaluateLoadRun(r)

Spec == Init /\ [][Next]_loadVars

-----------------------------------------------------------------------------
(* Type correctness of plans, runs and readings; a channel is of one plan, *)
(* and a run has one value for each sequence number of a channel of its    *)
(* plan.                                                                   *)
TypeOK ==
  /\ plan \in [Plans -> PlanRow \cup {NoPlan}]
  /\ \A p \in Plans :
       /\ plan[p].mandatory \subseteq plan[p].channels
       /\ \A q \in Plans \ {p} : plan[p].channels \cap plan[q].channels = {}
  /\ run \in [Runs -> RunRow \cup {NoRun}]
  /\ readings \in [Runs -> SUBSET Reading]
  /\ \A r \in Runs : \A x, y \in readings[r] :
       /\ run[r].status # "absent"
       /\ x.channel \in plan[run[r].plan].channels
       /\ x.channel = y.channel /\ x.sequence = y.sequence => x = y
  /\ starting \in [Handlers -> Plans \cup {None}]

(* A run, and a request about to insert one, has an approved plan behind   *)
(* it, although reading the plan and inserting the run are two steps.      *)
RunsFollowApproval ==
  /\ \A r \in Runs : run[r].status # "absent" =>
       plan[run[r].plan].status = "approved"
  /\ \A h \in Handlers : starting[h] # None =>
       plan[starting[h]].status = "approved"

(* The verdict of a run is right on all the readings the table will ever   *)
(* hold for it: a passed run has every mandatory channel read and nothing  *)
(* out of range, a failed run has a fault to show.                         *)
VerdictIsJustified ==
  \A r \in Runs : run[r].status \in {"passed", "failed"} =>
    (run[r].status = "passed" <=>
       /\ \A x \in readings[r] : x.within
       /\ plan[run[r].plan].mandatory \subseteq {x.channel : x \in readings[r]})

-----------------------------------------------------------------------------
(* load_test_runs as versioned rows. *)

(* A run is inserted after its first transition. *)
RunStates == INSTANCE VersionedRows WITH
  Rows <- Runs, Absent <- "absent", Births <- {"running"},
  Moves <- {[from |-> "running", to |-> "evaluating", bump |-> 1],
            [from |-> "evaluating", to |-> "passed", bump |-> 1],
            [from |-> "evaluating", to |-> "failed", bump |-> 1]},
  status <- [r \in Runs |-> run[r].status],
  version <- [r \in Runs |-> IF run[r].version = 0 THEN 0
                             ELSE run[r].version - 1]

(* A run gets one verdict, once, and keeps it. *)
RunLifecycle == RunStates!Spec
=============================================================================
