# BridgeWatch commissioning: TLA+ models and proofs

BridgeWatch is a Go service for the last months of a bridge project: closing
out work packages, load commissioning, and the handover dossier on which the
opening rests. All state lives in one SQLite database (WAL mode, up to eight
connections); HTTP handlers run concurrently, and every server process runs a
worker that evaluates load runs in the background.

The modules here model the operations that change that state, TLC checks them
on small instances, and TLAPS proves their safety for every value of the
constants. Line numbers of the sources are in `PROJECT.json` under `map`.

- [1 The system](#1-the-system): components, state, interaction, hazards
- [2 The modules](#2-the-modules) and how they correspond to the code
- [3 The runs](#3-the-runs): questions, bounds, fairness, what they show
- [4 Disagreements found](#4-disagreements-found)
- [5 The proofs](#5-the-proofs)
- [6 What is left out](#6-what-is-left-out)
- [7 Plan](#7-plan)

## 1 The system

| Component | State | Operations | What makes it correct |
|---|---|---|---|
| Closeout (`service/closeout.go`, `domain/work.go`, `domain/inspection.go`, `storage/sqlite/closeout.go`) | `work_packages`, `inspections`, `findings`, their audit events | create and transition a package; schedule and complete an inspection; resolve a finding | accepted work was inspected and passed; a passed inspection has no open finding; the audit trail explains every status; the references that are checked stay within one organization |
| Load commissioning (`service/loadtest.go`, `domain/loadtest.go`, `storage/sqlite/loadtest.go`) | plans with channels, runs, readings | create and approve a plan; start a run; append a reading; queue the evaluation; evaluate | a verdict is right on all readings the run will ever have, is given once and is final; runs follow an approval |
| Job queue and worker (`worker/*.go`, `domain/job.go`, job statements of `storage/sqlite/operations.go`) | `jobs`; each runner's job in hand | enqueue, claim, complete, retry, release leases | exclusive leases; no verdict reported that was not recorded; no job lost; attempts bounded |
| Handover and readiness (`service/dossier.go`, `service/readiness.go`, `domain/dossier.go`, `storage/sqlite/dossier.go`) | one dossier for each project and its documents | create, receive a document, submit, decide; ask for readiness | documents lock at submission; an approval is right when given; "ready" is earned |
| Projects and request idempotency (`service/project.go`, `service/base.go`, `storage/sqlite/project.go`, idempotency statements of `operations.go`) | `projects`, `idempotency_keys`, audit events | create a project under an optional `Idempotency-Key` | a repeated request creates one project and gets one answer |
| Transactions (`storage/sqlite/transaction.go`, `db.go`) | snapshots and the write lock of SQLite | begin, commit, roll back | an operation happens as a whole or not at all, on the newest state |
| Stored timestamps (`storage/sqlite/helpers.go`) | texts | format, compare | the texts compare like the times, but for less than a second |
| Sessions (`service/auth.go`, `middleware/auth.go`, `storage/sqlite/auth.go`, `domain/identity.go`) | `users`, `sessions` | login, authenticate, logout | an ended session opens nothing and stays ended |
| Server process, migration and bootstrap (`cmd/server/main.go`, `storage/sqlite/migrations.go`, `bootstrap.go`) | the phase of each process, the schema, the first users | start, migrate, bootstrap, serve, drain, close | the installation is whole however many processes start; restarts change no account; a signal ends the process |
| Listing (`ListProjects` of `service/project.go` and `storage/sqlite/project.go`, `repository/types.go`) | none; reads `projects` | one page | a client that walks the pages misses nothing |
| HTTP API, middleware, configuration, identifiers | none of their own | decode, route, wire up | |

How they interact:

- HTTP handlers call one operation of the service each. Most operations run in
  `store.WithinTx`; `ScheduleInspection` and `StartLoadRun` read and insert in
  separate statements without a transaction.
- `QueueLoadEvaluation` moves a run and inserts its job in one transaction.
  The worker claims the job, and its handler commits the verdict in a
  transaction of its own; completing or retrying the job is a third statement.
- The evidence for a dossier and for readiness is read over the tables of
  closeout and load commissioning, which go on changing during a review.
- Audit events are written in the transaction of the change they record. Only
  creating a project, creating a package and moving it write one.
- Every operation but health checks and login is behind `RequireAuth`. The
  principal it hands on is a copy: the operation does not look at the session
  again.
- Several server processes may run on one database, when one replaces another
  or both are started by mistake; users and sessions are shared through it.

What is hard here, each with its line and the properties aimed at it in
`PROJECT.json` under `hazards`: checks and inserts that are not one
transaction; a worker that dies, stops or overruns its lease between two of
its statements; a job delivered again after its verdict was recorded;
decisions taken on copies of rows (`RetryJob`) or on evidence gathered earlier
(dossiers); inspections that finish after the work was accepted; lost answers
and repeated requests; snapshots outdated before the first write; timestamps
compared as texts; a job that always fails and the run that waits for it;
logouts, expiries and disabled accounts between the lookup of a session and
its use; processes that start together, restart with other settings or are
stopped under a hanging handler; pages cut from a list that grows.

## 2 The modules

```
VersionedRows <- Closeout <- Handover ----------.
      ^                                         v
  LoadTest <- LoadCommissioning -> JobQueue -> Timestamps <- Listing

ProjectRegistry <- Projects                    Sessions <- Server
```

`A <- B` reads "B extends or instantiates A". The proofs are in modules of
their own, one for each component, and compose as the components do:

```
CloseoutProofs         extends Closeout
TimestampsProofs       extends Timestamps
HandoverProofs         extends Handover, CloseoutProofs, TimestampsProofs
ListingProofs          extends Listing, TimestampsProofs
JobQueueProofs         extends JobQueue
LoadCommissioningProofs  extends LoadCommissioning, instantiates JobQueueProofs
ProjectsProofs         extends Projects
ServerProofs           extends Server
```

`MC*` modules hold the values of the constants for TLC. A definition whose
comment begins with "Mutated form" is a plausible bug next to the definition
it alters: for every property of a passing run there is one that breaks it, so
that each property is known to say something about the code.

**Conventions.** A table is a function from identifiers to rows; an identifier
without a row has the row `NoWork`, `NoRun` and so on. `idgen.New` is the
choice of an identifier that has no row. Roles, organizations, required
versions and the states of rows are guards, as in the code; a refused
operation changes nothing and is no step. Texts, measurements and names are
abstracted to what the guards tell apart: a reading is in or out of the limits
of its channel, a resolution is blank or not.

**VersionedRows** (abstract). What every table with a life cycle promises: a
row is inserted once, moves only along the allowed edges, and its version
grows with each move. Work packages, inspections and findings (`Lifecycles`),
runs (`RunLifecycle`) and dossiers (`DossierLifecycle`) are shown to implement
it. Findings may be born resolved and inspections move by two versions because
the code does so.

**Closeout.** One action for each operation of `service/closeout.go`, with the
transition rules of the domain package, the SQL predicates and the audit event
in it. `ScheduleInspection` is `CheckSchedule`, then `InsertInspection` or
`AbandonSchedule`, with `sched[h]` for the request in flight, because nothing
ties its statements together. `CompleteInspection` starts the inspection,
inserts the findings the client sent (with the resolution fields the client
sent), counts the open ones and completes it. The owner of a package is any
user the client names (`Owners` are those it may name): the code checks neither
organization nor role of that user, and `CheckedReferencesAreLocal` leaves the
owner out. Bound: `MaxWorkVersion`, in the
guard of `TransitionWork`, cuts the rework loop.

**JobQueue.** One action for each SQL statement of a runner (`Claim`,
`Complete`, `Retry`, `ReleaseLeases`) and for the outcomes of the handler
(`HandlerCommits`, `HandlerFails`); a runner is one life of a server process,
since the owner id is fresh at each start. `Stop` is the cancelled context,
`Crash` the end of the process, `StatementFails` an error of `CompleteJob`,
`RetryJob` or `ReleaseLeases`, `TickOverrun` a tick that ends the
lease of a runner still at work on its job. These four are counted in `faults` and
bounded by `MaxFaults`. `TextLeq` is the comparison of stored timestamps: the
order of the clock, or the text order of `Timestamps`. `Settle` is how many
ticks later the texts of two instants surely compare like the instants;
`Horizon` stops the clock when nothing waits for it, which keeps the state
space finite without changing any answer.

**Timestamps.** `timestamp()` formats with `RFC3339Nano`, which drops trailing
zeros, and SQLite compares bytes. An instant is a number of ticks, `Text` the
sequence of characters that matters to the comparison.

**LoadTest.** One action for each operation of `service/loadtest.go`;
`StartLoadRun` is split like `ScheduleInspection`. `EvaluateLoadRun` computes
the verdict from the readings and the mandatory channels.

**LoadCommissioning.** LoadTest and JobQueue joined where the code joins them:
`EnqueueEvaluation` is the run and the job in one transaction, `Evaluate` the
handler's transaction. `ImplementsQueue` shows that the pair implements
`JobQueue`, with "the run has a verdict" for JobQueue's abstract `verdict`.

**Handover.** Extends Closeout, all of whose actions go on beside it, with the
dossier operations and the readiness query; of load commissioning it keeps
only whether the project has a passed run, which `RunLifecycle` shows to be
permanent. `Instants` are the times at which readiness is asked for. Due times
are compared with them as the query does, by the texts of `Timestamps`: a
package due on a whole second does not block for the rest of that second, and
`ReadyIsEarned` makes that exception, and only it.

**ProjectRegistry** (abstract) and **Projects.** The registry creates a project
in one step and gives each key one project for ever. `Projects` is the code:
requests in flight go through the statements of their transaction. `Receive` is
the request up to the deferred `BEGIN`; `MissKey` and `Replay` the two outcomes
of the lookup that opens the snapshot; `Insert` the first write, which takes
the only write lock and is refused on an outdated snapshot; `Commit`;
`Deliver` the answer reaching the client; `Fail` any error, cancellation or
crash, with rollback before the commit and a lost answer after it;
`CommitElsewhere` another transaction's commit, bounded by `MaxCommits`. The
body of a request is its project's name. SQLite's snapshot isolation and its
single writer are external: they are modelled from how the code relies on them.

That `Projects` implements its one-step registry is also the reason for taking
`WithinTx` as one action in the other modules: a transaction that writes
commits on the snapshot it read or not at all.

**Sessions.** A request is a record with a `pc`, because nothing here has a
transaction: a login is `FindLoginUser` (lookup and password on the copy of the
user), then `CreateSession`; any other request is `Arrive`, `FindSession` (one
`SELECT`), `Admit` (the rest of `Authenticate`, which reads the clock after
the row), then `Logout` or `Operate`, which stands for every other operation.
`Refuse` is any error at any step. `ended` records whether the session had
already ended when the request arrived; only the properties look at it. A
token is identified with its session (it is drawn at random and found by its
hash) and a password hash with its password. `Disable` is external: the
service reads `disabled_at` and never sets it.

**Server.** Extends Sessions with the processes that serve the requests:
`Start`, `FindSchema` or `LockSchema` and `CommitSchema`, `Bootstrap`, then
`Signal`, `Shutdown`, `Drain` or `ShutdownTimesOut`, and `Close`;
`ListenerFails` is the branch of `run` that returns without a `Shutdown`, and
`Crash` the end of the process anywhere, a start that gives up (busy database,
newer schema, early signal) included. `Host` says which process a handler
belongs to; requests die with their process, users and sessions do not.
`Password` is what each process finds in its environment. The listener accepts
until `Shutdown`, as `http.Server` does, which is external.

**Listing.** One client walks the list of its organization, from offset 0,
behind what it received, until a page is empty. `CountProjects` and
`ListPage` are the two statements of `listProjects`; `Pages` is what `ORDER
BY`, `LIMIT` and `OFFSET` allow; `Create` puts a project at any place of the
list, since clients choose `target_open_at` and `created_at` is taken before
the transaction that inserts the row. Rows are sorted by the texts of
`Timestamps`, rows of equal text by identifier. `Usual` and `Most` are the 25
and 100 of `Page.Normalize`. The answer echoes the limit as it was sent, not as it was normalised: the client
modelled here counts what it receives; one that advances by the echoed limit
would skip rows for a limit above 100, and one that stops at the total may
miss what was inserted meanwhile. The sources promise neither.

## 3 The runs

States are distinct states; all runs together take some seven minutes on two
cores, none more than two.

| Run | Instance | States | Question |
|---|---|---|---|
| `closeout` | 1 package, 2 inspections, 2 findings, 2 scheduling handlers, 4 users of 2 organizations with a project each, an owner of either, versions to 7 | 42,697 | evidence, clean passes, audit trail, checked references, life cycles |
| `jobs` | 2 jobs, 2 runners, 2 attempts, 1 fault, fair | 107,252 | leases, verdicts, attempts, and every job ends |
| `commissioning` | 1 plan with up to 2 channels, 1 run, 2 runners, 2 attempts, 1 fault, fair | 131,820 | approvals, verdicts, readings; run and job agree; implements JobQueue; evaluation settles |
| `handover` | 2 packages of both risks, 2 inspections, 1 finding, 2 documents, 2 uris, due on a whole second | 131,790 | dossiers, approvals, readiness |
| `projects` | 2 organizations, 1 key, 2 bodies, 2 requests in flight, 3 identifiers, 2 commits before unrelated ones stop | 404,139 | whole creations, equal answers, implements ProjectRegistry |
| `listing` | 3 projects, 2 organizations, limits 0, 1 and 3 with pages of 1 or 2, 4 times in 2 seconds | 103,894 | nothing skipped, totals reached, earlier projects first |
| `server` | 2 processes with different passwords, a handler in each, 2 users, 1 session that expires, fair | 175,522 | sessions, installation, restarts, shutdown |
| `closeout_race`, `closeout_preresolved`, `jobs_attempts`, `jobs_text`, `commissioning_durable` | one property each | | violated: see section 4 |

**Properties worth reading first.** `AcceptedWorkWasInspected` (evidence stays
true although inspections go on after acceptance), `PassedInspectionIsClean`,
`AuditExplainsStatus` (the trail is a gapless account of the row),
`InspectionsFollowSubmission` (the half of the unprotected check in
`ScheduleInspection` that survives the race), `LeaseIsExclusive`,
`CopyIsCurrent` (why `RetryJob` may trust an old copy),
`ExtraAttemptsAreFaults`, `JobsEnd`, `VerdictIsJustified`, `JobsMatchRuns`,
`ImplementsQueue`, `ApprovalIsCurrent`, `ReadyIsEarned`,
`AnswersAgree`, `ImplementsRegistry`, `EndedSessionsOpenNothing` (although the
check works on a copy, and a login may insert its session after the account
was disabled), `InstallationIsWhole`, `NothingIsSkipped`,
`SeenInOrder`.

**Why the bounds are enough.** A package at version 7 has been through one
rework and may be submitted again or accepted; two inspections are one that
passed and one left over; two handlers are one in the window of the other's
race. Two runners and one fault are a lease lost by one and taken over by the
other, with two attempts so that the last one can be the lost one; a second
fault only repeats the take-over (the proofs cover any number). One run is
enough for `commissioning`, since runs share nothing but the queue, and the
queue alone is checked with two jobs. Two packages of different risk are what
readiness tells apart, and the three instants are those at which a due time on
a whole second is not past, is past but not in the text order, and is past in
both. In `projects` a key is used up, replayed, misused with
another body, expired, and used by the other organization, and two requests
race in every step of their transactions; unkeyed creations fill the three
identifiers. In `commissioning` two channels let one mandatory channel be read
and the other not; readings, the queueing and the evaluation race there. In
`server` two handlers in two processes are two requests of one session, or one
in the process that is going and one in the process that comes; a second
session shares nothing with the first but its user. Clock and lifetime are
such that a session expires while a request holds its copy. In `listing` three
projects are one behind the page, one on it and one inserted before it; the
texts only misorder within a second, and the four times are a whole second, two
of its fractions and an instant of the next second.

**Symmetry.** `handover` permutes packages, inspections, documents and uris;
`projects` permutes handlers, identifiers and names; `listing` permutes
organizations (its identifiers are numbers, because they are compared). No constant function
distinguishes them, and only safety (invariants, step properties and safety
refinements) is checked in those runs. Runs with fairness use no symmetry.

**Deadlock.** The runs set `CHECK_DEADLOCK FALSE` where the finite sets of
identifiers and the clock's bound let a model come to rest: all packages
accepted, all jobs ended, no identifier left, the walk finished.

**Fairness.** `JobQueue!Fairness` and its copy in LoadCommissioning: weak
fairness of each runner's start, claim, handler, statement and release, and of
the clock. `Run` loops on a ticker and polls for ever, the handler's context
has a deadline, SQL statements return (`busy_timeout`), and `main` starts the
worker with the server. No fairness is assumed of enqueueing, of faults, nor of
any client; a crashed runner is not restarted by fairness. At most `MaxFaults`
faults happen, and the instance has more runners than faults: the claim is
that a job ends if some process goes on, not that one does. `JobsEnd` is
"pending leads to completed or failed", and `EvaluationSettles` the same for the
run behind it. `Server!Fairness` is weak fairness of what `main` does on its
way out (`Stop`): it blocks on nothing but `Shutdown`, which polls and has a
deadline. No request is assumed to be answered, so `SignalEnds` covers a
handler that hangs.

## 4 Disagreements found

Each is a run that must find its one property violated, with the line it
contradicts in `PROJECT.json` under `findings`.

| Run | What the sources say | What happens |
|---|---|---|
| `closeout_race` | "work must be submitted" to schedule an inspection | the package is accepted or sent to rework between the check and the insert, and the inspection is scheduled anyway |
| `closeout_preresolved` | a finding is resolved with a resolution | a finding that arrives with `resolved_at` is stored resolved with no resolution, and the inspection may pass over it |
| `jobs_attempts` | two attempts for `MaxAttempts` 2 | `ClaimJob` takes over an expired lease without comparing attempts, so each crash buys one more attempt |
| `jobs_text` | an active lease is not claimed | at the whole second `...05Z` a lease that ends at `...05.5Z` looks ended, for "." sorts before "Z", and a second runner takes it over |
| `commissioning_durable` | "enqueue durable evaluation" | after the last attempt the job is failed and its run stays `evaluating` for ever |

Other facts are stated in the properties as the code has them.

- *Overdue work and readiness.* The text order of `jobs_text` is also that of
  the readiness query (`storage/sqlite/dossier.go:97`): at `...05.5Z` a low or
  medium package due at `...05Z` does not block, and a project can be reported
  ready with work half a second overdue. `WorkPackage.BlocksOpening`
  (`domain/work.go:72`, tested in `work_test.go:131`) compares times, but no
  operation calls it. The case is reached in the run `handover` (approve a
  dossier, then create such a package, and ask at instant 3): `ReadyIsEarned`
  without its `CutOff` is violated there.
- *Owners.* The README of the repository (line 32) says that all reads and
  writes are scoped to the organization of the caller. The `owner_id` of a new
  package (`service/closeout.go:29`) is stored as the client sent it, and its
  foreign key accepts any user. `CheckedReferencesAreLocal` therefore speaks of
  the references that are looked up with an organization, and the run
  `closeout` creates packages with owners of both.
- *Rejection.* A rejected dossier is the end of its project's only dossier
  (`DossierLifecycle`).
- *Rework.* Work that went through rework may be accepted on the passed
  inspection of an earlier submission (`AcceptedWorkWasInspected` says passed
  at some submission, no more).

## 5 The proofs

TLAPS checks every leaf; the constants are arbitrary, subject to the named
assumptions, which TLC evaluates in every run. Each inductive invariant was
checked by TLC on the instance of its run before it was proved. Every
invariant and step property of a passing run is a theorem, and so is every
refinement; liveness is not.

**CloseoutProofs** — `TypeCorrect`, `CloseoutIsSafe`, `TablesAreVersioned`. The
checked invariants are not inductive one by one. `IInv` joins them with
`VersionFloors` (a status is reached at a least version, so an inspection's
package that was once submitted can never be seen as new), `RequestsAreLocal`
(what `CheckSchedule` established about tenant and role stays true of the
request in flight) and `NoHalfStartedInspection` (`executing` is never
committed). The acceptance evidence survives because a passed inspection never
changes again; cleanliness because findings are only inserted by the
transaction that completes their inspection. `TablesAreVersioned` is `Spec =>
Lifecycles`, table by table; `NoHalfStartedInspection` is what makes every
completion worth exactly two versions. Assumes `ConstantsAssumption`: whose
project and user is whose.

**JobQueueProofs** — `TypeCorrect`, `QueueIsSafe` (`CompletedMeansEvaluated`,
`CopyIsCurrent`, `FailedMeansExhausted`, `ExtraAttemptsAreFaults`),
`LeasesAreExclusive` and `ResultsAreFinal` as step properties. The
strengthening: `HandsAreFull` (a runner past its claim has a job that exists),
`SuccessIsRecorded` (a runner that reports success recorded the verdict) and
`AttemptsLeft` (a job that may be claimed, now or once its lease expires with no
runner working under it, has fewer attempts than the limit plus the faults). Assumes
`QueueAssumption`: of the comparison of timestamps, only that a lease just
taken has not expired. The safety results therefore hold even under the
flawed text order, for any numbers of jobs, runners, attempts and faults.

**LoadCommissioningProofs**, first part — LoadTest alone: `LoadTypes`,
`VerdictsAreRight` (`RunsFollowApproval`, `VerdictIsJustified`) and
`RunsAreVersioned`, the refinement of VersionedRows. The three invariants need
one another: a verdict stays right because an approved plan is never written
again, and because a run that left `running` takes no more readings. `IInv`
adds `RunVersions` (a run is inserted at version 2, after its first
transition), which the refinement counts.

**LoadCommissioningProofs**, second part — the composition.
`CommissioningIsLoadTest` (`CommissioningSpec => Spec`) hands all of the first
part over: `CommissioningIsSafe`, `CommissionedRunsAreVersioned`.
`CommissioningImplementsQueue` is `ImplementsQueue`, with "the run has its
verdict" for the queue's `verdict`; JobQueueProofs is instantiated under that
mapping, so that its invariant holds of the composition and gives
`QueuePromisesHold`. The invariant `Parts` is simply that of both parts, and it
takes both: the handler's step is a step of LoadTest because a runner that
handles has a queued run in hand (the queue's `HandsAreFull`), and a step of
the queue because a run that still evaluates has no verdict (LoadTest's
lifecycle). `JobsFollowRuns` (`JobsMatchRuns`) relates the two tables: that a
run which still evaluates has no completed job is the queue's
`CompletedMeansEvaluated`, that its job is not given up early is
`FailedMeansExhausted`. Assumes `CommissioningAssumption`: the queue's
assumptions, with runs as jobs.

**HandoverProofs** — `DossierTypes`, `ReadinessIsSafe` (`SubmittedIsDocumented`,
`ReadyIsEarned`), `HandoverIsCloseout` (`HandoverSpec => Spec`: closeout goes
on during a review with all its promises), `DocumentsAreLocked`,
`ApprovalsAreCurrent` and `DossiersAreVersioned`. The invariant is CloseoutProofs'
with the types of dossiers and `SubmittedIsDocumented`. `StepOfParts`
classifies every step once (a dossier is kept, created, receives a document, or
moves, the last to review or to approval only if `Ready`), and the theorems
read off it. That a project called ready has only inspected work is not in the
readiness query at all: the query asks for accepted packages, and
`AcceptedWorkWasInspected` does the rest. What is not accepted is of low risk
and, because of how texts compare (`TextsAndTimes`), not overdue or due at the
present time with its last digits cut off, which by `TextsSettle` is less than
a second ago. Assumes `HandoverAssumption` (due dates and clock are numbers)
and `TimestampAssumption`.

**ServerProofs** — `ServerTypes`, `NothingOpensAfterTheEnd`
(`EndedSessionsOpenNothing`), `WholeInstallation` (`InstallationIsWhole`),
`SessionsEnd` (`SessionsEndOnce`), `AccountsOutliveProcesses`
(`AccountsSurvive`). The invariant says of each request, by where it stands,
what is left of the truth it read (`Fits`): one that came with an ended session
meets an ended session until it has its copy of the row, and then a copy that
is inactive at every later time or names a disabled user. It survives the steps
of all others because no step takes anything back (`Kept`: rows stay, a
revoked session and a disabled user stay so, time does not run backwards),
which is also what the two step properties say. `Installation` adds that a
process that creates the schema is alone (the write lock) and that the
bootstrap inserted all its users with the password of one process, or none.
Assumes `SessionsAssumption`, `RequestAssumption` and `ServerAssumption` (there
is a process).

**ProjectsProofs** — `TypeCorrect`, `CreationIsSafe` (`WritersAreSerial`,
`CreationIsWhole`, `AnswersAgree`) and `CreationRefines`, which is the refinement
`Spec => ImplementsRegistry`. `IInv` adds `AnsweredIsStored`: an answer on its
way names a stored project and, if it had a key, the project of that key.
`RequestStep` serves all actions that only move one request; `CommitStep` is
the one place where tables change. Assumes `ProjectsAssumption` and
`RowAssumption` (the absent value is no row).

**TimestampsProofs** — how far the order of the texts is from that of the
times, for every base and number of digits. `TextsCompare`: no text is a prefix
of another (the `Z` is greater than what may follow the seconds), so two texts
differ at a first place and one comes first. `TextsAndTimes`: the later of two
times has the earlier text exactly if the earlier time is the later one with
its last digits cut off (`CutOff`). Take the first place up to which two
instants show different numbers (`Upto`). If the earlier instant shows a digit
there, the greater digit decides and the texts follow the times; if it does
not, its `Z` is compared with a digit and its text comes last, and by
`ZeroTail` it is the later instant cut off before that place. The same place
shows that different instants have different texts. `TextsSettle`: times a
second or more apart compare right. Induction is not available for the
existence of a first place; it comes from `LeastElement`, by the
well-foundedness of the naturals. Assumes `TimestampAssumption`: the two
equations of `Base ^ k`, of which the provers know nothing.

**ListingProofs** — `PagingIsComplete` (`NothingIsSkipped`, `TotalIsReached`)
and `PagingFollowsTime` (`SeenInOrder`), for any number of projects, page size
and interleaving of creations. The invariant `FrontIsSeen`: of the projects
that existed when the walk began, those whose place in the list is within the
number received so far have been seen. A creation can only move a project
back; `PageCovers` shows what a page behind an offset adds, by counting. That
needs `ORDER BY` to be a total order, which the texts are (`TextsCompare`); the
identifier decides between equal ones. No transitivity is needed.
`SeenFromTheFront` adds that whatever is listed before a project that was seen,
and existed when the walk began, was seen too; with `TextsAndTimes` that is
`SeenInOrder`. Assumes `ListingAssumption`: pages hold at least one project.

**Only model-checked:**

- liveness under fairness, which is beyond this prover: `JobsEnd`,
  `EvaluationSettles`, `SignalEnds`;
- the disagreements of section 4, which are counterexamples.

`WritersAreSerial`, `TerminalJobsStay` and what `QueuePromisesHold` says are
proved and not among the properties of a run.

## 6 What is left out

- **Who is calling**: the modules other than Sessions and Server take an
  action's user to be any user with the role the operation asks for; an
  operation does not look at the session again once it was admitted.
- **HTTP decoding, routing, error texts, middleware, configuration,
  identifiers**: they keep no state. The schema's constraints are guards.
- **Single reads** (`Get...`) change nothing.
- **Operations the service never calls** (`UpdateProject`, `Project.Advance`,
  `archived` plans, canceled runs) have no action; nor has the filter of
  `ListProjects` by status, which no operation changes.
- **Two accounts with one address**: emails are unique within an organization
  only and a login takes the first row it finds, but the only users ever
  inserted are those of the bootstrap, of one organization.
- **Cascading deletes**: nothing is ever deleted.
- **Loss of committed data**: SQLite's durability is taken as given.

## 7 Plan

The models are complete along the first plan, and the safety of every
component is proved. What is left:

1. *`Projects` through `WithinTx`*: the argument of `CreationRefines` for an
   arbitrary body of the transaction, which the modules that take a
   transaction as one step rely on.
2. *The order of texts in `JobQueue`*: it compares `available_at` and the
   lease with the clock as texts; with `TextsAndTimes` and `TextsSettle`, by how
   much a job can be claimed too early or too late.
