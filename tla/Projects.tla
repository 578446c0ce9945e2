------------------------------ MODULE Projects ------------------------------
(***************************************************************************)
(* Creating projects under idempotency keys: CreateProject of              *)
(* internal/service/project.go with replay and remember of base.go, in the *)
(* transactions that store.WithinTx opens on SQLite in WAL mode.           *)
(*                                                                         *)
(* BEGIN is deferred: a transaction gets its snapshot with its first       *)
(* statement and the only write lock with its first write, which is        *)
(* refused (SQLITE_BUSY) unless the snapshot is still the newest state.    *)
(* The body of a request is abstracted to the name of the project; its     *)
(* hash is taken to identify it.  Status and version of a project are left *)
(* out: no operation of the service changes them.                          *)
(***************************************************************************)
EXTENDS Naturals

CONSTANTS
  Handlers,                     \* goroutines serving POST /v1/projects
  Users, UserOrg, UserRole, Orgs,
  Keys, NoKey, Names,           \* Idempotency-Key headers, bodies
  Ids,                          \* identifiers idgen.New may hand out
  Lifetime,                     \* 24 hours
  Times,                        \* instants of the clock
  MaxCommits,                   \* bound on commits for unrelated commits
  None                          \* the absent value

ASSUME ProjectsAssumption ==
  /\ UserOrg \in [Users -> Orgs]
  /\ None \notin Orgs \cup Names \cup Ids
  /\ NoKey \notin Keys
  /\ Lifetime \in Nat /\ MaxCommits \in Nat
  /\ 0 \in Times /\ Times \subseteq Nat

VARIABLES
  now,       \* the clock
  project,   \* Ids -> row of projects
  key,       \* Orgs \X Keys -> row of idempotency_keys, or None
  events,    \* Ids -> number of audit events "project created"
  commits,   \* committed writing transactions, which number the snapshots
  request,   \* Handlers -> the request in flight, or None
  answers    \* the successful answers that clients received

vars == <<now, project, key, events, commits, request, answers>>

-----------------------------------------------------------------------------
NoProject == [org |-> None, name |-> None]

ProjectRow == [org : Orgs, name : Names]

KeyRow == [name : Names, response : Ids, expires : Nat]

(* pc: "begun" before the first statement, "reading" with a snapshot,      *)
(* "writing" with the write lock, "answered" after the commit; at: the     *)
(* time taken before the transaction began; id: the new project's, or the  *)
(* remembered one.                                                         *)
Request == [pc : {"begun", "reading", "writing", "answered"}, user : Users,
            key : Keys \cup {NoKey}, name : Names, id : Ids, at : Times,
            snapshot : Nat]

ASSUME RowAssumption == None \notin KeyRow /\ None \notin Request

Answer == [org : Orgs, key : Keys \cup {NoKey}, name : Names, id : Ids]

Init ==
  /\ now = 0
  /\ project = [id \in Ids |-> NoProject]
  /\ key = [slot \in Orgs \X Keys |-> None]
  /\ events = [id \in Ids |-> 0]
  /\ commits = 0
  /\ request = [h \in Handlers |-> None]
  /\ answers = {}

InFlight(h) == request[h] # None

At(h, pc) == InFlight(h) /\ request[h].pc = pc

Org(h) == UserOrg[request[h].user]

Slot(h) == <<Org(h), request[h].key>>

(* Mutated form: the hash of the request is not compared. *)
ReplayableByKey(h) ==
  /\ key[Slot(h)] # None
  /\ request[h].at <= key[Slot(h)].expires

(* replay: the key was used, has not expired, and for the same body *)
Replayable(h) ==
  /\ key[Slot(h)] # None
  /\ request[h].at <= key[Slot(h)].expires
  /\ key[Slot(h)].name = request[h].name

(* The row of the project and the UNIQUE and PRIMARY KEY constraints its   *)
(* insert, and that of the key, must satisfy.                              *)
NewProject(h) == [org |-> Org(h), name |-> request[h].name]

Insertable(h) ==
  /\ \A id \in Ids : project[id] # NewProject(h)
  /\ request[h].key # NoKey => key[Slot(h)] = None

-----------------------------------------------------------------------------
(* Mutated form: identifiers repeat. *)
ReceiveAnyId(h, u, k, name, id) ==
  /\ request[h] = None
  /\ UserRole[u] = "owner_admin"
  /\ request' = [request EXCEPT ![h] =
       [pc |-> "begun", user |-> u, key |-> k, name |-> name, id |-> id,
        at |-> now, snapshot |-> 0]]
  /\ UNCHANGED <<now, project, key, events, commits, answers>>

(* CreateProject up to the deferred BEGIN; the identifier is fresh. *)
Receive(h, u, k, name, id) ==
  /\ request[h] = None
  /\ UserRole[u] = "owner_admin"
  /\ project[id] = NoProject
  /\ \A g \in Handlers : InFlight(g) => request[g].id # id
  /\ request' = [request EXCEPT ![h] =
       [pc |-> "begun", user |-> u, key |-> k, name |-> name, id |-> id,
        at |-> now, snapshot |-> 0]]
  /\ UNCHANGED <<now, project, key, events, commits, answers>>

(* GetIdempotency finds no row, and the transaction has its snapshot. *)
MissKey(h) ==
  /\ At(h, "begun")
  /\ request[h].key # NoKey
  /\ key[Slot(h)] = None
  /\ request' = [request EXCEPT ![h].pc = "reading", ![h].snapshot = commits]
  /\ UNCHANGED <<now, project, key, events, commits, answers>>

(* It finds the row of an earlier request: the remembered project is the   *)
(* answer, and the transaction commits without a write.                    *)
Replay(h) ==
  /\ At(h, "begun")
  /\ request[h].key # NoKey
  /\ Replayable(h)
  /\ request' = [request EXCEPT ![h].pc = "answered",
                                ![h].id = key[Slot(h)].response]
  /\ UNCHANGED <<now, project, key, events, commits, answers>>

(* Mutated form: two projects of one name are not refused. *)
InsertSameName(h) ==
  /\ \/ At(h, "begun") /\ request[h].key = NoKey
     \/ At(h, "reading") /\ request[h].snapshot = commits
  /\ \A g \in Handlers : ~At(g, "writing")
  /\ request[h].key # NoKey => key[Slot(h)] = None
  /\ request' = [request EXCEPT ![h].pc = "writing", ![h].snapshot = commits]
  /\ UNCHANGED <<now, project, key, events, commits, answers>>

(* The inserts of the project, its event and its key, the first of which   *)
(* takes the write lock; nobody sees them before the commit.               *)
Insert(h) ==
  /\ \/ At(h, "begun") /\ request[h].key = NoKey
     \/ At(h, "reading") /\ request[h].snapshot = commits
  /\ \A g \in Handlers : ~At(g, "writing")
  /\ Insertable(h)
  /\ request' = [request EXCEPT ![h].pc = "writing", ![h].snapshot = commits]
  /\ UNCHANGED <<now, project, key, events, commits, answers>>

(* COMMIT: the project, its event and the remembered answer together *)
Commit(h) ==
  LET r == request[h]
  IN /\ At(h, "writing")
     /\ project' = [project EXCEPT ![r.id] = NewProject(h)]
     /\ events' = [events EXCEPT ![r.id] = @ + 1]
     /\ key' = IF r.key = NoKey THEN key
               ELSE [key EXCEPT ![Slot(h)] =
                 [name |-> r.name, response |-> r.id,
                  expires |-> r.at + Lifetime]]
     /\ commits' = commits + 1
     /\ request' = [request EXCEPT ![h].pc = "answered"]
     /\ UNCHANGED <<now, answers>>

(* The client receives the answer. *)
Deliver(h) ==
  /\ At(h, "answered")
  /\ answers' = answers \cup
       {[org |-> Org(h), key |-> request[h].key, name |-> request[h].name,
         id |-> request[h].id]}
  /\ request' = [request EXCEPT ![h] = None]
  /\ UNCHANGED <<now, project, key, events, commits>>

(* Mutated form: what was inserted before the failure is kept. *)
FailHalfway(h) ==
  /\ InFlight(h)
  /\ request' = [request EXCEPT ![h] = None]
  /\ project' = IF At(h, "writing")
                THEN [project EXCEPT ![request[h].id] = NewProject(h)]
                ELSE project
  /\ UNCHANGED <<now, key, events, commits, answers>>

(* Any error before the commit rolls back: an expired or misused key, a    *)
(* violated constraint, a busy or outdated snapshot, a cancelled request,  *)
(* the death of the process.  After the commit only the answer is lost.    *)
Fail(h) ==
  /\ InFlight(h)
  /\ request' = [request EXCEPT ![h] = None]
  /\ UNCHANGED <<now, project, key, events, commits, answers>>

(* A transaction of another operation commits. *)
CommitElsewhere ==
  /\ commits < MaxCommits
  /\ \A g \in Handlers : ~At(g, "writing")
  /\ commits' = commits + 1
  /\ UNCHANGED <<now, project, key, events, request, answers>>

Tick ==
  /\ now + 1 \in Times
  /\ now' = now + 1
  /\ UNCHANGED <<project, key, events, commits, request, answers>>

Next ==
  \/ \E h \in Handlers, u \in Users, k \in Keys \cup {NoKey}, name \in Names,
        id \in Ids : Receive(h, u, k, name, id)
  \/ \E h \in Handlers : MissKey(h)
  \/ \E h \in Handlers : Replay(h)
  \/ \E h \in Handlers : Insert(h)
  \/ \E h \in Handlers : Commit(h)
  \/ \E h \in Handlers : Deliver(h)
  \/ \E h \in Handlers : Fail(h)
  \/ CommitElsewhere
  \/ Tick

Spec == Init /\ [][Next]_vars

-----------------------------------------------------------------------------
(* Type correctness; the identifier of a request in flight is its own and  *)
(* not in use until it is answered.                                        *)
TypeOK ==
  /\ now \in Times /\ commits \in Nat
  /\ project \in [Ids -> ProjectRow \cup {NoProject}]
  /\ key \in [Orgs \X Keys -> KeyRow \cup {None}]
  /\ events \in [Ids -> Nat]
  /\ request \in [Handlers -> Request \cup {None}]
  /\ answers \subseteq Answer
  /\ \A h \in Handlers : InFlight(h) /\ ~At(h, "answered") =>
       /\ project[request[h].id] = NoProject
       /\ \A g \in Handlers \ {h} : InFlight(g) => request[g].id # request[h].id

(* At most one transaction writes, on the newest state: what it read       *)
(* before it got the lock is still so.                                     *)
WritersAreSerial ==
  \A h \in Handlers : At(h, "writing") =>
    /\ request[h].snapshot = commits
    /\ \A g \in Handlers : At(g, "writing") => g = h
    /\ Insertable(h)

(* A creation is whole or has not happened: a project has its one audit    *)
(* event, and a key remembers a project of its organization and its body.  *)
CreationIsWhole ==
  /\ \A id \in Ids : events[id] = IF project[id] = NoProject THEN 0 ELSE 1
  /\ \A org \in Orgs, k \in Keys : key[<<org, k>>] # None =>
       project[key[<<org, k>>].response] =
         [org |-> org, name |-> key[<<org, k>>].name]

(* Whatever was lost, repeated or raced: every client that was told of     *)
(* success was told of a project of its organization as it asked for, and  *)
(* all of them that used one key of the same one.                          *)
AnswersAgree ==
  \A a \in answers :
    /\ project[a.id] = [org |-> a.org, name |-> a.name]
    /\ a.key # NoKey => key[<<a.org, a.key>>] # None
                        /\ key[<<a.org, a.key>>].response = a.id

(* The project that each key stands for *)
created == [slot \in Orgs \X Keys |->
              IF key[slot] = None THEN None ELSE key[slot].response]

Registry == INSTANCE ProjectRegistry

(* The transactions implement creation in one step, so WithinTx may be     *)
(* taken as atomic.                                                        *)
ImplementsRegistry == Registry!Spec
=============================================================================
