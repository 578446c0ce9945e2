------------------------------- MODULE Server -------------------------------
(***************************************************************************)
(* Server processes on one database: run of cmd/server/main.go, which      *)
(* opens and migrates the database (sqlite.Open), inserts the first users  *)
(* (Bootstrap), serves requests until a signal, drains them (Shutdown) and *)
(* closes the store.  The requests are those of Sessions.  Processes may   *)
(* start together, overlap when one replaces the other, and die anywhere;  *)
(* users and sessions are in the database and survive them.                *)
(*                                                                         *)
(* The worker that runs beside the listener is the business of JobQueue.   *)
(* The migration is a transaction with a deferred BEGIN: on an empty       *)
(* database its first statement, CREATE TABLE, takes the write lock.       *)
(***************************************************************************)
EXTENDS Sessions

CONSTANTS
  Processes,        \* places a server process runs in
  Host,             \* Handlers -> the process a handler belongs to
  Password,         \* Processes -> BRIDGEWATCH_BOOTSTRAP_PASSWORD
  BootstrapUsers    \* the users Bootstrap inserts

ASSUME ServerAssumption ==
  /\ Processes # {}
  /\ Host \in [Handlers -> Processes]
  /\ Password \in [Processes -> Secrets]
  /\ BootstrapUsers \subseteq Users

VARIABLES
  phase,       \* Processes -> where run is
  migrations   \* how often schema v1 was applied

vars == <<now, user, session, request, phase, migrations>>

Phases == {"down", "migrating", "creating", "bootstrapping", "serving",
           "signalled", "draining", "closing"}

ServerInit ==
  /\ now = 0
  /\ user = [u \in Users |-> None]
  /\ session = [s \in Sessions |-> None]
  /\ request = [h \in Handlers |-> None]
  /\ phase = [p \in Processes |-> "down"]
  /\ migrations = 0

(* The store is open and handlers run. *)
Up(p) == phase[p] \in {"serving", "signalled", "draining", "closing"}

(* Requests are accepted: Shutdown closes the listener before it waits. *)
Listening(p) == phase[p] \in {"serving", "signalled"}

InFlight(p) == {h \in Handlers : Host[h] = p /\ request[h] # None}

(* The process ends, and with it the requests it was serving. *)
End(p) ==
  /\ phase' = [phase EXCEPT ![p] = "down"]
  /\ request' = [h \in Handlers |-> IF Host[h] = p THEN None ELSE request[h]]
  /\ UNCHANGED <<now, user, session, migrations>>

Enter(p, from, to) ==
  /\ phase[p] = from
  /\ phase' = [phase EXCEPT ![p] = to]

-----------------------------------------------------------------------------
(* run, up to BEGIN of the migration *)
Start(p) ==
  /\ Enter(p, "down", "migrating")
  /\ UNCHANGED <<sessionVars, migrations>>

(* The tables are there: nothing to apply, the old rows are consistent. *)
FindSchema(p) ==
  /\ migrations > 0
  /\ Enter(p, "migrating", "bootstrapping")
  /\ UNCHANGED <<sessionVars, migrations>>

(* CREATE TABLE schema_migrations takes the only write lock. *)
LockSchema(p) ==
  /\ migrations = 0
  /\ \A q \in Processes : phase[q] # "creating"
  /\ Enter(p, "migrating", "creating")
  /\ UNCHANGED <<sessionVars, migrations>>

(* Every table and the record of the version, in one commit *)
CommitSchema(p) ==
  /\ Enter(p, "creating", "bootstrapping")
  /\ migrations' = migrations + 1
  /\ UNCHANGED sessionVars

(* What a process inserts for a bootstrap user *)
FirstRow(p) == [secret |-> Password[p], disabled |-> FALSE]

(* Mutated form: ON CONFLICT DO UPDATE *)
BootstrapOver(p) ==
  /\ Enter(p, "bootstrapping", "serving")
  /\ user' = [u \in Users |-> IF u \in BootstrapUsers THEN FirstRow(p)
                              ELSE user[u]]
  /\ UNCHANGED <<now, session, request, migrations>>

(* Mutated form: the users are inserted one by one, with no transaction. *)
BootstrapEach(p) ==
  LET missing == {u \in BootstrapUsers : user[u] = None}
  IN \/ /\ missing = {}
        /\ Enter(p, "bootstrapping", "serving")
        /\ UNCHANGED <<sessionVars, migrations>>
     \/ /\ phase[p] = "bootstrapping"
        /\ \E u \in missing : user' = [user EXCEPT ![u] = FirstRow(p)]
        /\ UNCHANGED <<now, session, request, phase, migrations>>

(* Bootstrap, one transaction: users that exist are left alone.  Then the  *)
(* worker and the listener start.                                          *)
Bootstrap(p) ==
  /\ Enter(p, "bootstrapping", "serving")
  /\ user' = [u \in Users |-> IF u \in BootstrapUsers /\ user[u] = None
                              THEN FirstRow(p) ELSE user[u]]
  /\ UNCHANGED <<now, session, request, migrations>>

(* SIGINT or SIGTERM: the root context is cancelled. *)
Signal(p) ==
  /\ Enter(p, "serving", "signalled")
  /\ UNCHANGED <<sessionVars, migrations>>

(* main calls Shutdown, which closes the listener. *)
Shutdown(p) ==
  /\ Enter(p, "signalled", "draining")
  /\ UNCHANGED <<sessionVars, migrations>>

(* Mutated form: Shutdown's context has no deadline. *)
ShutdownNeverTimesOut(p) == FALSE

(* Shutdown's deadline passes with requests in flight: an error. *)
ShutdownTimesOut(p) ==
  /\ InFlight(p) # {}
  /\ Enter(p, "draining", "closing")
  /\ UNCHANGED <<sessionVars, migrations>>

(* Shutdown finds no connection busy and returns nil. *)
Drain(p) ==
  /\ InFlight(p) = {}
  /\ Enter(p, "draining", "closing")
  /\ UNCHANGED <<sessionVars, migrations>>

(* The listener fails: main returns its error without a Shutdown.  Once a  *)
(* signal has come too, select takes either branch.                        *)
ListenerFails(p) ==
  /\ Listening(p)
  /\ Enter(p, phase[p], "closing")
  /\ UNCHANGED <<sessionVars, migrations>>

(* The deferred Close, under whatever handlers are left, and the exit *)
Close(p) ==
  /\ phase[p] = "closing"
  /\ End(p)

(* main on its way out *)
Stop(p) == Shutdown(p) \/ ShutdownTimesOut(p) \/ Drain(p) \/ Close(p)

(* The process dies, or run gives up before it serves: a busy database, an *)
(* early signal.  A transaction that is open is rolled back.               *)
Crash(p) ==
  /\ phase[p] # "down"
  /\ End(p)

-----------------------------------------------------------------------------
(* A step of a request, in the process that accepted it *)
Serve(h) ==
  /\ Up(Host[h])
  /\ \/ \E s \in Sessions : CreateSession(h, s)
     \/ FindSession(h)
     \/ Admit(h)
     \/ Logout(h)
     \/ Operate(h)
     \/ Refuse(h)

Accept(h) ==
  /\ Listening(Host[h])
  /\ \/ \E email \in Emails, secret \in Secrets, u \in Users :
          FindLoginUser(h, email, secret, u)
     \/ \E s \in Sessions : Arrive(h, s)

Next ==
  \/ \E h \in Handlers : Accept(h) /\ UNCHANGED <<phase, migrations>>
  \/ \E h \in Handlers : Serve(h) /\ UNCHANGED <<phase, migrations>>
  \/ \E u \in Users : Disable(u) /\ UNCHANGED <<phase, migrations>>
  \/ Tick /\ UNCHANGED <<phase, migrations>>
  \/ \E p \in Processes : Start(p)
  \/ \E p \in Processes : FindSchema(p)
  \/ \E p \in Processes : LockSchema(p)
  \/ \E p \in Processes : CommitSchema(p)
  \/ \E p \in Processes : Bootstrap(p)
  \/ \E p \in Processes : Signal(p)
  \/ \E p \in Processes : ListenerFails(p)
  \/ \E p \in Processes : Stop(p)
  \/ \E p \in Processes : Crash(p)

Spec == ServerInit /\ [][Next]_vars

(* main goes on after a signal, and Shutdown polls and has a deadline.  No *)
(* request is assumed to be answered.                                      *)
Fairness == \A p \in Processes : WF_vars(Stop(p))

FairSpec == Spec /\ Fairness

-----------------------------------------------------------------------------
(* Type correctness of the processes, on top of that of Sessions *)
TypeOK ==
  /\ SessionsTypeOK
  /\ phase \in [Processes -> Phases]
  /\ migrations \in Nat

(* However many processes start at once or die on the way: whoever serves  *)
(* has a schema that was applied once, and the users of one bootstrap, all *)
(* with the password of the process that ran it.                           *)
InstallationIsWhole ==
  /\ migrations <= 1
  /\ \A p \in Processes : Up(p) => migrations = 1
                                   /\ \A u \in BootstrapUsers : user[u] # None
  /\ \E p \in Processes : \A u \in BootstrapUsers :
       user[u] # None => user[u].secret = Password[p]

(* A restart changes no account: with another bootstrap password in the    *)
(* environment the old one stays, and a disabled user stays disabled.      *)
AccountsSurvive ==
  [][\A u \in Users : user[u] # None =>
       /\ user'[u] # None
       /\ user'[u].secret = user[u].secret
       /\ user[u].disabled => user'[u].disabled]_vars

(* A signal ends the process, even if a handler hangs. *)
SignalEnds ==
  \A p \in Processes : phase[p] = "signalled" ~> phase[p] = "down"
=============================================================================
