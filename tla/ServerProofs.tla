---------------------------- MODULE ServerProofs ----------------------------
(***************************************************************************)
(* Proofs about Server and the Sessions it serves: type correctness, that  *)
(* an ended session opens nothing, that an installation is whole, and the  *)
(* two action properties, for any number of processes, handlers, users,    *)
(* sessions and instants.                                                  *)
(*                                                                         *)
(* The argument has two halves.  First, no step undoes a fact a request    *)
(* in flight may rely on (Kept): rows stay, a disabled user and a revoked  *)
(* session stay so, time does not run backwards.  Second, each request     *)
(* carries enough of what was true when it looked (Fits) for the guard of  *)
(* Admit to be right, however old its copy of the row is.                  *)
(***************************************************************************)
EXTENDS Server, TLAPS

(* The part of SessionsTypeOK that is about the database *)
Tables ==
  /\ now \in Times
  /\ user \in [Users -> UserRow \cup {None}]
  /\ session \in [Sessions -> SessionRow \cup {None}]
  /\ \A s \in Sessions : session[s] # None => user[session[s].user] # None

(* What a request in flight stands for.  One that came with an ended       *)
(* session meets an ended session until it has its copy of the row, and    *)
(* then a copy that is not active or names a disabled user.                *)
Fits(r) ==
  \/ r = None
  \/ r \in LoginRequest /\ user[r.user] # None
  \/ /\ r \in TokenRequest /\ session[r.session] # None
     /\ r.ended => Ended(r.session)
  \/ /\ r \in FoundRequest /\ session[r.session] # None
     /\ r.ended => ~Active(r.row, now) \/ r.disabled
  \/ r \in AdmittedRequest /\ session[r.session] # None /\ ~r.ended

(* The schema is created under the one write lock, and the bootstrap       *)
(* inserts all its users or none.                                          *)
Installation ==
  /\ migrations \in {0, 1}
  /\ \A p \in Processes :
       /\ phase[p] = "creating" =>
            migrations = 0 /\ \A q \in Processes : phase[q] = "creating" => q = p
       /\ phase[p] = "bootstrapping" => migrations = 1
       /\ Up(p) => migrations = 1 /\ \A u \in BootstrapUsers : user[u] # None
  /\ \/ \A u \in BootstrapUsers : user[u] = None
     \/ \E p \in Processes : \A u \in BootstrapUsers :
          user[u] # None /\ user[u].secret = Password[p]

IInv ==
  /\ Tables
  /\ request \in [Handlers -> Request \cup {None}]
  /\ \A h \in Handlers : Fits(request[h])
  /\ phase \in [Processes -> Phases]
  /\ Installation

-----------------------------------------------------------------------------
(* What no step takes back *)
AccountsKept ==
  \A u \in Users : user[u] # None =>
    /\ user'[u] # None
    /\ user'[u].secret = user[u].secret
    /\ user[u].disabled => user'[u].disabled

SessionsKept ==
  \A s \in Sessions : session[s] # None =>
    /\ session'[s] # None
    /\ session[s].revoked # None => session'[s] = session[s]
    /\ session'[s].user = session[s].user
    /\ session'[s].expires = session[s].expires

Kept == AccountsKept /\ SessionsKept /\ now' >= now

-----------------------------------------------------------------------------
(* The types of the rows a session and its user have *)
LEMMA RowsOfASession ==
  ASSUME Tables, NEW s \in Sessions, session[s] # None
  PROVE  /\ session[s] \in SessionRow
         /\ session[s].user \in Users
         /\ user[session[s].user] \in UserRow
         /\ user[session[s].user] # None
<1>1. session[s] \in SessionRow
  BY DEF Tables
<1>2. session[s].user \in Users /\ user[session[s].user] # None
  BY <1>1 DEF Tables, SessionRow
<1> QED
  BY <1>1, <1>2 DEF Tables

(* What a request in flight is, by where it stands *)
LEMMA RequestKinds ==
  ASSUME NEW h \in Handlers, Fits(request[h])
  PROVE  /\ At(h, "verified") => /\ request[h] \in LoginRequest
                                 /\ user[request[h].user] # None
         /\ At(h, "arrived") =>
              /\ request[h] \in TokenRequest
              /\ session[request[h].session] # None
              /\ request[h].ended => Ended(request[h].session)
         /\ At(h, "found") =>
              /\ request[h] \in FoundRequest
              /\ session[request[h].session] # None
              /\ request[h].ended =>
                   ~Active(request[h].row, now) \/ request[h].disabled
         /\ At(h, "admitted") =>
              /\ request[h] \in AdmittedRequest
              /\ session[request[h].session] # None
              /\ ~request[h].ended
BY DEF Fits, At, LoginRequest, TokenRequest, FoundRequest, AdmittedRequest

(* The new session of a login: its row is of the right type. *)
LEMMA NewSession ==
  ASSUME Tables, NEW u \in Users
  PROVE  LET row == [user |-> u, expires |-> now + TTL, revoked |-> None]
         IN row \in SessionRow /\ row # None
<1>1. now + TTL \in Nat
  BY SessionsAssumption DEF Tables
<1>2. [user |-> u, expires |-> now + TTL, revoked |-> None] \in SessionRow
  BY <1>1 DEF SessionRow
<1> QED
  BY <1>2, RequestAssumption

(* A row of sessions that is logged out *)
LEMMA RevokedRow ==
  ASSUME NEW row \in SessionRow, NEW t \in Times
  PROVE  /\ [row EXCEPT !.revoked = t] \in SessionRow
         /\ [row EXCEPT !.revoked = t] # None
         /\ [row EXCEPT !.revoked = t].revoked # None
         /\ [row EXCEPT !.revoked = t].user = row.user
         /\ [row EXCEPT !.revoked = t].expires = row.expires
<1>1. [row EXCEPT !.revoked = t] \in SessionRow
  BY DEF SessionRow
<1>2. t # None
  BY SessionsAssumption
<1> QED
  BY <1>1, <1>2, RequestAssumption DEF SessionRow

(* A row of users that is disabled *)
LEMMA DisabledRow ==
  ASSUME NEW row \in UserRow
  PROVE  /\ [row EXCEPT !.disabled = TRUE] \in UserRow
         /\ [row EXCEPT !.disabled = TRUE] # None
         /\ [row EXCEPT !.disabled = TRUE].disabled
         /\ [row EXCEPT !.disabled = TRUE].secret = row.secret
<1>1. [row EXCEPT !.disabled = TRUE] \in UserRow
  BY DEF UserRow
<1> QED
  BY <1>1, RequestAssumption DEF UserRow

-----------------------------------------------------------------------------
(* A step that writes no table keeps them. *)
LEMMA QuietStep ==
  ASSUME Tables, UNCHANGED <<now, user, session>>
  PROVE  Tables' /\ Kept
<1>1. now \in Nat
  BY SessionsAssumption DEF Tables
<1> QED
  BY <1>1 DEF Tables, Kept, AccountsKept, SessionsKept

(* CreateSession writes a row under an identifier that had none. *)
LEMMA CreateSessionKeeps ==
  ASSUME IInv, NEW h \in Handlers, NEW s \in Sessions, CreateSession(h, s)
  PROVE  Tables' /\ Kept
<1> DEFINE row == [user |-> request[h].user, expires |-> now + TTL,
                   revoked |-> None]
<1>1. /\ request[h].user \in Users /\ user[request[h].user] # None
  BY RequestKinds DEF IInv, CreateSession, LoginRequest
<1>2. row \in SessionRow /\ row # None /\ row.user = request[h].user
  BY <1>1, NewSession DEF IInv
<1>3. session[s] = None /\ session' = [session EXCEPT ![s] = row]
      /\ UNCHANGED <<now, user>>
  BY DEF CreateSession
<1> HIDE DEF row
<1>4. now \in Nat
  BY SessionsAssumption DEF IInv, Tables
<1>5. Tables'
  BY <1>1, <1>2, <1>3 DEF IInv, Tables
<1> QED
  BY <1>3, <1>4, <1>5 DEF IInv, Tables, Kept, AccountsKept, SessionsKept

(* Logout writes the time of the logout, unless there is one already. *)
LEMMA LogoutKeeps ==
  ASSUME IInv, NEW h \in Handlers, Logout(h)
  PROVE  Tables' /\ Kept
<1> DEFINE s == request[h].session
<1>1. s \in Sessions /\ session[s] # None
  BY RequestKinds DEF IInv, Logout, AdmittedRequest
<1>2. session[s] \in SessionRow
  BY <1>1 DEF IInv, Tables
<1>3. CASE session[s].revoked # None
  BY <1>3, QuietStep DEF IInv, Logout
<1>4. CASE session[s].revoked = None
  <2> DEFINE row == [session[s] EXCEPT !.revoked = now]
  <2>1. now \in Times /\ now \in Nat
    BY SessionsAssumption DEF IInv, Tables
  <2>2. /\ row \in SessionRow /\ row # None
        /\ row.user = session[s].user /\ row.expires = session[s].expires
    BY <1>2, <2>1, RevokedRow
  <2>3. session' = [session EXCEPT ![s] = row] /\ UNCHANGED <<now, user>>
    BY <1>4 DEF Logout
  <2> HIDE DEF row, s
  <2>4. Tables'
    BY <1>1, <2>2, <2>3 DEF IInv, Tables
  <2> QED
    BY <1>1, <1>4, <2>1, <2>2, <2>3, <2>4
    DEF IInv, Tables, Kept, AccountsKept, SessionsKept
<1> QED
  BY <1>3, <1>4

(* Disabling an account changes nothing else of it. *)
LEMMA DisableKeeps ==
  ASSUME IInv, NEW u \in Users, Disable(u)
  PROVE  Tables' /\ Kept
<1> DEFINE row == [user[u] EXCEPT !.disabled = TRUE]
<1>1. user[u] \in UserRow
  BY DEF IInv, Tables, Disable
<1>2. row \in UserRow /\ row # None /\ row.disabled
      /\ row.secret = user[u].secret
  BY <1>1, DisabledRow
<1>3. user' = [user EXCEPT ![u] = row] /\ UNCHANGED <<now, session>>
  BY DEF Disable
<1> HIDE DEF row
<1>4. now \in Nat
  BY SessionsAssumption DEF IInv, Tables
<1>5. Tables'
  <2>1. user' \in [Users -> UserRow \cup {None}]
    BY <1>2, <1>3 DEF IInv, Tables
  <2>2. ASSUME NEW s \in Sessions, session'[s] # None
        PROVE  user'[session'[s].user] # None
    BY <1>2, <1>3, <2>2, RowsOfASession DEF IInv, Tables
  <2> QED
    BY <1>3, <2>1, <2>2 DEF IInv, Tables
<1> QED
  BY <1>2, <1>3, <1>4, <1>5 DEF IInv, Tables, Kept, AccountsKept, SessionsKept

(* Bootstrap inserts the users that are missing. *)
LEMMA BootstrapKeeps ==
  ASSUME IInv, NEW p \in Processes, Bootstrap(p)
  PROVE  Tables' /\ Kept
<1>1. FirstRow(p) \in UserRow /\ FirstRow(p) # None
  <2>1. FirstRow(p) \in UserRow
    BY ServerAssumption DEF FirstRow, UserRow
  <2> QED
    BY <2>1, RequestAssumption
<1>2. /\ user' = [u \in Users |-> IF u \in BootstrapUsers /\ user[u] = None
                                  THEN FirstRow(p) ELSE user[u]]
      /\ UNCHANGED <<now, session>>
  BY DEF Bootstrap
<1>3. user' \in [Users -> UserRow \cup {None}]
  BY <1>1, <1>2 DEF IInv, Tables
<1>4. \A u \in Users : user[u] # None => user'[u] = user[u]
  BY <1>2
<1>5. Tables'
  BY <1>2, <1>3, <1>4, RowsOfASession DEF IInv, Tables
<1>6. now \in Nat
  BY SessionsAssumption DEF IInv, Tables
<1> QED
  BY <1>2, <1>4, <1>5, <1>6 DEF Kept, AccountsKept, SessionsKept

(* Time goes on. *)
LEMMA TickKeeps ==
  ASSUME IInv, Tick
  PROVE  Tables' /\ Kept
<1>1. now \in Nat /\ now' = now + 1
  BY SessionsAssumption DEF IInv, Tables, Tick
<1> QED
  BY <1>1 DEF IInv, Tables, Tick, Kept, AccountsKept, SessionsKept

(* Every step leaves the tables well typed and takes nothing back. *)
LEMMA StepKeeps ==
  ASSUME IInv, [Next]_vars
  PROVE  Tables' /\ Kept
<1>1. CASE \E h \in Handlers, s \in Sessions : CreateSession(h, s)
  BY <1>1, CreateSessionKeeps
<1>2. CASE \E h \in Handlers : Logout(h)
  BY <1>2, LogoutKeeps
<1>3. CASE \E u \in Users : Disable(u)
  BY <1>3, DisableKeeps
<1>4. CASE \E p \in Processes : Bootstrap(p)
  BY <1>4, BootstrapKeeps
<1>5. CASE Tick
  BY <1>5, TickKeeps
<1>6. CASE UNCHANGED <<now, user, session>>
  BY <1>6, QuietStep DEF IInv
<1>7. ASSUME NEW h \in Handlers, Accept(h)
      PROVE  UNCHANGED <<now, user, session>>
  BY <1>7 DEF Accept, FindLoginUser, Arrive
<1>8. ASSUME NEW h \in Handlers, Serve(h)
      PROVE  \/ \E s \in Sessions : CreateSession(h, s)
             \/ Logout(h)
             \/ UNCHANGED <<now, user, session>>
  BY <1>8 DEF Serve, FindSession, Admit, Operate, Refuse
<1>9. ASSUME NEW p \in Processes,
             \/ Start(p) \/ FindSchema(p) \/ LockSchema(p) \/ CommitSchema(p)
             \/ Signal(p) \/ ListenerFails(p) \/ Stop(p) \/ Crash(p)
      PROVE  UNCHANGED <<now, user, session>>
  BY <1>9 DEF Start, FindSchema, LockSchema, CommitSchema, Signal,
     ListenerFails, Stop, Shutdown, ShutdownTimesOut, Drain, Close, Crash,
     End, sessionVars
<1> QED
  BY <1>1, <1>2, <1>3, <1>4, <1>5, <1>6, <1>7, <1>8, <1>9 DEF Next, vars

-----------------------------------------------------------------------------
(* An ended session stays ended. *)
LEMMA EndedStays ==
  ASSUME Tables, Tables', Kept, NEW s \in Sessions, session[s] # None, Ended(s)
  PROVE  Ended(s)'
<1>1. /\ session[s] \in SessionRow /\ session'[s] \in SessionRow
      /\ session'[s] # None /\ session'[s].user = session[s].user
      /\ session'[s].expires = session[s].expires
      /\ session[s].revoked # None => session'[s].revoked # None
  BY DEF Tables, Kept, SessionsKept
<1>2. /\ session[s].user \in Users /\ user[session[s].user] # None
  BY RowsOfASession
<1>3. /\ now \in Nat /\ now' \in Nat /\ now' >= now
      /\ session[s].expires \in Nat
  BY <1>1, SessionsAssumption DEF Tables, SessionRow, Kept
<1>4. CASE session[s].revoked # None
  BY <1>1, <1>4 DEF Ended, Active
<1>5. CASE ~(now < session[s].expires)
  BY <1>1, <1>3, <1>5 DEF Ended, Active
<1>6. CASE user[session[s].user].disabled
  BY <1>1, <1>2, <1>6 DEF Ended, Kept, AccountsKept
<1> QED
  BY <1>4, <1>5, <1>6 DEF Ended, Active

(* What a request stands for it goes on standing for, whatever happens to  *)
(* the tables in the meantime.                                             *)
LEMMA FitsStays ==
  ASSUME Tables, Tables', Kept, NEW r, Fits(r)
  PROVE  Fits(r)'
<1>1. CASE r = None
  BY <1>1 DEF Fits
<1>2. CASE r \in LoginRequest /\ user[r.user] # None
  <2>1. r.user \in Users
    BY <1>2 DEF LoginRequest
  <2>2. user'[r.user] # None
    BY <1>2, <2>1 DEF Kept, AccountsKept
  <2> QED
    BY <1>2, <2>2 DEF Fits
<1>3. CASE r \in TokenRequest /\ session[r.session] # None
           /\ (r.ended => Ended(r.session))
  <2>1. r.session \in Sessions
    BY <1>3 DEF TokenRequest
  <2>2. session'[r.session] # None
    BY <1>3, <2>1 DEF Kept, SessionsKept
  <2>3. r.ended => Ended(r.session)'
    BY <1>3, <2>1, EndedStays
  <2> QED
    BY <1>3, <2>2, <2>3 DEF Fits
<1>4. CASE r \in FoundRequest /\ session[r.session] # None
           /\ (r.ended => ~Active(r.row, now) \/ r.disabled)
  <2>1. r.session \in Sessions /\ r.row.expires \in Nat
    BY <1>4 DEF FoundRequest, SessionRow
  <2>2. session'[r.session] # None
    BY <1>4, <2>1 DEF Kept, SessionsKept
  <2>3. now \in Nat /\ now' \in Nat /\ now' >= now
    BY SessionsAssumption DEF Tables, Kept
  <2>4. ~Active(r.row, now) => ~Active(r.row, now')
    BY <2>1, <2>3 DEF Active
  <2> QED
    BY <1>4, <2>2, <2>4 DEF Fits
<1>5. CASE r \in AdmittedRequest /\ session[r.session] # None /\ ~r.ended
  <2>1. r.session \in Sessions
    BY <1>5 DEF AdmittedRequest
  <2> QED
    BY <1>5, <2>1 DEF Fits, Kept, SessionsKept
<1> QED
  BY <1>1, <1>2, <1>3, <1>4, <1>5 DEF Fits

(* A handler that gives its request a new state, and no other *)
LEMMA NewRequestFits ==
  ASSUME IInv, Tables', Kept, NEW h \in Handlers,
         NEW r \in Request \cup {None}, Fits(r),
         request' = [request EXCEPT ![h] = r]
  PROVE  /\ request' \in [Handlers -> Request \cup {None}]
         /\ \A g \in Handlers : Fits(request[g])'
<1>1. ASSUME NEW g \in Handlers
      PROVE  Fits(request[g])'
  <2>1. PICK x : x = request'[g]
    OBVIOUS
  <2>2. Fits(x)
    BY <2>1 DEF IInv
  <2>3. Fits(x)'
    BY <2>2, FitsStays DEF IInv
  <2> QED
    BY <2>1, <2>3 DEF Fits, Ended
<1> QED
  BY <1>1 DEF IInv

(* Answering a request, or losing the process that serves it *)
LEMMA DroppedRequestsFit ==
  ASSUME IInv, Tables', Kept,
         request' \in [Handlers -> Request \cup {None}],
         \A h \in Handlers : request'[h] = request[h] \/ request'[h] = None
  PROVE  \A g \in Handlers : Fits(request[g])'
<1> TAKE g \in Handlers
<1>1. PICK x : x = request'[g]
  OBVIOUS
<1>2. Fits(x)
  BY <1>1 DEF IInv, Fits
<1>3. Fits(x)'
  BY <1>2, FitsStays DEF IInv
<1> QED
  BY <1>1, <1>3 DEF Fits, Ended

(* Every step of a request leaves it with a state that fits. *)
LEMMA RequestsFit ==
  ASSUME IInv, [Next]_vars
  PROVE  /\ request' \in [Handlers -> Request \cup {None}]
         /\ \A h \in Handlers : Fits(request[h])'
<1> DEFINE Goal == /\ request' \in [Handlers -> Request \cup {None}]
                   /\ \A h \in Handlers : Fits(request[h])'
<1>0. Tables /\ Tables' /\ Kept
  BY StepKeeps DEF IInv
<1>1. ASSUME NEW h \in Handlers, NEW email, NEW secret, NEW u \in Users,
             FindLoginUser(h, email, secret, u)
      PROVE  Goal
  <2> DEFINE r == [pc |-> "verified", user |-> u]
  <2>1. r \in LoginRequest /\ user[r.user] # None
    BY <1>1 DEF LoginRequest, FindLoginUser
  <2>2. r \in Request /\ Fits(r)
    BY <2>1 DEF Request, Fits
  <2> QED
    BY <1>0, <1>1, <2>2, NewRequestFits DEF FindLoginUser
<1>2. ASSUME NEW h \in Handlers, NEW s \in Sessions, Arrive(h, s)
      PROVE  Goal
  <2> DEFINE r == [pc |-> "arrived", session |-> s, ended |-> Ended(s)]
  <2>1. Ended(s) \in BOOLEAN
    BY <1>0, <1>2, RowsOfASession DEF Ended, Active, Arrive, UserRow
  <2>2. /\ r \in TokenRequest /\ session[r.session] # None
        /\ r.ended => Ended(r.session)
    BY <1>2, <2>1 DEF TokenRequest, Arrive
  <2>3. r \in Request /\ Fits(r)
    BY <2>2 DEF Request, Fits
  <2> QED
    BY <1>0, <1>2, <2>3, NewRequestFits DEF Arrive
<1>3. ASSUME NEW h \in Handlers, FindSession(h)
      PROVE  Goal
  <2> DEFINE q == request[h]
             row == session[q.session]
             r == [pc |-> "found", session |-> q.session, ended |-> q.ended,
                   row |-> row, disabled |-> user[row.user].disabled]
  <2>1. /\ q \in TokenRequest /\ session[q.session] # None
        /\ q.ended => Ended(q.session)
    BY <1>3, RequestKinds DEF IInv, FindSession
  <2>2. q.session \in Sessions /\ q.ended \in BOOLEAN
    BY <2>1 DEF TokenRequest
  <2>3. row \in SessionRow /\ user[row.user].disabled \in BOOLEAN
    BY <1>0, <2>1, <2>2, RowsOfASession DEF UserRow
  <2>4. r \in FoundRequest
    BY <2>2, <2>3 DEF FoundRequest
  <2>5. r.ended => ~Active(r.row, now) \/ r.disabled
    BY <2>1 DEF Ended
  <2>6. r \in Request /\ Fits(r)
    BY <2>1, <2>4, <2>5 DEF Request, Fits
  <2>7. request' = [request EXCEPT ![h] = r]
    BY <1>3 DEF FindSession
  <2> HIDE DEF r
  <2> QED
    BY <1>0, <2>6, <2>7, NewRequestFits
<1>4. ASSUME NEW h \in Handlers, Admit(h)
      PROVE  Goal
  <2> DEFINE q == request[h]
             r == [pc |-> "admitted", session |-> q.session,
                   user |-> q.row.user, ended |-> q.ended]
  <2>1. /\ q \in FoundRequest /\ session[q.session] # None
        /\ q.ended => ~Active(q.row, now) \/ q.disabled
    BY <1>4, RequestKinds DEF IInv, Admit
  <2>2. r \in AdmittedRequest
    BY <2>1 DEF FoundRequest, AdmittedRequest, SessionRow
  <2>3. ~r.ended
    BY <1>4, <2>1 DEF Admit
  <2>4. r \in Request /\ Fits(r)
    BY <2>1, <2>2, <2>3 DEF Request, Fits
  <2>5. request' = [request EXCEPT ![h] = r]
    BY <1>4 DEF Admit
  <2> HIDE DEF r
  <2> QED
    BY <1>0, <2>4, <2>5, NewRequestFits
<1>5. ASSUME NEW h \in Handlers, request' = Done(h)
      PROVE  Goal
  BY <1>0, <1>5, NewRequestFits DEF Done, Fits
<1>6. ASSUME NEW p \in Processes, End(p)
      PROVE  Goal
  <2>1. /\ request' \in [Handlers -> Request \cup {None}]
        /\ \A h \in Handlers : request'[h] = request[h] \/ request'[h] = None
    BY <1>6 DEF End, IInv
  <2> QED
    BY <1>0, <2>1, DroppedRequestsFit
<1>7. ASSUME UNCHANGED request
      PROVE  Goal
  BY <1>0, <1>7, DroppedRequestsFit DEF IInv
<1>8. ASSUME NEW h \in Handlers, Accept(h)
      PROVE  Goal
  BY <1>1, <1>2, <1>8 DEF Accept
<1>9. ASSUME NEW h \in Handlers, Serve(h)
      PROVE  Goal
  <2>1. FindSession(h) \/ Admit(h) \/ request' = Done(h)
    BY <1>9 DEF Serve, CreateSession, Logout, Operate, Refuse
  <2> QED
    BY <1>3, <1>4, <1>5, <2>1
<1>10. ASSUME NEW p \in Processes,
              \/ Start(p) \/ FindSchema(p) \/ LockSchema(p) \/ CommitSchema(p)
              \/ Bootstrap(p) \/ Signal(p) \/ ListenerFails(p) \/ Stop(p)
              \/ Crash(p)
       PROVE  End(p) \/ UNCHANGED request
  BY <1>10 DEF Start, FindSchema, LockSchema, CommitSchema, Bootstrap, Signal,
     ListenerFails, Stop, Shutdown, ShutdownTimesOut, Drain, Close, Crash,
     sessionVars
<1> HIDE DEF Goal
<1>11. Goal
  BY <1>6, <1>7, <1>8, <1>9, <1>10 DEF Next, vars, Disable, Tick
<1> QED
  BY <1>11 DEF Goal

-----------------------------------------------------------------------------
(* A process moves, the schema and the users stay: the installation is as  *)
(* whole as before if the move respects what the new phase stands for.     *)
LEMMA MoveKeepsInstallation ==
  ASSUME IInv, NEW p \in Processes, NEW to \in Phases,
         phase' = [phase EXCEPT ![p] = to], UNCHANGED <<user, migrations>>,
         to = "creating" => migrations = 0
                            /\ \A q \in Processes : phase[q] # "creating",
         to = "bootstrapping" => migrations = 1,
         to \in {"serving", "signalled", "draining", "closing"} => Up(p)
  PROVE  Installation' /\ phase' \in [Processes -> Phases]
BY DEF IInv, Installation, Up, Phases

(* CommitSchema, by the one process that holds the write lock *)
LEMMA CommitSchemaKeepsInstallation ==
  ASSUME IInv, NEW p \in Processes, CommitSchema(p)
  PROVE  Installation' /\ phase' \in [Processes -> Phases]
<1>1. /\ migrations = 0 /\ migrations' = 1 /\ user' = user
      /\ \A q \in Processes : phase[q] = "creating" => q = p
      /\ phase' = [phase EXCEPT ![p] = "bootstrapping"]
      /\ phase \in [Processes -> Phases]
  BY DEF IInv, Installation, CommitSchema, Enter, sessionVars
<1>2. \A q \in Processes : ~Up(q) /\ ~Up(q)'
  BY <1>1 DEF IInv, Installation, Up
<1> QED
  BY <1>1, <1>2 DEF IInv, Installation, Phases

(* Bootstrap: all users are there already, or all are inserted.            *)
LEMMA BootstrapKeepsInstallation ==
  ASSUME IInv, NEW p \in Processes, Bootstrap(p)
  PROVE  Installation' /\ phase' \in [Processes -> Phases]
<1>1. /\ phase \in [Processes -> Phases] /\ phase[p] = "bootstrapping"
      /\ phase' = [phase EXCEPT ![p] = "serving"]
      /\ migrations = 1 /\ migrations' = 1
  BY DEF IInv, Installation, Bootstrap, Enter
<1>2. \A u \in BootstrapUsers :
        /\ user[u] # None => user'[u] = user[u]
        /\ user[u] = None => user'[u] = FirstRow(p)
  BY ServerAssumption DEF Bootstrap
<1>3. FirstRow(p) # None /\ FirstRow(p).secret = Password[p]
  <2>1. FirstRow(p) \in UserRow
    BY ServerAssumption DEF FirstRow, UserRow
  <2> QED
    BY <2>1, RequestAssumption DEF FirstRow
<1>4. \E q \in Processes : \A u \in BootstrapUsers :
        user'[u] # None /\ user'[u].secret = Password[q]
  <2>1. CASE \A u \in BootstrapUsers : user[u] = None
    BY <2>1, <1>2, <1>3
  <2>2. CASE \E q \in Processes : \A u \in BootstrapUsers :
               user[u] # None /\ user[u].secret = Password[q]
    BY <2>2, <1>2
  <2> QED
    BY <2>1, <2>2 DEF IInv, Installation
<1>5. \A q \in Processes :
        phase'[q] # "creating" /\ phase'[q] \in Phases
  BY <1>1 DEF IInv, Installation, Phases
<1> QED
  BY <1>1, <1>4, <1>5 DEF Installation

(* Every other step leaves the installation alone or moves one process.    *)
LEMMA InstallationKept ==
  ASSUME IInv, [Next]_vars
  PROVE  Installation' /\ phase' \in [Processes -> Phases]
<1> DEFINE Goal == Installation' /\ phase' \in [Processes -> Phases]
<1>1. ASSUME NEW p \in Processes, Start(p) PROVE Goal
  BY <1>1, MoveKeepsInstallation DEF Start, Enter, Phases, sessionVars
<1>2. ASSUME NEW p \in Processes, FindSchema(p) PROVE Goal
  <2>1. migrations = 1
    BY <1>2 DEF FindSchema, IInv, Installation
  <2> QED
    BY <1>2, <2>1, MoveKeepsInstallation
    DEF FindSchema, Enter, Phases, sessionVars
<1>3. ASSUME NEW p \in Processes, LockSchema(p) PROVE Goal
  BY <1>3, MoveKeepsInstallation DEF LockSchema, Enter, Phases, sessionVars
<1>4. ASSUME NEW p \in Processes, NEW to \in {"signalled", "draining", "closing"},
             Up(p), phase' = [phase EXCEPT ![p] = to],
             UNCHANGED <<user, migrations>>
      PROVE  Goal
  BY <1>4, MoveKeepsInstallation DEF Phases
<1>5. ASSUME NEW p \in Processes,
             \/ Signal(p) \/ ListenerFails(p) \/ Shutdown(p)
             \/ ShutdownTimesOut(p) \/ Drain(p)
      PROVE  Goal
  <2>1. /\ Up(p) /\ UNCHANGED <<user, migrations>>
        /\ \E to \in {"signalled", "draining", "closing"} :
             phase' = [phase EXCEPT ![p] = to]
    BY <1>5 DEF Signal, ListenerFails, Shutdown, ShutdownTimesOut, Drain,
       Enter, Up, Listening, sessionVars
  <2> QED
    BY <1>4, <2>1
<1>6. ASSUME NEW p \in Processes, End(p) PROVE Goal
  BY <1>6, MoveKeepsInstallation DEF End, Phases
<1>7. ASSUME NEW u \in Users, Disable(u), UNCHANGED <<phase, migrations>>
      PROVE  Goal
  <2>1. /\ \A v \in Users : user[v] # None =>
             user'[v] # None /\ user'[v].secret = user[v].secret
        /\ \A v \in Users : user[v] = None => user'[v] = None
    BY <1>7, StepKeeps DEF Disable, Kept, AccountsKept, IInv, Tables
  <2> QED
    BY <1>7, <2>1, ServerAssumption DEF IInv, Installation, Up
<1>8. ASSUME UNCHANGED <<user, phase, migrations>> PROVE Goal
  BY <1>8 DEF IInv, Installation, Up
<1>9. ASSUME NEW h \in Handlers, Accept(h) \/ Serve(h)
      PROVE  UNCHANGED user
  BY <1>9 DEF Accept, FindLoginUser, Arrive, Serve, CreateSession,
     FindSession, Admit, Logout, Operate, Refuse
<1> HIDE DEF Goal
<1>10. Goal
  BY <1>1, <1>2, <1>3, <1>5, <1>6, <1>7, <1>8, <1>9,
     CommitSchemaKeepsInstallation, BootstrapKeepsInstallation
  DEF Next, vars, Tick, Stop, Close, Crash, Goal
<1> QED
  BY <1>10 DEF Goal

-----------------------------------------------------------------------------
LEMMA InductiveInit == ServerInit => IInv
<1> SUFFICES ASSUME ServerInit
             PROVE  IInv
  OBVIOUS
<1>1. Tables
  BY SessionsAssumption DEF ServerInit, Tables
<1>2. Installation
  BY ServerAssumption DEF ServerInit, Installation, Up
<1> QED
  BY <1>1, <1>2 DEF ServerInit, IInv, Fits, Phases

LEMMA InductiveStep == ASSUME IInv, [Next]_vars PROVE IInv'
BY StepKeeps, RequestsFit, InstallationKept DEF IInv

(* The inductive invariant holds of the server. *)
LEMMA AlwaysIInv == Spec => []IInv
<1>1. ServerInit => IInv
  BY InductiveInit
<1>2. IInv /\ [Next]_vars => IInv'
  BY InductiveStep
<1> QED
  BY <1>1, <1>2, PTL DEF Spec

(* Type correctness of accounts, sessions, requests and processes: no      *)
(* interleaving of logins, requests, signals and crashes leaves a session  *)
(* without its user or a request without its session.                      *)
THEOREM ServerTypes == Spec => []TypeOK
<1>1. IInv => TypeOK
  <2> SUFFICES ASSUME IInv
               PROVE  TypeOK
    OBVIOUS
  <2>1. ASSUME NEW h \in Handlers, request[h] # None, ~At(h, "verified")
        PROVE  session[request[h].session] # None
    BY <2>1 DEF IInv, Fits, At, LoginRequest
  <2>2. migrations \in Nat
    BY DEF IInv, Installation
  <2> QED
    BY <2>1, <2>2 DEF IInv, Tables, TypeOK, SessionsTypeOK
<1> QED
  BY <1>1, AlwaysIInv, PTL

(* A request that arrives after its session was logged out or expired, or  *)
(* its user disabled, gets through to no operation, for any number of      *)
(* requests and processes beside it.                                       *)
THEOREM NothingOpensAfterTheEnd == Spec => []EndedSessionsOpenNothing
<1>1. IInv => EndedSessionsOpenNothing
  BY RequestKinds DEF IInv, EndedSessionsOpenNothing
<1> QED
  BY <1>1, AlwaysIInv, PTL

(* The schema is applied once and the users are those of one bootstrap,    *)
(* however many processes start at once and wherever they die.             *)
THEOREM WholeInstallation == Spec => []InstallationIsWhole
<1>1. IInv => InstallationIsWhole
  BY ServerAssumption DEF IInv, Installation, InstallationIsWhole
<1> QED
  BY <1>1, AlwaysIInv, PTL

(* A session keeps its user and its end, and what ended it stays.          *)
THEOREM SessionsEnd == Spec => SessionsEndOnce
<1>1. IInv /\ [Next]_vars =>
        [\A s \in Sessions : session[s] # None =>
           /\ session'[s] # None
           /\ session[s].revoked # None => session'[s] = session[s]
           /\ session'[s].user = session[s].user
           /\ session'[s].expires = session[s].expires]_sessionVars
  BY StepKeeps DEF Kept, SessionsKept
<1> QED
  BY <1>1, AlwaysIInv, PTL DEF Spec, SessionsEndOnce

(* No restart and no second bootstrap changes an account that is there.    *)
THEOREM AccountsOutliveProcesses == Spec => AccountsSurvive
<1>1. IInv /\ [Next]_vars =>
        [\A u \in Users : user[u] # None =>
           /\ user'[u] # None
           /\ user'[u].secret = user[u].secret
           /\ user[u].disabled => user'[u].disabled]_vars
  BY StepKeeps DEF Kept, AccountsKept
<1> QED
  BY <1>1, AlwaysIInv, PTL DEF Spec, AccountsSurvive
=============================================================================
