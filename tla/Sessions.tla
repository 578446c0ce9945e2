------------------------------ MODULE Sessions ------------------------------
(***************************************************************************)
(* Users, their sessions and the requests made with them: Login,           *)
(* Authenticate and Logout of internal/service/auth.go, behind RequireAuth *)
(* of internal/middleware/auth.go.                                         *)
(*                                                                         *)
(* None of them has a transaction.  A login finds the user, verifies the   *)
(* password on its copy of the row and inserts the session in another      *)
(* statement; a request finds its session with one SELECT, then looks at   *)
(* the clock and at the copy, and goes on with the principal it was given. *)
(*                                                                         *)
(* A token is drawn at random and stored by its hash, so it is identified  *)
(* with its session.  Role and organization of a principal are those of    *)
(* its user, which no operation changes.  Accounts are disabled by someone *)
(* with access to the database: the service only reads disabled_at.        *)
(***************************************************************************)
EXTENDS Naturals

CONSTANTS
  Users, Emails, UserEmail,   \* accounts and their addresses
  Secrets,                    \* passwords
  Sessions,                   \* identifiers idgen.New may hand out
  Handlers,                   \* goroutines serving requests
  TTL,                        \* BRIDGEWATCH_SESSION_TTL
  Times,                      \* instants of the clock
  None                        \* the absent value

ASSUME SessionsAssumption ==
  /\ UserEmail \in [Users -> Emails]
  /\ TTL \in Nat \ {0}
  /\ 0 \in Times /\ Times \subseteq Nat
  /\ None \notin Users \cup Sessions \cup Times

VARIABLES
  now,      \* the clock
  user,     \* Users -> row of users, or None
  session,  \* Sessions -> row of sessions, or None
  request   \* Handlers -> the request in flight, or None

sessionVars == <<now, user, session, request>>

-----------------------------------------------------------------------------
UserRow == [secret : Secrets, disabled : BOOLEAN]

SessionRow == [user : Users, expires : Nat, revoked : Times \cup {None}]

(* A login between FindUserByEmail and CreateSession *)
LoginRequest == [pc : {"verified"}, user : Users]

(* A request with a token.  ended: whether its session had already ended   *)
(* when the request arrived, which only the properties look at.            *)
TokenRequest == [pc : {"arrived"}, session : Sessions, ended : BOOLEAN]

(* One whose session was found, with what FindSessionByHash returned *)
FoundRequest == [pc : {"found"}, session : Sessions, ended : BOOLEAN,
                 row : SessionRow, disabled : BOOLEAN]

(* One that RequireAuth passed on *)
AdmittedRequest == [pc : {"admitted"}, session : Sessions, user : Users,
                    ended : BOOLEAN]

Request == LoginRequest \cup TokenRequest \cup FoundRequest
           \cup AdmittedRequest

ASSUME RequestAssumption == None \notin UserRow \cup SessionRow \cup Request

At(h, pc) == request[h] # None /\ request[h].pc = pc

(* The request is answered. *)
Done(h) == [request EXCEPT ![h] = None]

(* Session.Active *)
Active(row, at) == row.revoked = None /\ at < row.expires

(* The session has ended for good: logged out, expired or its user         *)
(* disabled.                                                               *)
Ended(s) == ~Active(session[s], now) \/ user[session[s].user].disabled

-----------------------------------------------------------------------------
(* Login up to CreateSession.  The statement looks for the email over all  *)
(* organizations and takes the first row, whichever that is.               *)
FindLoginUser(h, email, secret, u) ==
  /\ request[h] = None
  /\ user[u] # None
  /\ UserEmail[u] = email
  /\ ~user[u].disabled
  /\ user[u].secret = secret
  /\ request' = [request EXCEPT ![h] = [pc |-> "verified", user |-> u]]
  /\ UNCHANGED <<now, user, session>>

(* CreateSession with a fresh identifier, and the answer with its token *)
CreateSession(h, s) ==
  /\ At(h, "verified")
  /\ session[s] = None
  /\ session' = [session EXCEPT ![s] =
       [user |-> request[h].user, expires |-> now + TTL, revoked |-> None]]
  /\ request' = Done(h)
  /\ UNCHANGED <<now, user>>

(* A request arrives with the token of a session. *)
Arrive(h, s) ==
  /\ request[h] = None
  /\ session[s] # None
  /\ request' = [request EXCEPT ![h] =
       [pc |-> "arrived", session |-> s, ended |-> Ended(s)]]
  /\ UNCHANGED <<now, user, session>>

(* FindSessionByHash, one SELECT over sessions and users *)
FindSession(h) ==
  LET r == request[h]
      row == session[r.session]
  IN /\ At(h, "arrived")
     /\ request' = [request EXCEPT ![h] =
          [pc |-> "found", session |-> r.session, ended |-> r.ended,
           row |-> row, disabled |-> user[row.user].disabled]]
     /\ UNCHANGED <<now, user, session>>

(* Mutated form: Login has looked at disabled_at, Authenticate does not. *)
AdmitDisabled(h) ==
  LET r == request[h]
  IN /\ At(h, "found")
     /\ Active(r.row, now)
     /\ request' = [request EXCEPT ![h] =
          [pc |-> "admitted", session |-> r.session, user |-> r.row.user,
           ended |-> r.ended]]
     /\ UNCHANGED <<now, user, session>>

(* The rest of Authenticate: the clock is read after the row. *)
Admit(h) ==
  LET r == request[h]
  IN /\ At(h, "found")
     /\ Active(r.row, now)
     /\ ~r.disabled
     /\ request' = [request EXCEPT ![h] =
          [pc |-> "admitted", session |-> r.session, user |-> r.row.user,
           ended |-> r.ended]]
     /\ UNCHANGED <<now, user, session>>

(* Mutated form: the session is closed with its expiry for a time. *)
LogoutAtExpiry(h) ==
  LET s == request[h].session
  IN /\ At(h, "admitted")
     /\ session' = [session EXCEPT ![s].revoked = session[s].expires]
     /\ request' = Done(h)
     /\ UNCHANGED <<now, user>>

(* Mutated form: WHERE id=? alone *)
LogoutAgain(h) ==
  LET s == request[h].session
  IN /\ At(h, "admitted")
     /\ session' = [session EXCEPT ![s].revoked = now]
     /\ request' = Done(h)
     /\ UNCHANGED <<now, user>>

(* Logout: RevokeSession leaves a session alone that is revoked already,   *)
(* and reports success all the same.                                       *)
Logout(h) ==
  LET s == request[h].session
  IN /\ At(h, "admitted")
     /\ session' = IF session[s].revoked = None
                   THEN [session EXCEPT ![s].revoked = now]
                   ELSE session
     /\ request' = Done(h)
     /\ UNCHANGED <<now, user>>

(* Any other operation of the service *)
Operate(h) ==
  /\ At(h, "admitted")
  /\ request' = Done(h)
  /\ UNCHANGED <<now, user, session>>

(* The request is refused or fails, at whatever step: an ended session, a  *)
(* disabled user, a database error, a recovered panic.                     *)
Refuse(h) ==
  /\ request[h] # None
  /\ request' = Done(h)
  /\ UNCHANGED <<now, user, session>>

(* An account is disabled. *)
Disable(u) ==
  /\ user[u] # None
  /\ user' = [user EXCEPT ![u].disabled = TRUE]
  /\ UNCHANGED <<now, session, request>>

Tick ==
  /\ now + 1 \in Times
  /\ now' = now + 1
  /\ UNCHANGED <<user, session, request>>

-----------------------------------------------------------------------------
(* Type correctness of users, sessions and requests in flight; a session   *)
(* has a user, and a request past its arrival a session.                   *)
SessionsTypeOK ==
  /\ now \in Times
  /\ user \in [Users -> UserRow \cup {None}]
  /\ session \in [Sessions -> SessionRow \cup {None}]
  /\ \A s \in Sessions : session[s] # None => user[session[s].user] # None
  /\ request \in [Handlers -> Request \cup {None}]
  /\ \A h \in Handlers : request[h] # None /\ ~At(h, "verified") =>
       session[request[h].session] # None

(* "Revocable server sessions with expiry" (README.md:7): a request that   *)
(* arrives after its session was logged out or expired, or after its user  *)
(* was disabled, gets through to no operation, whatever was going on       *)
(* beside it: a login that was verified before, other requests of the same *)
(* session, a restart.                                                     *)
EndedSessionsOpenNothing ==
  \A h \in Handlers : At(h, "admitted") => ~request[h].ended

(* A session keeps its user and its end: logged out by two requests at     *)
(* once it keeps the time of the first, and nothing revives it.            *)
SessionsEndOnce ==
  [][\A s \in Sessions : session[s] # None =>
       /\ session'[s] # None
       /\ session[s].revoked # None => session'[s] = session[s]
       /\ session'[s].user = session[s].user
       /\ session'[s].expires = session[s].expires]_sessionVars
=============================================================================
