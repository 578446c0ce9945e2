\* Two processes with different bootstrap passwords, a handler in each, two
\* users, one session; the clock passes its expiry.
SPECIFICATION FairSpec
CONSTANTS
  None = None  p1 = p1  p2 = p2  h1 = h1  h2 = h2
  oldSecret = oldSecret  newSecret = newSecret
  u1 = u1  u2 = u2  mail1 = mail1  mail2 = mail2
  Users = {u1, u2}  Emails = {mail1, mail2}  UserEmail <- MCUserEmail
  Secrets = {oldSecret, newSecret}  Sessions = {s1}  Handlers = {h1, h2}
  TTL = 1  Times <- MCTimes
  Processes = {p1, p2}  Host <- MCHost  Password <- MCPassword
  BootstrapUsers = {u1, u2}
CHECK_DEADLOCK FALSE
INVARIANTS
  TypeOK
  EndedSessionsOpenNothing
  InstallationIsWhole
PROPERTIES
  SessionsEndOnce
  AccountsSurvive
  SignalEnds
