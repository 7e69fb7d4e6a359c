\* One user with a browser, an employer until an administrator says otherwise;
\* two links, two requests at a time.
CONSTANTS
  u1 = u1
  t1 = t1
  t2 = t2
  r1 = r1
  r2 = r2
  Refused = Refused
  Null = Null
  Users = {u1}
  TokenIds = {t1, t2}
  Requests = {r1, r2}
  MaxVersion = 1
  FirstRoles = {"employer"}
  GivenRoles = {"candidate", "moderator"}
SPECIFICATION Spec
SYMMETRY Symmetry
INVARIANTS
  LinkWorksOnce
  NewLinkVoidsOlder
  AcceptedSessionsAreCurrent
  CookiesFollowRole
PROPERTY AccessSpec
CHECK_DEADLOCK FALSE
