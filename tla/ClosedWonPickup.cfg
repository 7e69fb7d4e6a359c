\* A pickup that read the lead before another moderator closed it as won.
CONSTANTS
  c1 = c1
  m1 = m1
  m2 = m2
  r1 = r1
  r2 = r2
  Admin = Admin
  Null = Null
  Companies = {c1}
  Moderators = {m1, m2}
  Requests = {r1, r2}
  MaxReassigns = 1
SPECIFICATION Spec
PROPERTIES
  ClosedWonKeepsModerator
