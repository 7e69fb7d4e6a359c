\* Two people, two companies, two requests at a time.
CONSTANTS
  c1 = c1
  c2 = c2
  u1 = u1
  u2 = u2
  n1 = n1
  p1 = p1
  r1 = r1
  r2 = r2
  Null = Null
  CompanyIds = {c1, c2}
  Users = {u1, u2}
  Names = {n1}
  Pibs = {p1}
  Requests = {r1, r2}
SPECIFICATION Spec
SYMMETRY Symmetry
INVARIANTS
  DecidedOnce
  MembersAreVetted
  SignupsShareACompany
PROPERTIES
  FillsOnlyEmpty
  RegisterSpec
