\* Two uploads, two requests about applications, one job applied to twice.
CONSTANTS
  k1 = k1
  k2 = k2
  u1 = u1
  u2 = u2
  r1 = r1
  r2 = r2
  j1 = j1
  a1 = a1
  a2 = a2
  Null = Null
  Keys = {k1, k2}
  Uploaders = {u1, u2}
  Appliers = {r1, r2}
  Jobs = {j1}
  AppIds = {a1, a2}
  Cooldown = 1
  MaxTime = 1
SPECIFICATION Spec
SYMMETRY Symmetry
INVARIANTS
  RowsHaveFiles
  NoFileLeftBehind
  CvKept
  CooldownKept
PROPERTIES
  DeskSpec
