\* One job and two requests: a draft edit and a publish that overlap.
CONSTANTS
  Null = Null
  j1 = j1
  Jobs = {j1}
  LegacyJobs = {}
  SlugBase <- SameSlugBase
  s1 = s1
  Subs = {s1}
  EnterpriseSubs = {}
  r1 = r1
  r2 = r2
  Requests = {r1, r2}
  t1 = t1
  Ticks = {t1}
  a = a
  ShortIds = {a}
  MaxActiveJobs = 1
  Duration = 1
  Horizon = 1
  SlugAttempts = 1
  BatchSize = 1
  MaxTime = 1
SPECIFICATION Spec
INVARIANT LiveBodyIsReviewed
