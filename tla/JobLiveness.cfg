\* A fair request and a fair tick over two jobs whose slugs collide (one legacy).
CONSTANTS
  Null = Null
  j1 = j1
  j2 = j2
  Jobs = {j1, j2}
  LegacyJobs = {j2}
  SlugBase <- SameSlugBase
  s1 = s1
  Subs = {s1}
  EnterpriseSubs = {}
  r1 = r1
  Requests = {r1}
  t1 = t1
  Ticks = {t1}
  a = a
  b = b
  ShortIds = {a, b}
  MaxActiveJobs = 1
  Duration = 0
  Horizon = 1
  SlugAttempts = 2
  BatchSize = 2
  MaxTime = 1
SPECIFICATION FairSpec
PROPERTY RequestsAreAnswered
PROPERTY OverdueIsTakenDown
