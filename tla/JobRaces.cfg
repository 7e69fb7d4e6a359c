\* One job, two racing requests and two overlapping ticks.
CONSTANTS
  Null = Null
  j1 = j1
  Jobs = {j1}
  LegacyJobs = {}
  SlugBase <- SameSlugBase
  s1 = s1
  Subs = {s1}
  EnterpriseSubs = {s1}
  r1 = r1
  r2 = r2
  Requests = {r1, r2}
  t1 = t1
  t2 = t2
  Ticks = {t1, t2}
  a = a
  b = b
  ShortIds = {a, b}
  MaxActiveJobs = 1
  Duration = 1
  Horizon = 1
  SlugAttempts = 2
  BatchSize = 1
  MaxTime = 2
SPECIFICATION Spec
SYMMETRY RequestTickSymmetry
INVARIANT TypeOK
INVARIANT OutboxMirrorsStatus
INVARIANT ExpiredRanOut
INVARIANT WarnedOncePerTick
PROPERTY GoesLiveFromReview
PROPERTY LiveListingIsStable
PROPERTY ExpiryClockKept
PROPERTY FeedSpec
