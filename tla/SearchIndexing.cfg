\* Two events about one page, one worker.
CONSTANTS
  Events = {1, 2}
  Kinds = {"other"}
  r1 = r1
  Recipients = {r1}
  w1 = w1
  Workers = {w1}
  DispatchAttempts = 1
  NotifyAttempts = 1
  MaxStalls = 0
  BatchSize = 1
  Null = Null
  EventTypes = {"job_unpublished", "job_submitted"}
  p1 = p1
  Pages = {p1}
  PageOf <- OnePage
SPECIFICATION SearchSpec
INVARIANTS
  LatestChangeWins
CHECK_DEADLOCK FALSE
