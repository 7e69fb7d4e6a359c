\* Two events that share a batch of one, one worker.
CONSTANTS
  Events = {1, 2}
  Kinds = {"other"}
  Recipients = {r1}
  Workers = {w1}
  DispatchAttempts = 1
  NotifyAttempts = 1
  MaxStalls = 0
  BatchSize = 1
  Null = Null
SPECIFICATION FairSpec
PROPERTIES
  EventIsSettled
