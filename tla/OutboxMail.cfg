\* One event of any kind, two people to mail, two workers.
CONSTANTS
  Events = {1}
  Kinds = {"notification", "billing", "other"}
  Recipients = {r1, r2}
  Workers = {w1, w2}
  DispatchAttempts = 2
  NotifyAttempts = 2
  MaxStalls = 1
  BatchSize = 1
  Null = Null
SPECIFICATION FairSpec
INVARIANTS
  HandedOverOnce
  NoDuplicateMail
PROPERTIES
  MailSpec
  NotificationIsSettled
