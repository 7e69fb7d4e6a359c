------------------------------- MODULE Outbox -------------------------------
(***************************************************************************)
(* The worker's side of the transactional outbox: the poller that turns    *)
(* rows of outbox_events into BullMQ jobs, the dispatch handler that       *)
(* claims a row, what it does after the claim commits, the notification    *)
(* emails, and the dead letters.                                           *)
(*                                                                         *)
(* BullMQ delivers at least once: a job may be retried after a failure,    *)
(* and given to a second worker when the first is dead or only slow        *)
(* ("stalled").  A worker that lost its job goes on without knowing.  The  *)
(* queue, the email provider and the crashes are external.                 *)
(***************************************************************************)
EXTENDS Integers, FiniteSets

CONSTANTS
  Events,          \* ids of outbox_events, in the order they were allocated
  Kinds,           \* what an event may ask for
  Recipients,      \* the company's employers, at least one
  Workers,         \* worker processes (two overlap at a deploy)
  DispatchAttempts, NotifyAttempts,  \* attempts of the two kinds of job
  MaxStalls,       \* BullMQ's maxStalledCount
  BatchSize,       \* rows one poll takes
  Null

\* NOTIFICATION_EVENT_TYPES; proforma_issued and invoice_issued; the others.
AllKinds == {"notification", "billing", "other"}

ASSUME OutboxAssumptions ==
  /\ Events \subseteq Nat /\ IsFiniteSet(Events)
  /\ Kinds \subseteq AllKinds /\ Recipients # {}
  /\ DispatchAttempts \in Nat \ {0} /\ NotifyAttempts \in Nat \ {0}
  /\ MaxStalls \in Nat /\ BatchSize \in Nat \ {0}
  /\ Null \notin Workers

VARIABLES
  row,         \* outbox_events: not committed yet, unprocessed, processed
  kind,        \* what the event asks for: a notification, a billing mail ...
  letters,     \* outbox_dead_letters
  letterSent,  \* inserts of a dead letter under way: nobody awaits them
  queue,       \* the BullMQ jobs, by kind and event
  batch,       \* rows the current poll has still to add
  worker,      \* the job each worker runs, and where it stands
  handovers,   \* history: how often afterCommit ran for an event
  accepted,    \* idempotency keys the email provider has seen
  mails,       \* history: notification emails that reached a recipient
  billingMails \* history: billing emails sent for an event

database == <<row, kind, letters, letterSent>>
email == <<accepted, mails, billingMails>>
vars == <<database, queue, batch, worker, handovers, email>>

JobIds == {"dispatch", "notify"} \X Events
JobState == {"none", "waiting", "active", "completed", "failed"}
WorkerPc == {"idle", "claim", "afterCommit", "billing", "send", "finish"}

NoJob == [state |-> "none", made |-> 0, stalls |-> 0, holder |-> Null]
Resting == [pc |-> "idle", job |-> Null, left |-> {}]

MadeBy(j) == IF j[1] = "dispatch" THEN DispatchAttempts ELSE NotifyAttempts

TypeOK ==
  /\ row \in [Events -> {"none", "pending", "processed"}]
  /\ kind \in [Events -> Kinds]
  /\ letters \subseteq Events
  /\ letterSent \subseteq Events
  /\ queue \in [JobIds -> [state : JobState, made : Nat,
                           stalls : 0..MaxStalls + 1,
                           holder : Workers \cup {Null}]]
  /\ \A j \in JobIds : queue[j].made < MadeBy(j)
  /\ batch \subseteq Events
  /\ worker \in [Workers -> [pc : WorkerPc, job : JobIds \cup {Null},
                             left : SUBSET Recipients]]
  /\ handovers \in [Events -> Nat]
  /\ mails \in [Events \X Recipients -> Nat]
  /\ billingMails \in [Events -> Nat]

Init ==
  /\ row = [e \in Events |-> "none"]
  /\ kind \in [Events -> Kinds]
  /\ letters = {} /\ letterSent = {}
  /\ queue = [j \in JobIds |-> NoJob]
  /\ batch = {}
  /\ worker = [w \in Workers |-> Resting]
  /\ handovers = [e \in Events |-> 0]
  /\ accepted = {}
  /\ mails = [m \in Events \X Recipients |-> 0]
  /\ billingMails = [e \in Events |-> 0]

-----------------------------------------------------------------------------
(* The rows and the poller.                                                *)

\* A business transaction commits.  Ids are allocated earlier, so rows
\* appear in any order.
Emit(e) ==
  /\ row[e] = "none"
  /\ row' = [row EXCEPT ![e] = "pending"]
  /\ UNCHANGED <<kind, letters, letterSent, queue, batch, worker, handovers, email>>

\* Queue.add: an id the queue still knows, in whatever state, is not added.
Add(q, j) ==
  IF q[j].state = "none" THEN [q EXCEPT ![j] = [NoJob EXCEPT !.state = "waiting"]]
                         ELSE q

\* Mutant: dead-lettered rows are polled like the others.
PollableAll == {e \in Events : row[e] = "pending"}

Pollable == {e \in Events : row[e] = "pending" /\ e \notin letters}

FirstRows(S) ==
  {e \in S : Cardinality({f \in S : f < e}) < BatchSize}

\* `ticking`: a poll starts when the one before it has ended.
Poll ==
  /\ batch = {}
  /\ batch' = FirstRows(Pollable)
  /\ UNCHANGED <<database, queue, worker, handovers, email>>

PollAdd(e) ==
  /\ e \in batch
  /\ \A f \in batch : e <= f
  /\ queue' = Add(queue, <<"dispatch", e>>)
  /\ batch' = batch \ {e}
  /\ UNCHANGED <<database, worker, handovers, email>>

\* Redis refuses an add: the rest of the batch waits for the next poll.
PollFails ==
  /\ batch # {}
  /\ batch' = {}
  /\ UNCHANGED <<database, queue, worker, handovers, email>>

-----------------------------------------------------------------------------
(* The queue.                                                              *)

\* A worker runs one job at a time (BullMQ's default concurrency).
Take(w, j) ==
  /\ worker[w].pc = "idle"
  /\ queue[j].state = "waiting"
  /\ queue[j].stalls <= MaxStalls
  /\ queue' = [queue EXCEPT ![j].state = "active", ![j].holder = w]
  /\ worker' = [worker EXCEPT ![w] =
       IF j[1] = "dispatch"
       THEN [pc |-> "claim", job |-> j, left |-> {}]
       ELSE [pc |-> "send", job |-> j, left |-> Recipients]]
  /\ UNCHANGED <<database, batch, handovers, email>>

\* `failed` is emitted; the last failure of a dispatch becomes a dead letter.
Failed(j) ==
  /\ queue' = [queue EXCEPT ![j] = [NoJob EXCEPT !.state = "failed"]]
  /\ letterSent' = IF j[1] = "dispatch" THEN letterSent \cup {j[2]}
                                        ELSE letterSent

\* A job that stalled too often fails with an UnrecoverableError.
FailStalled(j) ==
  /\ queue[j].state = "waiting"
  /\ queue[j].stalls > MaxStalls
  /\ Failed(j)
  /\ UNCHANGED <<row, kind, letters, batch, worker, handovers, email>>

Abandoned(j) == queue[j].state = "active" /\ worker[queue[j].holder].job # j

\* The lock on a job runs out: its worker died, or was too busy to renew it.
Stall(j) ==
  /\ queue[j].state = "active"
  /\ queue' = [queue EXCEPT ![j].state = "waiting", ![j].holder = Null,
                            ![j].stalls = queue[j].stalls + 1]
  /\ UNCHANGED <<database, batch, worker, handovers, email>>

\* removeOnComplete, removeOnFail: newer jobs push a finished one out.
Forget(j) ==
  /\ queue[j].state \in {"completed", "failed"}
  /\ queue' = [queue EXCEPT ![j] = NoJob]
  /\ UNCHANGED <<database, batch, worker, handovers, email>>

\* The handler returned.  A worker whose lock is gone is not listened to.
Finish(w) ==
  LET j == worker[w].job IN
  /\ worker[w].pc = "finish"
  /\ worker' = [worker EXCEPT ![w] = Resting]
  /\ queue' = IF queue[j].holder = w
              THEN [queue EXCEPT ![j] = [NoJob EXCEPT !.state = "completed"]]
              ELSE queue
  /\ UNCHANGED <<database, batch, handovers, email>>

Exhausted(j, made) == made >= MadeBy(j)

\* The handler threw: retried after a delay until no attempt is left.
Throws(w) ==
  LET j == worker[w].job
      made == queue[j].made + 1 IN
  /\ worker' = [worker EXCEPT ![w] = Resting]
  /\ IF queue[j].holder # w
     THEN UNCHANGED <<queue, letterSent>>
     ELSE IF Exhausted(j, made)
     THEN Failed(j)
     ELSE /\ queue' = [queue EXCEPT ![j].state = "waiting", ![j].made = made,
                                    ![j].holder = Null]
          /\ UNCHANGED letterSent

Crash(w) ==
  /\ worker[w].pc # "idle"
  /\ worker' = [worker EXCEPT ![w] = Resting]
  /\ UNCHANGED <<database, queue, batch, handovers, email>>

-----------------------------------------------------------------------------
(* processOutboxDispatchJob.                                               *)

\* Mutant: the update does not ask that processed_at is null.
ClaimAgain(w) ==
  LET e == worker[w].job[2] IN
  /\ worker[w].pc = "claim"
  /\ row' = [row EXCEPT ![e] = "processed"]
  /\ worker' = [worker EXCEPT ![w].pc = "afterCommit"]
  /\ handovers' = [handovers EXCEPT ![e] = handovers[e] + 1]
  /\ UNCHANGED <<kind, letters, letterSent, queue, batch, email>>

\* UPDATE ... WHERE processed_at IS NULL, the hooks, commit: a second worker
\* waits for the row and then claims nothing.
Claim(w) ==
  LET e == worker[w].job[2] IN
  /\ worker[w].pc = "claim"
  /\ IF row[e] = "pending"
     THEN /\ row' = [row EXCEPT ![e] = "processed"]
          /\ worker' = [worker EXCEPT ![w].pc = "afterCommit"]
          /\ handovers' = [handovers EXCEPT ![e] = handovers[e] + 1]
     ELSE /\ worker' = [worker EXCEPT ![w].pc = "finish"]
          /\ UNCHANGED <<row, handovers>>
  /\ UNCHANGED <<kind, letters, letterSent, queue, batch, email>>

\* Mutant: afterCommit runs although the transaction was rolled back.
ClaimRollsBackLate(w) ==
  LET e == worker[w].job[2] IN
  /\ worker[w].pc = "claim"
  /\ row[e] = "pending"
  /\ worker' = [worker EXCEPT ![w].pc = "afterCommit"]
  /\ handovers' = [handovers EXCEPT ![e] = handovers[e] + 1]
  /\ UNCHANGED <<database, queue, batch, email>>

\* A hook or the database throws: the claim is rolled back.
ClaimRollsBack(w) ==
  /\ worker[w].pc = "claim"
  /\ Throws(w)
  /\ UNCHANGED <<row, kind, letters, batch, handovers, email>>

\* afterCommit: the notification job is queued.
AfterCommit(w) ==
  LET e == worker[w].job[2] IN
  /\ worker[w].pc = "afterCommit"
  /\ queue' = IF kind[e] = "notification" THEN Add(queue, <<"notify", e>>) ELSE queue
  /\ worker' = [worker EXCEPT ![w].pc =
                  IF kind[e] = "billing" THEN "billing" ELSE "finish"]
  /\ UNCHANGED <<database, batch, handovers, email>>

\* Redis refuses the add: the job fails, and its retry will claim nothing.
AfterCommitFails(w) ==
  /\ worker[w].pc = "afterCommit"
  /\ kind[worker[w].job[2]] = "notification"
  /\ Throws(w)
  /\ UNCHANGED <<row, kind, letters, batch, handovers, email>>

\* sendBillingTransactionalEmail: no key, no retry, errors are only logged.
BillingMail(w) ==
  LET e == worker[w].job[2] IN
  /\ worker[w].pc = "billing"
  /\ \E sent \in {0, 1} :
       billingMails' = [billingMails EXCEPT ![e] = billingMails[e] + sent]
  /\ worker' = [worker EXCEPT ![w].pc = "finish"]
  /\ UNCHANGED <<database, queue, batch, handovers, accepted, mails>>

-----------------------------------------------------------------------------
(* sendNotificationForOutboxEvent.                                         *)

\* Mutant: each attempt has a key of its own.
IdempotencyKeyOfAttempt(j, r) == <<j[2], r, queue[j].made>>

IdempotencyKey(j, r) == <<j[2], r>>

\* The provider sends what it has not seen.
Deliver(j, r) ==
  LET key == IdempotencyKey(j, r) IN
  /\ accepted' = accepted \cup {key}
  /\ mails' = [mails EXCEPT ![<<j[2], r>>] =
                 IF key \in accepted THEN mails[<<j[2], r>>]
                                     ELSE mails[<<j[2], r>>] + 1]

Send(w, r) ==
  LET left == worker[w].left \ {r} IN
  /\ worker[w].pc = "send"
  /\ r \in worker[w].left
  /\ Deliver(worker[w].job, r)
  /\ worker' = [worker EXCEPT ![w].left = left,
                              ![w].pc = IF left = {} THEN "finish" ELSE "send"]
  /\ UNCHANGED <<database, queue, batch, handovers, billingMails>>

\* Mutant: a failed send is only logged.
SendFailsSilently(w, r) ==
  /\ worker[w].pc = "send"
  /\ r \in worker[w].left
  /\ worker' = [worker EXCEPT ![w].pc = "finish"]
  /\ UNCHANGED <<database, queue, batch, handovers, email>>

\* No answer in time or a refusal: the mail may have been sent all the same.
SendFails(w, r) ==
  /\ worker[w].pc = "send"
  /\ r \in worker[w].left
  /\ \/ Deliver(worker[w].job, r)
     \/ UNCHANGED <<accepted, mails>>
  /\ Throws(w)
  /\ UNCHANGED <<row, kind, letters, batch, handovers, billingMails>>

-----------------------------------------------------------------------------
(* recordOutboxDispatchDeadLetter.                                         *)

InsertLetter(e) ==
  /\ e \in letterSent
  /\ letters' = letters \cup {e}
  /\ letterSent' = letterSent \ {e}
  /\ UNCHANGED <<row, kind, queue, batch, worker, handovers, email>>

\* The insert fails, and that is logged; or the process ends before it.
LoseLetter(e) ==
  /\ e \in letterSent
  /\ letterSent' = letterSent \ {e}
  /\ UNCHANGED <<row, kind, letters, queue, batch, worker, handovers, email>>

-----------------------------------------------------------------------------
Work(w) ==
  \/ Claim(w) \/ ClaimRollsBack(w)
  \/ AfterCommit(w) \/ AfterCommitFails(w) \/ BillingMail(w)
  \/ \E r \in Recipients : Send(w, r) \/ SendFails(w, r)
  \/ Finish(w)

Next ==
  \/ \E e \in Events : Emit(e) \/ PollAdd(e)
                      \/ InsertLetter(e) \/ LoseLetter(e)
  \/ Poll \/ PollFails
  \/ \E w \in Workers : Work(w) \/ Crash(w)
  \/ \E j \in JobIds : \/ \E w \in Workers : Take(w, j)
                       \/ FailStalled(j) \/ Stall(j) \/ Forget(j)

Spec == Init /\ [][Next]_vars

\* Timers keep the poller going, and it is not refused at the same row for
\* ever; workers go on and take the jobs in turn; the queue notices an
\* abandoned job; an insert that is tried again and again succeeds once.
Fairness ==
  /\ WF_vars(Poll)
  /\ \A e \in Events : SF_vars(PollAdd(e)) /\ SF_vars(InsertLetter(e))
  /\ \A w \in Workers : WF_vars(Work(w))
  /\ \A j \in JobIds : /\ SF_vars(\E w \in Workers : Take(w, j))
                       /\ WF_vars(FailStalled(j))
                       /\ WF_vars(Abandoned(j) /\ Stall(j))

FairSpec == Spec /\ Fairness

-----------------------------------------------------------------------------
(* Properties.                                                             *)

\* What happens after the commit happens at most once for an event, though
\* its job may run twice, even at the same time: the conditional update of
\* processOutboxDispatchJob decides.
HandedOverOnce == \A e \in Events : handovers[e] <= 1

\* Nobody is mailed twice about an event, whatever is retried: notification
\* mails by their idempotency key, billing mails because they are not retried.
NoDuplicateMail ==
  /\ \A m \in Events \X Recipients : mails[m] <= 1
  /\ \A e \in Events : billingMails[e] <= 1

\* Mail goes out only for events whose claim is committed: a rolled back
\* claim leaves nothing behind (processOutboxDispatchJob, afterCommit).
MailsAreCommitted ==
  \A e \in Events :
    \/ row[e] = "processed"
    \/ /\ queue[<<"notify", e>>].state = "none"
       /\ billingMails[e] = 0
       /\ \A r \in Recipients : mails[<<e, r>>] = 0

\* Whatever is retried, stalls, crashes or fails half-way, events are claimed
\* and mails sent as EventMail allows: each claimed once, mailed only after
\* that, once per recipient, and only of the kind it asks for
\* (processOutboxDispatchJob, sendNotificationForOutboxEvent).
MailContract == INSTANCE EventMail WITH stage <- row
MailSpec == MailContract!Spec

\* Unprocessed, no dead letter on its way, and its failed job blocks its id.
Blocked(e) ==
  /\ row[e] = "pending"
  /\ e \notin letters \cup letterSent
  /\ queue[<<"dispatch", e>>].state = "failed"

\* Every committed event is dispatched or dead-lettered in the end, except
\* where the insert of a dead letter was lost: such a row stays in the batch,
\* and a batch full of them stops all others ("Dead-lettered rows must not
\* occupy the batch forever and starve newer events", outbox.ts).
EventIsSettled ==
  \A e \in Events :
    row[e] = "pending" ~>
      \/ row[e] = "processed" \/ e \in letters \/ Blocked(e)
      \/ Cardinality({f \in Events : Blocked(f)}) >= BatchSize

\* A queued notification reaches everyone or ends as a failed job.
NotificationIsSettled ==
  \A e \in Events :
    queue[<<"notify", e>>].state # "none" ~>
      \/ \A r \in Recipients : mails[<<e, r>>] = 1
      \/ queue[<<"notify", e>>].state = "failed"

=============================================================================
