----------------------------- MODULE OutboxProofs -----------------------------
(***************************************************************************)
(* Proofs about Outbox, for any number of events, recipients and workers,  *)
(* and any limits on attempts, stalls and batches.                         *)
(*                                                                         *)
(* The inductive invariant adds to the properties who may be past a claim: *)
(* a job that does what follows a commit, queued or in the hands of a      *)
(* worker that lost it, is about a processed row, and of the kind the row  *)
(* asks for; and one worker at most is between the claim of an event and   *)
(* its billing mail.  The last section shows that the module implements    *)
(* EventMail.                                                              *)
(***************************************************************************)
EXTENDS Outbox, TLAPS

Job == [state : JobState, made : Nat, stalls : 0..MaxStalls + 1,
        holder : Workers \cup {Null}]
Worker == [pc : WorkerPc, job : JobIds \cup {Null}, left : SUBSET Recipients]

Processed == {e \in Events : row[e] = "processed"}
Announced == {e \in Processed : kind[e] = "notification"}

\* x is the state of job j.
EntryOK(j, x) ==
  /\ x.made < MadeBy(j)
  /\ x.state = "active" => x.stalls <= MaxStalls
  /\ j[1] = "notify" /\ x.state # "none" => j[2] \in Announced
QueueOK == /\ queue \in [JobIds -> Job]
           /\ \A j \in JobIds : EntryOK(j, queue[j])

\* q and p are what two workers do.
PastClaim == {"afterCommit", "billing"}
WorkerOK(q) ==
  /\ q.pc # "idle" => q.job \in JobIds
  /\ q.pc \in {"claim"} \cup PastClaim => q.job[1] = "dispatch"
  /\ q.pc = "send" => q.job[1] = "notify"
  /\ q.pc # "idle" /\ q.job[1] = "notify" => q.job[2] \in Announced
  /\ q.pc = "billing" => kind[q.job[2]] = "billing"
  /\ q.pc \in PastClaim => /\ q.job[2] \in Processed
                           /\ billingMails[q.job[2]] = 0
Apart(q, p) == ~(q.pc \in PastClaim /\ p.pc \in PastClaim
                   /\ q.job[2] = p.job[2])
WorkersOK == /\ worker \in [Workers -> Worker]
             /\ \A w \in Workers : WorkerOK(worker[w])
             /\ \A w, v \in Workers : w # v => Apart(worker[w], worker[v])

\* The rows, and what went out for them.
RowsOK ==
  /\ row \in [Events -> {"none", "pending", "processed"}]
  /\ kind \in [Events -> Kinds]
  /\ letters \subseteq Events /\ letterSent \subseteq Events
  /\ batch \subseteq Events
  /\ handovers = [e \in Events |-> IF row[e] = "processed" THEN 1 ELSE 0]
MailsOK ==
  /\ mails \in [Events \X Recipients -> {0, 1}]
  /\ \A e \in Events, r \in Recipients :
       mails[<<e, r>>] # 0 => <<e, r>> \in accepted /\ e \in Processed
  /\ billingMails \in [Events -> {0, 1}]
  /\ \A e \in Events : billingMails[e] # 0 => e \in Processed

IInv == QueueOK /\ WorkersOK /\ RowsOK /\ MailsOK

\* Processed rows stay so, and an event asks for what it asked for.
Grows == Processed \subseteq Processed' /\ Announced \subseteq Announced'
           /\ kind' = kind

\* What the invariant is for.
LEMMA IInvMeans ==
  ASSUME IInv
  PROVE  TypeOK /\ HandedOverOnce /\ NoDuplicateMail /\ MailsAreCommitted
<1>1. QueueOK /\ WorkersOK /\ RowsOK /\ MailsOK
  BY DEF IInv
<1>2. TypeOK
  <2>1. queue \in [JobIds -> Job] /\ \A j \in JobIds : queue[j].made < MadeBy(j)
    BY <1>1 DEF QueueOK, EntryOK
  <2>2. handovers \in [Events -> Nat] /\ billingMails \in [Events -> Nat]
    BY <1>1 DEF RowsOK, MailsOK
  <2>3. mails \in [Events \X Recipients -> Nat]
    BY <1>1 DEF MailsOK
  <2> QED
    BY <1>1, <2>1, <2>2, <2>3 DEF TypeOK, WorkersOK, RowsOK, Job, Worker
<1>3. HandedOverOnce
  BY <1>1 DEF RowsOK, HandedOverOnce
<1>4. NoDuplicateMail
  <2>1. \A m \in Events \X Recipients : mails[m] \in {0, 1}
    BY <1>1 DEF MailsOK
  <2>2. \A e \in Events : billingMails[e] \in {0, 1}
    BY <1>1 DEF MailsOK
  <2> QED
    BY <2>1, <2>2 DEF NoDuplicateMail
<1>5. MailsAreCommitted
  <2> SUFFICES ASSUME NEW e \in Events, row[e] # "processed"
               PROVE  /\ queue[<<"notify", e>>].state = "none"
                      /\ billingMails[e] = 0
                      /\ \A r \in Recipients : mails[<<e, r>>] = 0
      BY DEF MailsAreCommitted
  <2>1. <<"notify", e>> \in JobIds /\ e \notin Processed
    BY DEF JobIds, Processed
  <2>2. <<"notify", e>>[1] = "notify" /\ <<"notify", e>>[2] = e
    OBVIOUS
  <2>3. EntryOK(<<"notify", e>>, queue[<<"notify", e>>])
    BY <1>1, <2>1 DEF QueueOK
  <2> QED
    BY <1>1, <2>1, <2>2, <2>3 DEF EntryOK, MailsOK, Announced
<1> QED
  BY <1>2, <1>3, <1>4, <1>5

\* The initial states satisfy it.
LEMMA InitIInv == Init => IInv
<1> SUFFICES ASSUME Init PROVE IInv
    OBVIOUS
<1> USE DEF Init
<1>1. NoJob \in Job /\ NoJob.state = "none" /\ NoJob.made = 0
  BY OutboxAssumptions DEF NoJob, Job, JobState
<1>2. \A j \in JobIds : 0 < MadeBy(j)
  BY OutboxAssumptions DEF MadeBy
<1>3. QueueOK
  BY <1>1, <1>2 DEF QueueOK, EntryOK
<1>4. Resting \in Worker /\ Resting.pc = "idle"
  BY DEF Resting, Worker, WorkerPc
<1>5. WorkersOK
  BY <1>4 DEF WorkersOK, WorkerOK, Apart, PastClaim
<1>6. RowsOK /\ MailsOK
  BY DEF RowsOK, MailsOK
<1> QED
  BY <1>3, <1>5, <1>6 DEF IInv

-----------------------------------------------------------------------------
(* The parts, one at a time.                                               *)

\* The queue, when it is left alone,
LEMMA QueueKeeps ==
  ASSUME QueueOK, Grows, queue' = queue
  PROVE  QueueOK'
BY DEF QueueOK, EntryOK, Grows

\* ... or when one job of it changes.
LEMMA QueueSet ==
  ASSUME QueueOK, Grows, NEW j \in JobIds, NEW x \in Job, EntryOK(j, x),
         queue' = [queue EXCEPT ![j] = x]
  PROVE  QueueOK'
BY DEF QueueOK, EntryOK, Grows

\* The workers, when nobody moves,
LEMMA WorkersKeep ==
  ASSUME WorkersOK, Grows, worker' = worker, billingMails' = billingMails
  PROVE  WorkersOK'
BY DEF WorkersOK, WorkerOK, Apart, Grows

\* ... when one of them goes on,
LEMMA WorkerSet ==
  ASSUME WorkersOK, Grows, NEW w \in Workers, NEW q \in Worker, WorkerOK(q),
         \A v \in Workers \ {w} : Apart(q, worker[v]),
         worker' = [worker EXCEPT ![w] = q],
         \/ billingMails' = billingMails
         \/ /\ q.pc \notin PastClaim
            /\ \A v \in Workers \ {w} :
                 worker[v].pc \in PastClaim
                   => billingMails'[worker[v].job[2]] = billingMails[worker[v].job[2]]
  PROVE  WorkersOK'
<1>1. worker' \in [Workers -> Worker] /\ worker'[w] = q
        /\ \A v \in Workers \ {w} : worker'[v] = worker[v]
  BY DEF WorkersOK
<1>2. \A v \in Workers : WorkerOK(worker[v])
  BY DEF WorkersOK
<1>3. ASSUME NEW v \in Workers PROVE WorkerOK(worker[v])'
  <2>1. CASE v = w
    BY <1>1, <2>1 DEF WorkerOK, Grows
  <2>2. CASE v # w
    BY <1>1, <1>2, <2>2 DEF WorkerOK, Grows
  <2> QED
    BY <2>1, <2>2
<1>4. \A v, o \in Workers : v # o => Apart(worker[v], worker[o])'
  BY <1>1 DEF WorkersOK, Apart
<1> QED
  BY <1>1, <1>3, <1>4 DEF WorkersOK

\* ... or stops.
LEMMA WorkerRests ==
  ASSUME WorkersOK, Grows, NEW w \in Workers,
         worker' = [worker EXCEPT ![w] = Resting], billingMails' = billingMails
  PROVE  WorkersOK'
<1>1. Resting \in Worker /\ Resting.pc = "idle"
  BY DEF Resting, Worker, WorkerPc
<1> QED
  BY <1>1, WorkerSet DEF WorkerOK, Apart, PastClaim

\* The rows and the mails, when only the batch and the dead letters change.
LEMMA RowsAndMailsKeep ==
  ASSUME RowsOK, MailsOK, UNCHANGED <<row, kind, handovers, email>>,
         letters' \subseteq Events, letterSent' \subseteq Events,
         batch' \subseteq Events
  PROVE  RowsOK' /\ MailsOK' /\ Grows /\ billingMails' = billingMails
BY DEF RowsOK, MailsOK, Grows, Processed, Announced, email

-----------------------------------------------------------------------------
(* The actions.                                                            *)

\* A job some worker runs or ran.
LEMMA JobParts ==
  ASSUME NEW j \in JobIds
  PROVE  /\ j[1] \in {"dispatch", "notify"} /\ j[2] \in Events
         /\ j = <<j[1], j[2]>>
BY DEF JobIds

\* Only the state of one job changes, and it does not become active.
LEMMA RequeueKeeps ==
  ASSUME IInv, NEW j \in JobIds, NEW x \in Job, x.made < MadeBy(j),
         x.state # "active",
         queue[j].state # "none" \/ j[1] = "dispatch" \/ j[2] \in Announced,
         queue' = [queue EXCEPT ![j] = x], Grows
  PROVE  QueueOK'
<1>1. QueueOK /\ EntryOK(j, queue[j])
  BY DEF IInv, QueueOK
<1>2. EntryOK(j, x)
  BY <1>1, JobParts DEF EntryOK
<1> QED
  BY <1>1, <1>2, QueueSet

\* The emission and the poller.
LEMMA PollerKeeps ==
  ASSUME IInv,
         Poll \/ PollFails \/ \E e \in Events : Emit(e) \/ PollAdd(e)
  PROVE  IInv'
<1>1. QueueOK /\ WorkersOK /\ RowsOK /\ MailsOK
  BY DEF IInv
<1>2. CASE Poll \/ PollFails
  <2>1. /\ UNCHANGED <<row, kind, handovers, email, letters, letterSent>>
        /\ queue' = queue /\ worker' = worker
    BY <1>2 DEF Poll, PollFails, database
  <2>2. batch' \subseteq Events
    BY <1>2 DEF Poll, PollFails, FirstRows, Pollable
  <2>3. RowsOK' /\ MailsOK' /\ Grows /\ billingMails' = billingMails
    BY <1>1, <2>1, <2>2, RowsAndMailsKeep DEF RowsOK
  <2> QED
    BY <1>1, <2>1, <2>3, QueueKeeps, WorkersKeep DEF IInv
<1>3. ASSUME NEW e \in Events, Emit(e) PROVE IInv'
  <2>1. /\ row[e] = "none" /\ row' = [row EXCEPT ![e] = "pending"]
        /\ UNCHANGED <<kind, letters, letterSent, queue, batch, worker,
                       handovers, email>>
    BY <1>3 DEF Emit
  <2>2. Processed' = Processed
    BY <1>1, <2>1 DEF RowsOK, Processed
  <2>3. RowsOK'
    BY <1>1, <2>1 DEF RowsOK
  <2>4. MailsOK' /\ billingMails' = billingMails
    BY <1>1, <2>1, <2>2 DEF MailsOK, email
  <2>5. Grows
    BY <2>1, <2>2 DEF Grows, Announced
  <2> QED
    BY <1>1, <2>1, <2>3, <2>4, <2>5, QueueKeeps, WorkersKeep DEF IInv
<1>4. ASSUME NEW e \in Events, PollAdd(e) PROVE IInv'
  <2> DEFINE j == <<"dispatch", e>>
             x == [NoJob EXCEPT !.state = "waiting"]
  <2>1. /\ UNCHANGED <<row, kind, handovers, email, letters, letterSent>>
        /\ worker' = worker /\ batch' = batch \ {e}
        /\ queue' = Add(queue, j)
    BY <1>4 DEF PollAdd, database
  <2>2. RowsOK' /\ MailsOK' /\ Grows /\ billingMails' = billingMails
    BY <1>1, <2>1, RowsAndMailsKeep DEF RowsOK
  <2>3. j \in JobIds /\ j[1] = "dispatch" /\ j[2] = e
    BY DEF JobIds
  <2>4. x \in Job /\ x.made = 0 /\ x.state = "waiting"
    BY OutboxAssumptions DEF NoJob, Job, JobState
  <2>5. x.made < MadeBy(j)
    BY <2>4, OutboxAssumptions DEF MadeBy
  <2>6. QueueOK'
    <3>1. CASE queue[j].state = "none"
      <4>1. queue' = [queue EXCEPT ![j] = x]
        BY <2>1, <3>1 DEF Add
      <4> QED
        BY <2>2, <2>3, <2>4, <2>5, <4>1, RequeueKeeps
    <3>2. CASE queue[j].state # "none"
      BY <1>1, <2>1, <2>2, <3>2, QueueKeeps DEF Add
    <3> QED
      BY <3>1, <3>2
  <2> QED
    BY <1>1, <2>1, <2>2, <2>6, WorkersKeep DEF IInv
<1> QED
  BY <1>2, <1>3, <1>4

\* Dead letters.
LEMMA LettersKeep ==
  ASSUME IInv, NEW e \in Events, InsertLetter(e) \/ LoseLetter(e)
  PROVE  IInv'
<1>1. QueueOK /\ WorkersOK /\ RowsOK /\ MailsOK
  BY DEF IInv
<1>2. /\ UNCHANGED <<row, kind, handovers, email>>
      /\ queue' = queue /\ worker' = worker /\ batch' = batch
      /\ letters' \subseteq Events /\ letterSent' \subseteq Events
  BY <1>1 DEF InsertLetter, LoseLetter, RowsOK
<1>3. RowsOK' /\ MailsOK' /\ Grows /\ billingMails' = billingMails
  BY <1>1, <1>2, RowsAndMailsKeep DEF RowsOK
<1> QED
  BY <1>1, <1>2, <1>3, QueueKeeps, WorkersKeep DEF IInv

\* A job that is over, one way or the other.
LEMMA FailedKeeps ==
  ASSUME IInv, NEW j \in JobIds, Failed(j), Grows,
         queue[j].state # "none" \/ j[1] = "dispatch" \/ j[2] \in Announced
  PROVE  QueueOK' /\ letterSent' \subseteq Events
<1> DEFINE x == [NoJob EXCEPT !.state = "failed"]
<1>1. x \in Job /\ x.made = 0 /\ x.state = "failed"
  BY OutboxAssumptions DEF NoJob, Job, JobState
<1>2. x.made < MadeBy(j)
  BY <1>1, OutboxAssumptions DEF MadeBy
<1>3. QueueOK'
  BY <1>1, <1>2, RequeueKeeps DEF Failed
<1>4. letterSent' \subseteq Events
  BY JobParts DEF Failed, IInv, RowsOK
<1> QED
  BY <1>3, <1>4

\* What the queue does by itself.
LEMMA QueueStepsKeep ==
  ASSUME IInv, NEW j \in JobIds, FailStalled(j) \/ Stall(j) \/ Forget(j)
  PROVE  IInv'
<1>1. QueueOK /\ WorkersOK /\ RowsOK /\ MailsOK /\ queue[j] \in Job
        /\ EntryOK(j, queue[j])
  BY DEF IInv, QueueOK
<1>2. /\ UNCHANGED <<row, kind, handovers, email>>
      /\ worker' = worker /\ batch' = batch /\ letters' = letters
      /\ queue[j].state # "none"
  BY DEF FailStalled, Stall, Forget, database
<1>3. Grows
  BY <1>2 DEF Grows, Processed, Announced
<1>4. ASSUME FailStalled(j) PROVE QueueOK' /\ letterSent' \subseteq Events
  BY <1>2, <1>3, <1>4, FailedKeeps DEF FailStalled
<1>5. ASSUME Stall(j) PROVE QueueOK' /\ letterSent' \subseteq Events
  <2> DEFINE x == [queue[j] EXCEPT !.state = "waiting", !.holder = Null,
                                   !.stalls = queue[j].stalls + 1]
  <2>1. queue[j].state = "active" /\ letterSent' = letterSent
          /\ queue' = [queue EXCEPT ![j].state = "waiting", ![j].holder = Null,
                                    ![j].stalls = queue[j].stalls + 1]
    BY <1>5 DEF Stall, database
  <2>2. queue' = [queue EXCEPT ![j] = x]
    BY <1>1, <2>1 DEF QueueOK
  <2>3. queue[j].stalls \in 0..MaxStalls
    BY <1>1, <2>1, OutboxAssumptions DEF EntryOK, Job
  <2>4. queue[j].stalls + 1 \in 0..MaxStalls + 1
    BY <2>3, OutboxAssumptions
  <2>5. x \in Job /\ x.made = queue[j].made /\ x.state = "waiting"
    BY <1>1, <2>4 DEF Job, JobState
  <2>6. QueueOK'
    BY <1>1, <1>2, <1>3, <2>2, <2>5, RequeueKeeps DEF EntryOK
  <2> QED
    BY <1>1, <2>1, <2>6 DEF RowsOK
<1>6. ASSUME Forget(j) PROVE QueueOK' /\ letterSent' \subseteq Events
  <2>1. NoJob \in Job /\ NoJob.made = 0 /\ NoJob.state = "none"
    BY OutboxAssumptions DEF NoJob, Job, JobState
  <2>2. NoJob.made < MadeBy(j)
    BY <2>1, OutboxAssumptions DEF MadeBy
  <2>3. QueueOK'
    BY <1>2, <1>3, <1>6, <2>1, <2>2, RequeueKeeps DEF Forget
  <2> QED
    BY <1>1, <1>6, <2>3 DEF Forget, database, RowsOK
<1>7. QueueOK' /\ letterSent' \subseteq Events
  BY <1>4, <1>5, <1>6 DEF RowsOK
<1>8. RowsOK' /\ MailsOK' /\ billingMails' = billingMails
  BY <1>1, <1>2, <1>7, RowsAndMailsKeep DEF RowsOK
<1> QED
  BY <1>1, <1>2, <1>3, <1>7, <1>8, WorkersKeep DEF IInv

\* A worker takes a job.
LEMMA TakeKeeps ==
  ASSUME IInv, NEW w \in Workers, NEW j \in JobIds, Take(w, j)
  PROVE  IInv'
<1>1. QueueOK /\ WorkersOK /\ RowsOK /\ MailsOK /\ queue[j] \in Job
        /\ EntryOK(j, queue[j])
  BY DEF IInv, QueueOK
<1> DEFINE x == [queue[j] EXCEPT !.state = "active", !.holder = w]
           q == IF j[1] = "dispatch"
                THEN [pc |-> "claim", job |-> j, left |-> {}]
                ELSE [pc |-> "send", job |-> j, left |-> Recipients]
<1>2. /\ queue[j].state = "waiting" /\ queue[j].stalls <= MaxStalls
      /\ queue' = [queue EXCEPT ![j].state = "active", ![j].holder = w]
      /\ worker' = [worker EXCEPT ![w] = q]
      /\ UNCHANGED <<row, kind, handovers, email, letters, letterSent, batch>>
  BY DEF Take, database
<1>3. RowsOK' /\ MailsOK' /\ Grows /\ billingMails' = billingMails
  BY <1>1, <1>2, RowsAndMailsKeep DEF RowsOK
<1>4. x \in Job /\ x.state = "active" /\ x.stalls = queue[j].stalls
        /\ x.made = queue[j].made
  BY <1>1 DEF Job, JobState
<1>5. queue' = [queue EXCEPT ![j] = x]
  BY <1>1, <1>2 DEF QueueOK
<1>6. EntryOK(j, x)
  BY <1>1, <1>2, <1>4 DEF EntryOK
<1>7. QueueOK'
  BY <1>1, <1>3, <1>4, <1>5, <1>6, QueueSet
<1>8. j[1] \in {"dispatch", "notify"}
  BY JobParts
<1>9. q \in Worker /\ q.pc \in {"claim", "send"} /\ q.job = j
        /\ (q.pc = "claim" <=> j[1] = "dispatch")
  BY <1>8 DEF Worker, WorkerPc
<1>10. WorkerOK(q)
  BY <1>1, <1>2, <1>8, <1>9 DEF WorkerOK, PastClaim, EntryOK
<1>11. \A v \in Workers \ {w} : Apart(q, worker[v])
  BY <1>9 DEF Apart, PastClaim
<1> QED
  BY <1>1, <1>2, <1>3, <1>7, <1>9, <1>10, <1>11, WorkerSet DEF IInv

\* The job a worker runs, and what is known of it.
LEMMA OwnJob ==
  ASSUME IInv, NEW w \in Workers, worker[w].pc # "idle"
  PROVE  /\ worker[w] \in Worker /\ WorkerOK(worker[w])
         /\ worker[w].job \in JobIds /\ worker[w].job[2] \in Events
         /\ worker[w].job[1] = "dispatch" \/ worker[w].job[2] \in Announced
<1>1. worker[w] \in Worker /\ WorkerOK(worker[w])
  BY DEF IInv, WorkersOK
<1>2. worker[w].job \in JobIds
  BY <1>1 DEF WorkerOK
<1> QED
  BY <1>1, <1>2, JobParts DEF WorkerOK

\* A handler that throws: the job is tried again, has failed, or is not the
\* worker's any more.
LEMMA ThrowsKeeps ==
  ASSUME IInv, NEW w \in Workers, worker[w].pc # "idle", Throws(w), Grows
  PROVE  QueueOK' /\ letterSent' \subseteq Events
           /\ worker' = [worker EXCEPT ![w] = Resting]
<1> DEFINE j == worker[w].job
           made == queue[j].made + 1
           x == [queue[j] EXCEPT !.state = "waiting", !.made = made,
                                 !.holder = Null]
<1>1. QueueOK /\ RowsOK /\ j \in JobIds
        /\ (j[1] = "dispatch" \/ j[2] \in Announced)
        /\ worker' = [worker EXCEPT ![w] = Resting]
  BY OwnJob DEF IInv, Throws
<1>2. queue[j] \in Job
  BY <1>1 DEF QueueOK
<1>3. CASE queue' = queue /\ letterSent' = letterSent
  BY <1>1, <1>3, QueueKeeps DEF RowsOK
<1>4. CASE Failed(j)
  BY <1>1, <1>4, FailedKeeps
<1>5. CASE /\ ~Exhausted(j, made) /\ letterSent' = letterSent
           /\ queue' = [queue EXCEPT ![j].state = "waiting", ![j].made = made,
                                     ![j].holder = Null]
  <2>1. queue' = [queue EXCEPT ![j] = x]
    BY <1>1, <1>5 DEF QueueOK
  <2>2. made \in Nat /\ MadeBy(j) \in Nat
    BY <1>2, OutboxAssumptions DEF Job, MadeBy
  <2>3. made < MadeBy(j)
    BY <1>5, <2>2 DEF Exhausted
  <2>4. x \in Job /\ x.state = "waiting" /\ x.made = made
    BY <1>2, <2>2 DEF Job, JobState
  <2>5. QueueOK'
    BY <1>1, <2>1, <2>3, <2>4, RequeueKeeps
  <2> QED
    BY <1>1, <1>5, <2>5 DEF RowsOK
<1> QED
  BY <1>1, <1>3, <1>4, <1>5 DEF Throws

\* A worker fails or dies; nothing went out.
LEMMA FailuresKeep ==
  ASSUME IInv, NEW w \in Workers,
         \/ Crash(w) \/ ClaimRollsBack(w) \/ AfterCommitFails(w)
         \/ \E r \in Recipients : SendFails(w, r) /\ UNCHANGED <<accepted, mails>>
  PROVE  IInv'
<1>1. QueueOK /\ WorkersOK /\ RowsOK /\ MailsOK
  BY DEF IInv
<1>2. /\ UNCHANGED <<row, kind, handovers, email>> /\ worker[w].pc # "idle"
      /\ letters' = letters /\ batch' = batch
  BY DEF Crash, ClaimRollsBack, AfterCommitFails, SendFails, database, email
<1>3. Grows
  BY <1>2 DEF Grows, Processed, Announced
<1>4. QueueOK' /\ letterSent' \subseteq Events
        /\ worker' = [worker EXCEPT ![w] = Resting]
  <2>1. CASE Crash(w)
    BY <1>1, <1>3, <2>1, QueueKeeps DEF Crash, database, RowsOK
  <2>2. CASE Throws(w)
    BY <1>2, <1>3, <2>2, ThrowsKeeps
  <2> QED
    BY <2>1, <2>2 DEF ClaimRollsBack, AfterCommitFails, SendFails
<1>5. RowsOK' /\ MailsOK' /\ billingMails' = billingMails
  BY <1>1, <1>2, <1>4, RowsAndMailsKeep DEF RowsOK
<1> QED
  BY <1>1, <1>3, <1>4, <1>5, WorkerRests DEF IInv

\* A handler returns, with the lock on its job or without.
LEMMA FinishKeeps ==
  ASSUME IInv, NEW w \in Workers, Finish(w)
  PROVE  IInv'
<1> DEFINE j == worker[w].job
           x == [NoJob EXCEPT !.state = "completed"]
<1>1. QueueOK /\ WorkersOK /\ RowsOK /\ MailsOK
  BY DEF IInv
<1>2. /\ UNCHANGED <<row, kind, handovers, email, letters, letterSent, batch>>
      /\ worker[w].pc # "idle" /\ worker' = [worker EXCEPT ![w] = Resting]
      /\ \/ queue' = queue
         \/ queue' = [queue EXCEPT ![j] = x]
  BY DEF Finish, database
<1>3. RowsOK' /\ MailsOK' /\ Grows /\ billingMails' = billingMails
  BY <1>1, <1>2, RowsAndMailsKeep DEF RowsOK
<1>4. x \in Job /\ x.made = 0 /\ x.state = "completed"
  BY OutboxAssumptions DEF NoJob, Job, JobState
<1>5. x.made < MadeBy(j)
  BY <1>4, OutboxAssumptions DEF MadeBy
<1>6. j \in JobIds /\ (j[1] = "dispatch" \/ j[2] \in Announced)
  BY <1>2, OwnJob
<1>7. QueueOK'
  <2>1. CASE queue' = queue
    BY <1>1, <1>3, <2>1, QueueKeeps
  <2>2. CASE queue' = [queue EXCEPT ![j] = x]
    BY <1>3, <1>4, <1>5, <1>6, <2>2, RequeueKeeps
  <2> QED
    BY <1>2, <2>1, <2>2
<1> QED
  BY <1>1, <1>2, <1>3, <1>7, WorkerRests DEF IInv

\* The claim: the row decides which of two workers goes on.
LEMMA ClaimKeeps ==
  ASSUME IInv, NEW w \in Workers, Claim(w)
  PROVE  IInv'
<1> DEFINE e == worker[w].job[2]
<1>1. QueueOK /\ WorkersOK /\ RowsOK /\ MailsOK /\ worker[w].pc = "claim"
  BY DEF IInv, Claim
<1>2. /\ worker[w] \in Worker /\ worker[w].job \in JobIds /\ e \in Events
      /\ worker[w].job[1] = "dispatch"
  BY <1>1, OwnJob DEF WorkerOK
<1>3. UNCHANGED <<kind, letters, letterSent, queue, batch, email>>
  BY DEF Claim
<1>4. CASE row[e] = "pending"
  <2> DEFINE q == [worker[w] EXCEPT !.pc = "afterCommit"]
  <2>1. /\ row' = [row EXCEPT ![e] = "processed"]
        /\ worker' = [worker EXCEPT ![w].pc = "afterCommit"]
        /\ handovers' = [handovers EXCEPT ![e] = handovers[e] + 1]
    BY <1>4 DEF Claim
  <2>2. Processed' = Processed \cup {e} /\ e \notin Processed
    BY <1>1, <1>2, <1>4, <2>1 DEF RowsOK, Processed
  <2>3. Grows
    BY <1>3, <2>2 DEF Grows, Announced
  <2>4. RowsOK'
    <3>1. handovers[e] = 0
      BY <1>1, <1>2, <1>4 DEF RowsOK
    <3>2. handovers' = [f \in Events |-> IF row'[f] = "processed" THEN 1 ELSE 0]
      BY <1>1, <1>2, <2>1, <3>1 DEF RowsOK
    <3> QED
      BY <1>1, <1>2, <1>3, <2>1, <3>2 DEF RowsOK
  <2>5. MailsOK' /\ billingMails[e] = 0
    BY <1>1, <1>2, <1>3, <2>2 DEF MailsOK, email
  <2>6. q \in Worker /\ q.pc = "afterCommit" /\ q.job = worker[w].job
    BY <1>2 DEF Worker, WorkerPc
  <2>7. worker' \in [Workers -> Worker] /\ worker'[w] = q
          /\ \A v \in Workers \ {w} : worker'[v] = worker[v]
    BY <1>1, <2>1, <2>6 DEF WorkersOK
  <2>8. \A v \in Workers \ {w} : WorkerOK(worker[v])'
    <3>1. \A v \in Workers : WorkerOK(worker[v])
      BY <1>1 DEF WorkersOK
    <3> QED
      BY <1>3, <2>2, <2>3, <2>7, <3>1 DEF WorkerOK, Grows, email
  <2>9. WorkerOK(worker[w])'
    BY <1>2, <1>3, <2>2, <2>5, <2>6, <2>7 DEF WorkerOK, PastClaim, email
  <2>10. \A v \in Workers \ {w} : ~(worker[v].pc \in PastClaim /\ worker[v].job[2] = e)
    BY <1>1, <2>2 DEF WorkersOK, WorkerOK
  <2>11. ASSUME NEW u \in Workers, NEW v \in Workers, u # v
         PROVE  Apart(worker[u], worker[v])'
    <3>1. CASE u = w
      BY <2>6, <2>7, <2>10, <2>11, <3>1 DEF Apart
    <3>2. CASE v = w
      BY <2>6, <2>7, <2>10, <2>11, <3>2 DEF Apart
    <3>3. CASE u # w /\ v # w
      BY <1>1, <2>7, <2>11, <3>3 DEF WorkersOK, Apart
    <3> QED
      BY <3>1, <3>2, <3>3
  <2>12. WorkersOK'
    BY <2>7, <2>8, <2>9, <2>11 DEF WorkersOK
  <2> QED
    BY <1>1, <1>3, <2>3, <2>4, <2>5, <2>12, QueueKeeps DEF IInv
<1>5. CASE row[e] # "pending"
  <2> DEFINE q == [worker[w] EXCEPT !.pc = "finish"]
  <2>1. UNCHANGED <<row, handovers>> /\ worker' = [worker EXCEPT ![w].pc = "finish"]
    BY <1>5 DEF Claim
  <2>2. RowsOK' /\ MailsOK' /\ Grows /\ billingMails' = billingMails
    BY <1>1, <1>3, <2>1, RowsAndMailsKeep DEF RowsOK
  <2>3. q \in Worker /\ q.pc = "finish" /\ q.job = worker[w].job
    BY <1>2 DEF Worker, WorkerPc
  <2>4. WorkerOK(q)
    BY <1>2, <2>3 DEF WorkerOK, PastClaim
  <2>5. \A v \in Workers \ {w} : Apart(q, worker[v])
    BY <2>3 DEF Apart, PastClaim
  <2>6. worker' = [worker EXCEPT ![w] = q]
    BY <1>1, <2>1 DEF WorkersOK
  <2> QED
    BY <1>1, <1>3, <2>2, <2>3, <2>4, <2>5, <2>6, WorkerSet, QueueKeeps DEF IInv
<1> QED
  BY <1>4, <1>5

\* The notification job is queued: its event is processed.
LEMMA AfterCommitKeeps ==
  ASSUME IInv, NEW w \in Workers, AfterCommit(w)
  PROVE  IInv'
<1> DEFINE e == worker[w].job[2]
           j == <<"notify", e>>
           x == [NoJob EXCEPT !.state = "waiting"]
           pc == IF kind[e] = "billing" THEN "billing" ELSE "finish"
           q == [worker[w] EXCEPT !.pc = pc]
<1>1. QueueOK /\ WorkersOK /\ RowsOK /\ MailsOK /\ worker[w].pc = "afterCommit"
  BY DEF IInv, AfterCommit
<1>2. /\ UNCHANGED <<row, kind, handovers, email, letters, letterSent, batch>>
      /\ worker' = [worker EXCEPT ![w].pc = pc]
      /\ \/ queue' = queue
         \/ queue' = Add(queue, j) /\ kind[e] = "notification"
  BY DEF AfterCommit, database
<1>3. RowsOK' /\ MailsOK' /\ Grows /\ billingMails' = billingMails
  BY <1>1, <1>2, RowsAndMailsKeep DEF RowsOK
<1>4. /\ worker[w] \in Worker /\ WorkerOK(worker[w]) /\ e \in Events
      /\ e \in Processed
  BY <1>1, OwnJob DEF WorkerOK, PastClaim
<1>5. QueueOK'
  <2>1. j \in JobIds /\ j[1] = "notify" /\ j[2] = e
    BY <1>4 DEF JobIds
  <2>2. x \in Job /\ x.made = 0 /\ x.state = "waiting"
    BY OutboxAssumptions DEF NoJob, Job, JobState
  <2>3. x.made < MadeBy(j)
    BY <2>2, OutboxAssumptions DEF MadeBy
  <2>4. CASE queue' = queue
    BY <1>1, <1>3, <2>4, QueueKeeps
  <2>5. CASE queue' = [queue EXCEPT ![j] = x] /\ kind[e] = "notification"
    <3>1. e \in Announced
      BY <1>4, <2>5 DEF Announced
    <3> QED
      BY <1>3, <2>1, <2>2, <2>3, <2>5, <3>1, RequeueKeeps
  <2> QED
    BY <1>2, <2>4, <2>5 DEF Add
<1>6. q \in Worker /\ q.pc \in {"billing", "finish"} /\ q.job = worker[w].job
  BY <1>4 DEF Worker, WorkerPc
<1>7. WorkerOK(q)
  BY <1>1, <1>4, <1>6 DEF WorkerOK, PastClaim
<1>8. \A v \in Workers \ {w} : Apart(q, worker[v])
  BY <1>1, <1>6 DEF WorkersOK, Apart, PastClaim
<1>9. worker' = [worker EXCEPT ![w] = q]
  BY <1>1, <1>2 DEF WorkersOK
<1> QED
  BY <1>1, <1>3, <1>5, <1>6, <1>7, <1>8, <1>9, WorkerSet DEF IInv

\* The one worker past the claim of an event mails once.
LEMMA BillingMailKeeps ==
  ASSUME IInv, NEW w \in Workers, BillingMail(w)
  PROVE  IInv'
<1> DEFINE e == worker[w].job[2]
           q == [worker[w] EXCEPT !.pc = "finish"]
<1>1. QueueOK /\ WorkersOK /\ RowsOK /\ MailsOK /\ worker[w].pc = "billing"
  BY DEF IInv, BillingMail
<1>2. PICK sent \in {0, 1} :
        billingMails' = [billingMails EXCEPT ![e] = billingMails[e] + sent]
  BY DEF BillingMail
<1>3. /\ UNCHANGED <<row, kind, letters, letterSent, queue, batch, handovers,
                     accepted, mails>>
      /\ worker' = [worker EXCEPT ![w].pc = "finish"]
  BY DEF BillingMail, database
<1>4. /\ worker[w] \in Worker /\ WorkerOK(worker[w]) /\ e \in Events
      /\ e \in Processed /\ billingMails[e] = 0
  BY <1>1, OwnJob DEF WorkerOK, PastClaim
<1>5. Processed' = Processed
  BY <1>3 DEF Processed
<1>6. Grows
  BY <1>3, <1>5 DEF Grows, Announced
<1>7. RowsOK'
  BY <1>1, <1>3 DEF RowsOK
<1>8. billingMails' \in [Events -> {0, 1}]
        /\ \A f \in Events \ {e} : billingMails'[f] = billingMails[f]
  BY <1>1, <1>2, <1>4 DEF MailsOK
<1>9. MailsOK'
  BY <1>1, <1>3, <1>4, <1>5, <1>8 DEF MailsOK
<1>10. q \in Worker /\ q.pc = "finish" /\ q.job = worker[w].job
  BY <1>4 DEF Worker, WorkerPc
<1>11. WorkerOK(q)
  BY <1>1, <1>4, <1>10 DEF WorkerOK, PastClaim
<1>12. \A v \in Workers \ {w} : Apart(q, worker[v])
  BY <1>10 DEF Apart, PastClaim
<1>13. worker' = [worker EXCEPT ![w] = q]
  BY <1>1, <1>3 DEF WorkersOK
<1>14. ASSUME NEW v \in Workers \ {w}, worker[v].pc \in PastClaim
       PROVE  billingMails'[worker[v].job[2]] = billingMails[worker[v].job[2]]
  <2>1. worker[v].job[2] # e
    BY <1>1, <1>14 DEF WorkersOK, Apart, PastClaim
  <2>2. worker[v].pc # "idle"
    BY <1>14 DEF PastClaim
  <2>3. worker[v].job[2] \in Events
    BY <2>2, OwnJob
  <2> QED
    BY <1>8, <2>1, <2>3
<1>15. q.pc \notin PastClaim
  BY <1>10 DEF PastClaim
<1>16. WorkersOK'
  BY <1>1, <1>6, <1>10, <1>11, <1>12, <1>13, <1>14, <1>15, WorkerSet
<1> QED
  BY <1>1, <1>3, <1>6, <1>7, <1>9, <1>16, QueueKeeps DEF IInv

\* The provider sends a mail it has no key of.
LEMMA DeliverKeeps ==
  ASSUME IInv, NEW j \in JobIds, NEW r \in Recipients, j[2] \in Processed,
         Deliver(j, r), row' = row, billingMails' = billingMails
  PROVE  MailsOK'
<1> DEFINE e == j[2]
           m == <<e, r>>
<1>1. MailsOK /\ e \in Events /\ m \in Events \X Recipients
        /\ Processed' = Processed
  BY JobParts DEF IInv, Processed
<1>2. accepted' = accepted \cup {m}
        /\ mails' = [mails EXCEPT ![m] = IF m \in accepted THEN mails[m]
                                                          ELSE mails[m] + 1]
  BY DEF Deliver, IdempotencyKey
<1>3. m \notin accepted => mails[m] = 0
  BY <1>1 DEF MailsOK
<1>4. mails[m] \in {0, 1}
  BY <1>1 DEF MailsOK
<1>5. mails' \in [Events \X Recipients -> {0, 1}]
        /\ \A o \in Events \X Recipients : o # m => mails'[o] = mails[o]
  BY <1>1, <1>2, <1>3, <1>4 DEF MailsOK
<1>6. ASSUME NEW f \in Events, NEW s \in Recipients, mails'[<<f, s>>] # 0
      PROVE  <<f, s>> \in accepted' /\ f \in Processed'
  <2>1. CASE <<f, s>> = m
    BY <1>1, <1>2, <2>1
  <2>2. CASE <<f, s>> # m
    BY <1>1, <1>2, <1>5, <1>6, <2>2 DEF MailsOK
  <2> QED
    BY <2>1, <2>2
<1> QED
  BY <1>1, <1>5, <1>6 DEF MailsOK

\* A mail is sent to one recipient.
LEMMA SendKeeps ==
  ASSUME IInv, NEW w \in Workers, NEW r \in Recipients, Send(w, r)
  PROVE  IInv'
<1> DEFINE left == worker[w].left \ {r}
           q == [worker[w] EXCEPT !.left = left,
                   !.pc = IF left = {} THEN "finish" ELSE "send"]
<1>1. QueueOK /\ WorkersOK /\ RowsOK /\ MailsOK /\ worker[w].pc = "send"
  BY DEF IInv, Send
<1>2. /\ UNCHANGED <<row, kind, letters, letterSent, queue, batch, handovers,
                     billingMails>>
      /\ Deliver(worker[w].job, r)
      /\ worker' = [worker EXCEPT ![w].left = left,
                      ![w].pc = IF left = {} THEN "finish" ELSE "send"]
  BY DEF Send, database
<1>3. /\ worker[w] \in Worker /\ WorkerOK(worker[w])
      /\ worker[w].job \in JobIds /\ worker[w].job[2] \in Processed
  BY <1>1, OwnJob DEF WorkerOK, Announced
<1>4. Grows
  BY <1>2 DEF Grows, Processed, Announced
<1>5. RowsOK' /\ MailsOK'
  BY <1>1, <1>2, <1>3, DeliverKeeps DEF RowsOK
<1>6. q \in Worker /\ q.pc \in {"send", "finish"} /\ q.job = worker[w].job
  BY <1>3 DEF Worker, WorkerPc
<1>7. WorkerOK(q)
  BY <1>1, <1>3, <1>6 DEF WorkerOK, PastClaim
<1>8. \A v \in Workers \ {w} : Apart(q, worker[v])
  BY <1>6 DEF Apart, PastClaim
<1>9. worker' = [worker EXCEPT ![w] = q]
  BY <1>1, <1>2 DEF WorkersOK
<1> QED
  BY <1>1, <1>2, <1>4, <1>5, <1>6, <1>7, <1>8, <1>9, WorkerSet, QueueKeeps
     DEF IInv

\* A send that fails may have been delivered all the same.
LEMMA SendFailsKeeps ==
  ASSUME IInv, NEW w \in Workers, NEW r \in Recipients, SendFails(w, r)
  PROVE  IInv'
<1>1. QueueOK /\ WorkersOK /\ RowsOK /\ MailsOK /\ worker[w].pc = "send"
  BY DEF IInv, SendFails
<1>2. CASE UNCHANGED <<accepted, mails>>
  BY <1>2, FailuresKeep
<1>3. CASE Deliver(worker[w].job, r)
  <2>1. UNCHANGED <<row, kind, letters, batch, handovers, billingMails>>
          /\ Throws(w)
    BY DEF SendFails
  <2>2. Grows
    BY <2>1 DEF Grows, Processed, Announced
  <2>3. QueueOK' /\ letterSent' \subseteq Events
          /\ worker' = [worker EXCEPT ![w] = Resting]
    BY <1>1, <2>1, <2>2, ThrowsKeeps
  <2>4. worker[w].job \in JobIds /\ worker[w].job[2] \in Processed
    BY <1>1, OwnJob DEF WorkerOK, Announced
  <2>5. RowsOK' /\ MailsOK'
    BY <1>1, <1>3, <2>1, <2>3, <2>4, DeliverKeeps DEF RowsOK
  <2> QED
    BY <1>1, <2>1, <2>2, <2>3, <2>5, WorkerRests DEF IInv
<1> QED
  BY <1>2, <1>3 DEF SendFails

-----------------------------------------------------------------------------
(* The theorems.                                                           *)

\* The invariant is inductive.
LEMMA Inductive == IInv /\ [Next]_vars => IInv'
<1> SUFFICES ASSUME IInv, [Next]_vars PROVE IInv'
    OBVIOUS
<1>1. CASE UNCHANGED vars
  <2>1. UNCHANGED <<row, kind, letters, letterSent, queue, batch, worker,
                    handovers, email>>
    BY <1>1 DEF vars, database
  <2>2. RowsOK' /\ MailsOK' /\ Grows /\ billingMails' = billingMails
    BY <2>1, RowsAndMailsKeep DEF IInv, RowsOK
  <2> QED
    BY <2>1, <2>2, QueueKeeps, WorkersKeep DEF IInv
<1>2. ASSUME NEW e \in Events, Emit(e) \/ PollAdd(e) PROVE IInv'
  BY <1>2, PollerKeeps
<1>3. CASE Poll \/ PollFails
  BY <1>3, PollerKeeps
<1>4. ASSUME NEW w \in Workers, Work(w) \/ Crash(w) PROVE IInv'
  BY <1>4, FailuresKeep, FinishKeeps, ClaimKeeps, AfterCommitKeeps,
     BillingMailKeeps, SendKeeps, SendFailsKeeps DEF Work
<1> QED
  BY <1>1, <1>2, <1>3, <1>4, LettersKeep, QueueStepsKeep, TakeKeeps DEF Next

\* It holds in every state.
LEMMA Invariant == Spec => []IInv
  BY InitIInv, Inductive, PTL DEF Spec

\* Every variable keeps its type: no job is tried more often than its limit
\* allows, or counted as stalled beyond it.
THEOREM TypeCorrect == Spec => []TypeOK
<1>1. IInv => TypeOK
  BY IInvMeans
<1> QED
  BY Invariant, <1>1, PTL

\* What follows the commit of a claim happens at most once for an event,
\* whatever is retried, stalls or crashes.
THEOREM HandedOverOnceHolds == Spec => []HandedOverOnce
<1>1. IInv => HandedOverOnce
  BY IInvMeans
<1> QED
  BY Invariant, <1>1, PTL

\* Nobody is mailed twice about an event.
THEOREM NoDuplicateMailHolds == Spec => []NoDuplicateMail
<1>1. IInv => NoDuplicateMail
  BY IInvMeans
<1> QED
  BY Invariant, <1>1, PTL

\* Mail goes out only for events whose claim is committed.
THEOREM MailsAreCommittedHolds == Spec => []MailsAreCommitted
<1>1. IInv => MailsAreCommitted
  BY IInvMeans
<1> QED
  BY Invariant, <1>1, PTL

-----------------------------------------------------------------------------
(* Outbox implements EventMail.                                            *)

\* What EventMail speaks of.
MailView == <<row, kind, mails, billingMails>>

\* A send reaches a recipient who was not mailed yet, or nobody.
LEMMA DeliverMails ==
  ASSUME IInv, NEW j \in JobIds, NEW r \in Recipients, j[2] \in Announced,
         Deliver(j, r), UNCHANGED <<row, kind, billingMails>>
  PROVE  MailContract!Mail(j[2], r) \/ UNCHANGED MailView
<1> DEFINE e == j[2]
           m == <<e, r>>
<1>1. MailsOK /\ e \in Events /\ m \in Events \X Recipients
  BY JobParts DEF IInv
<1>2. row[e] = "processed" /\ kind[e] = "notification"
  BY DEF Announced, Processed
<1>3. CASE m \in accepted
  <2>1. mails' = [mails EXCEPT ![m] = mails[m]]
    BY <1>3 DEF Deliver, IdempotencyKey
  <2>2. mails' = mails
    BY <1>1, <2>1 DEF MailsOK
  <2> QED
    BY <2>2 DEF MailView
<1>4. CASE m \notin accepted
  <2>1. mails' = [mails EXCEPT ![m] = mails[m] + 1]
    BY <1>4 DEF Deliver, IdempotencyKey
  <2>2. mails[m] = 0
    BY <1>1, <1>4 DEF MailsOK
  <2> QED
    BY <1>2, <2>1, <2>2 DEF MailContract!Mail
<1> QED
  BY <1>3, <1>4

\* The step of a worker is one of EventMail's or none of it.
LEMMA WorkIsMail ==
  ASSUME IInv, NEW w \in Workers, Work(w) \/ Crash(w)
  PROVE  MailContract!Next \/ UNCHANGED MailView
<1>1. RowsOK /\ MailsOK
  BY DEF IInv
<1>2. CASE \/ Crash(w) \/ ClaimRollsBack(w) \/ AfterCommit(w)
           \/ AfterCommitFails(w) \/ Finish(w)
  BY <1>2 DEF Crash, ClaimRollsBack, AfterCommit, AfterCommitFails, Finish,
              database, email, MailView
<1>3. CASE Claim(w)
  <2> DEFINE e == worker[w].job[2]
  <2>1. e \in Events
    BY <1>3, OwnJob DEF Claim
  <2>2. UNCHANGED <<kind, mails, billingMails>>
    BY <1>3 DEF Claim, email
  <2>3. CASE row[e] = "pending"
    <3>1. MailContract!Process(e)
      BY <1>3, <2>2, <2>3 DEF Claim, MailContract!Process
    <3> QED
      BY <2>1, <3>1 DEF MailContract!Next
  <2>4. CASE row[e] # "pending"
    BY <1>3, <2>2, <2>4 DEF Claim, MailView
  <2> QED
    BY <2>3, <2>4
<1>4. CASE BillingMail(w)
  <2> DEFINE e == worker[w].job[2]
  <2>1. /\ e \in Events /\ e \in Processed
        /\ billingMails[e] = 0 /\ kind[e] = "billing"
    BY <1>4, OwnJob DEF BillingMail, WorkerOK, PastClaim
  <2>2. PICK sent \in {0, 1} :
          billingMails' = [billingMails EXCEPT ![e] = billingMails[e] + sent]
    BY <1>4 DEF BillingMail
  <2>3. UNCHANGED <<row, kind, mails>>
    BY <1>4 DEF BillingMail, database
  <2>4. CASE sent = 0
    <3>1. billingMails' = billingMails
      BY <1>1, <2>1, <2>2, <2>4 DEF MailsOK
    <3> QED
      BY <2>3, <3>1 DEF MailView
  <2>5. CASE sent = 1
    <3>1. MailContract!MailBilling(e)
      BY <2>1, <2>2, <2>3, <2>5 DEF MailContract!MailBilling, Processed
    <3> QED
      BY <2>1, <3>1 DEF MailContract!Next
  <2> QED
    BY <2>4, <2>5
<1>5. ASSUME NEW r \in Recipients, Send(w, r) \/ SendFails(w, r)
      PROVE  MailContract!Next \/ UNCHANGED MailView
  <2>1. UNCHANGED <<row, kind, billingMails>> /\ worker[w].pc = "send"
    BY <1>5 DEF Send, SendFails, database
  <2>2. worker[w].job \in JobIds /\ worker[w].job[2] \in Events
          /\ worker[w].job[2] \in Announced
    BY <2>1, OwnJob DEF WorkerOK
  <2>3. CASE Deliver(worker[w].job, r)
    BY <2>1, <2>2, <2>3, DeliverMails DEF MailContract!Next
  <2>4. CASE UNCHANGED <<accepted, mails>>
    BY <2>1, <2>4 DEF MailView
  <2> QED
    BY <1>5, <2>3, <2>4 DEF Send, SendFails
<1> QED
  BY <1>2, <1>3, <1>4, <1>5 DEF Work

\* So is every step.
LEMMA StepIsMail ==
  IInv /\ [Next]_vars => [MailContract!Next]_(MailContract!mailVars)
<1> SUFFICES ASSUME IInv, [Next]_vars
             PROVE  MailContract!Next \/ UNCHANGED MailView
    BY DEF MailContract!mailVars, MailView
<1>1. CASE UNCHANGED vars
  BY <1>1 DEF vars, database, email, MailView
<1>2. ASSUME NEW e \in Events, Emit(e) PROVE MailContract!Next
  <2>1. MailContract!Commit(e)
    BY <1>2 DEF Emit, email, MailContract!Commit
  <2> QED
    BY <2>1 DEF MailContract!Next
<1>3. CASE \/ Poll \/ PollFails
           \/ \E e \in Events : PollAdd(e) \/ InsertLetter(e) \/ LoseLetter(e)
  BY <1>3 DEF Poll, PollFails, PollAdd, InsertLetter, LoseLetter, database,
              email, MailView
<1>4. ASSUME NEW j \in JobIds,
             \/ FailStalled(j) \/ Stall(j) \/ Forget(j)
             \/ \E w \in Workers : Take(w, j)
      PROVE  UNCHANGED MailView
  BY <1>4 DEF FailStalled, Stall, Forget, Take, database, email, MailView
<1>5. ASSUME NEW w \in Workers, Work(w) \/ Crash(w)
      PROVE  MailContract!Next \/ UNCHANGED MailView
  BY <1>5, WorkIsMail
<1> QED
  BY <1>1, <1>2, <1>3, <1>4, <1>5 DEF Next

\* Outbox implements EventMail: whatever is retried, stalls, crashes or fails
\* half-way, mail goes out as if each event were claimed once and each of its
\* mails sent once, after the claim.
THEOREM ImplementsMail == Spec => MailSpec
<1>1. Init => MailContract!Init
  BY DEF Init, MailContract!Init
<1>2. IInv /\ [Next]_vars => [MailContract!Next]_(MailContract!mailVars)
  BY StepIsMail
<1> QED
  BY Invariant, <1>1, <1>2, PTL DEF Spec, MailSpec, MailContract!Spec
=============================================================================
