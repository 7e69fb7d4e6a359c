------------------------- MODULE JobLifecycleProofs -------------------------
(***************************************************************************)
(* Proofs about JobLifecycle, for any number of jobs, subscriptions,       *)
(* requests, ticks, short ids, attempts and days.                          *)
(*                                                                         *)
(* The inductive invariant IInv adds to the properties what the row lock   *)
(* of transitionJobToPublished buys: a request about to write the publish  *)
(* holds its job's lock, and the job is still publishable, because every   *)
(* other writer waits for the lock.                                        *)
(***************************************************************************)
EXTENDS JobLifecycle, FiniteSetTheorems, TLAPS

\* A request past its first read has a job, except one about to insert it.
JobKnown ==
  \A r \in Requests : req[r].pc \notin {"idle", "insert"} => req[r].job \in Jobs

\* An open publish transaction holds the lock of its job, which it found
\* publishable.
LockProtects ==
  \A r \in Requests :
    req[r].pc = "publishWrite" => /\ rowLock[req[r].job] = r
                                  /\ status[req[r].job] \in PublishableStatuses

IInv == TypeOK /\ JobKnown /\ LockProtects /\ OutboxMirrorsStatus

-----------------------------------------------------------------------------
(* The building blocks preserve types.                                     *)

\* What Idle is: a well-typed request that waits for work.
LEMMA IdleType == Idle \in RequestState
BY DEF Idle, RequestPc, RequestState

\* The initial state satisfies the inductive invariant.
LEMMA InitIInv == Init => IInv
<1> SUFFICES ASSUME Init PROVE IInv
    OBVIOUS
<1>1. TypeOK
  BY JobAssumptions, IdleType
     DEF Init, TypeOK, JobStatus, SubStatus, Time, TickState, TickPc, At
<1>2. JobKnown
  BY DEF Init, JobKnown, Idle
<1>3. LockProtects
  BY DEF Init, LockProtects, Idle
<1>4. OutboxMirrorsStatus
  BY DEF Init, OutboxMirrorsStatus
<1> QED
  BY <1>1, <1>2, <1>3, <1>4 DEF IInv

\* The state of one request moves, not into an open publish transaction, and
\* nothing else changes.
LocalMove(r) ==
  /\ UNCHANGED tables
  /\ \E q \in RequestState :
       /\ req' = [req EXCEPT ![r] = q]
       /\ q.pc # "publishWrite"
       /\ q.pc \notin {"idle", "insert"} => q.job \in Jobs

\* Such a move preserves the inductive invariant.
LEMMA LocalStep ==
  ASSUME IInv, NEW r \in Requests, LocalMove(r)
  PROVE  IInv'
<1>1. PICK q \in RequestState :
        /\ req' = [req EXCEPT ![r] = q]
        /\ q.pc # "publishWrite"
        /\ q.pc \notin {"idle", "insert"} => q.job \in Jobs
  BY DEF LocalMove
<1>2. UNCHANGED tables
  BY DEF LocalMove
<1>3. TypeOK'
  BY <1>1, <1>2 DEF IInv, TypeOK, tables, jobRow, outbox
<1>4. JobKnown'
  BY <1>1 DEF IInv, JobKnown, TypeOK
<1>5. LockProtects'
  BY <1>1, <1>2 DEF IInv, LockProtects, TypeOK, tables, jobRow
<1>6. OutboxMirrorsStatus'
  BY <1>2 DEF IInv, OutboxMirrorsStatus, tables, jobRow, outbox
<1> QED
  BY <1>3, <1>4, <1>5, <1>6 DEF IInv

\* A first read is such a move.
LEMMA StartIsLocal ==
  ASSUME IInv, NEW r \in Requests, StartRequest(r)
  PROVE  LocalMove(r)
<1>1. UNCHANGED tables
  BY DEF StartRequest, CreateResolve, SubmitRead, EmployerEditRead,
         StaffEditRead, RejectRead, UnpublishRead, ForceArchiveRead,
         ApproveRead, PublishDirectlyRead, PublishEnterpriseRead, Begin,
         PublishBegin
<1>2. CASE CreateResolve(r)
  <2>1. PICK s \in Subs :
          req' = [req EXCEPT ![r] = [Idle EXCEPT !.pc = "insert", !.sub = s]]
    BY <1>2 DEF CreateResolve
  <2>2. [Idle EXCEPT !.pc = "insert", !.sub = s] \in RequestState
    BY DEF Idle, RequestState, RequestPc
  <2> QED
    BY <1>1, <2>1, <2>2 DEF Idle, LocalMove
<1>3. ASSUME NEW j \in Jobs, NEW from, NEW next \in RequestPc,
             Begin(r, j, from, next), next # "publishWrite"
      PROVE  LocalMove(r)
  <2> DEFINE q == [Idle EXCEPT !.pc = next, !.job = j,
                               !.sub = subscriptionId[j]]
  <2>1. q \in RequestState
    BY DEF Idle, RequestState, RequestPc, IInv, TypeOK
  <2>2. q.pc = next /\ q.job = j
    BY DEF Idle
  <2> QED
    BY <1>1, <1>3, <2>1, <2>2 DEF Begin, LocalMove
<1>4. ASSUME NEW j \in Jobs, NEW from, NEW next \in RequestPc,
             PublishBegin(r, j, from, next), next # "publishWrite"
      PROVE  LocalMove(r)
  <2> DEFINE q == [Idle EXCEPT !.pc = next, !.job = j, !.at = now]
  <2>1. q \in RequestState
    BY DEF Idle, RequestState, RequestPc, IInv, TypeOK
  <2>2. q.pc = next /\ q.job = j
    BY DEF Idle
  <2> QED
    BY <1>1, <1>4, <2>1, <2>2 DEF PublishBegin, LocalMove
<1> QED
  BY <1>2, <1>3, <1>4
     DEF StartRequest, SubmitRead, EmployerEditRead, StaffEditRead,
         RejectRead, UnpublishRead, ForceArchiveRead, ApproveRead,
         PublishDirectlyRead, PublishEnterpriseRead, RequestPc

\* So is a read that lets the request go on or answers it.
LEMMA CheckIsLocal ==
  ASSUME IInv, NEW r \in Requests,
         \/ SubmitCheckSubscription(r) \/ SubmitCountSlots(r)
         \/ PublishEnterpriseCheck(r) \/ PublishReadShortId(r)
  PROVE  LocalMove(r)
<1>1. UNCHANGED tables
  BY DEF SubmitCheckSubscription, SubmitCountSlots, PublishEnterpriseCheck,
         PublishReadShortId, Check
<1>2. req[r] \in RequestState /\ req[r].job \in Jobs
  BY DEF SubmitCheckSubscription, SubmitCountSlots, PublishEnterpriseCheck,
         PublishReadShortId, Check, IInv, TypeOK, JobKnown
<1>3. CASE req' = [req EXCEPT ![r] = Idle]
  BY <1>1, <1>3, IdleType DEF LocalMove, Idle
<1>4. ASSUME NEW next \in RequestPc, next # "publishWrite",
             req' = [req EXCEPT ![r] = [@ EXCEPT !.pc = next]]
      PROVE  LocalMove(r)
  <2> DEFINE q == [req[r] EXCEPT !.pc = next]
  <2>1. q \in RequestState /\ q.pc = next /\ q.job = req[r].job
    BY <1>2 DEF RequestState
  <2> QED
    BY <1>1, <1>2, <1>4, <2>1 DEF LocalMove
<1>5. CASE PublishReadShortId(r)
  <2> DEFINE q == [req[r] EXCEPT !.pc = "publishLock",
                                 !.shortId = shortId[req[r].job]]
  <2>1. q \in RequestState /\ q.pc = "publishLock" /\ q.job = req[r].job
    BY <1>2 DEF RequestState, RequestPc, IInv, TypeOK
  <2>2. req' = [req EXCEPT ![r] = q]
    BY <1>5 DEF PublishReadShortId, IInv, TypeOK, RequestState
  <2> QED
    BY <1>1, <1>2, <2>1, <2>2 DEF LocalMove
<1> QED
  BY <1>3, <1>4, <1>5
     DEF SubmitCheckSubscription, SubmitCountSlots, PublishEnterpriseCheck,
         Check, RequestPc

-----------------------------------------------------------------------------
(* Steps that write a row.                                                 *)

\* Each event is an event, and none of them stands for a draft.
LEMMA EventFacts ==
  /\ Events = {"job_submitted", "job_published", "job_rejected",
               "job_unpublished", "job_force_archived", "job_expired"}
  /\ EventStatus["job_submitted"] = "submitted"
  /\ EventStatus["job_published"] = "published"
  /\ EventStatus["job_rejected"] = "rejected"
  /\ EventStatus["job_unpublished"] = "archived"
  /\ EventStatus["job_force_archived"] = "archived"
  /\ EventStatus["job_expired"] = "expired"
BY DEF Events, EventStatus

\* An update by id that waits for the row lock disturbs no open publish, and
\* keeps status and event together.
LEMMA WriteStatusStep ==
  ASSUME IInv, NEW r \in Requests, NEW at, at \notin {"idle", "insert"},
         at # "publishWrite",
         NEW to \in JobStatus, NEW event \in Events, EventStatus[event] = to,
         event # Null,
         WriteStatus(r, at, to, event),
         publishedAt' \in [Jobs -> Time], revised' \in [Jobs -> BOOLEAN]
  PROVE  IInv'
<1> DEFINE j == req[r].job
<1>1. j \in Jobs /\ rowLock[j] = Null
  BY DEF WriteStatus, IInv, JobKnown
<1>2. /\ status' = [status EXCEPT ![j] = to]
      /\ lastEvent' = [lastEvent EXCEPT ![j] = event]
      /\ req' = [req EXCEPT ![r] = Idle]
      /\ UNCHANGED <<subscriptionId, shortId, expiresAt,
                     expiringSoonNotified, rowLock, warnings, subStatus,
                     now, tick>>
  BY DEF WriteStatus
<1>3. TypeOK'
  BY <1>1, <1>2, IdleType DEF IInv, TypeOK
<1>4. JobKnown'
  BY <1>2 DEF IInv, TypeOK, JobKnown, Idle
<1>5. LockProtects'
  <2> SUFFICES ASSUME NEW q \in Requests, req'[q].pc = "publishWrite"
               PROVE  /\ rowLock'[req'[q].job] = q
                      /\ status'[req'[q].job] \in PublishableStatuses
      BY DEF LockProtects
  <2>1. q # r /\ req'[q] = req[q]
    BY <1>2 DEF IInv, TypeOK, Idle
  <2>2. /\ rowLock[req[q].job] = q
        /\ status[req[q].job] \in PublishableStatuses
        /\ req[q].job \in Jobs
    BY <2>1 DEF IInv, LockProtects, JobKnown
  <2>3. req[q].job # j
    BY <1>1, <2>2, JobAssumptions
  <2> QED
    BY <1>1, <1>2, <2>1, <2>2, <2>3 DEF IInv, TypeOK
<1>6. OutboxMirrorsStatus'
  BY <1>1, <1>2 DEF IInv, TypeOK, OutboxMirrorsStatus
<1> QED
  BY <1>3, <1>4, <1>5, <1>6 DEF IInv

\* Taking the lock establishes LockProtects for the taker; every other
\* holder holds another row.
LEMMA PublishLockStep ==
  ASSUME IInv, NEW r \in Requests, PublishLock(r)
  PROVE  IInv'
<1> DEFINE j == req[r].job
<1>1. j \in Jobs /\ rowLock[j] = Null /\ req[r] \in RequestState
  BY DEF PublishLock, IInv, JobKnown, TypeOK
<1>2. UNCHANGED <<jobRow, outbox, revised, subStatus, now, tick>>
  BY DEF PublishLock
<1>3. CASE req' = [req EXCEPT ![r] = Idle] /\ UNCHANGED rowLock
  <2>1. LocalMove(r)
    BY <1>2, <1>3, IdleType DEF LocalMove, tables, Idle
  <2> QED
    BY <2>1, LocalStep
<1>4. CASE /\ status[j] \in PublishableStatuses
           /\ rowLock' = [rowLock EXCEPT ![j] = r]
           /\ req' = [req EXCEPT ![r].pc = "publishWrite"]
  <2>1. TypeOK'
    BY <1>1, <1>2, <1>4 DEF IInv, TypeOK, jobRow, outbox, RequestState,
                            RequestPc
  <2>2. JobKnown'
    BY <1>1, <1>4 DEF IInv, JobKnown, TypeOK, RequestState
  <2>3. LockProtects'
    <3> SUFFICES ASSUME NEW q \in Requests, req'[q].pc = "publishWrite"
                 PROVE  /\ rowLock'[req'[q].job] = q
                        /\ status'[req'[q].job] \in PublishableStatuses
        BY DEF LockProtects
    <3>1. CASE q = r
      BY <1>1, <1>2, <1>4, <3>1 DEF IInv, TypeOK, RequestState, jobRow
    <3>2. CASE q # r
      <4>1. /\ req'[q] = req[q] /\ rowLock[req[q].job] = q
            /\ status[req[q].job] \in PublishableStatuses
            /\ req[q].job \in Jobs
        BY <1>4, <3>2 DEF IInv, LockProtects, JobKnown, TypeOK
      <4>2. req[q].job # j
        BY <1>1, <4>1, JobAssumptions
      <4> QED
        BY <1>1, <1>2, <1>4, <4>1, <4>2 DEF IInv, TypeOK, jobRow
    <3> QED
      BY <3>1, <3>2
  <2>4. OutboxMirrorsStatus'
    BY <1>2 DEF IInv, OutboxMirrorsStatus, jobRow, outbox
  <2> QED
    BY <2>1, <2>2, <2>3, <2>4 DEF IInv
<1> QED
  BY <1>3, <1>4 DEF PublishLock

\* A transaction that commits or rolls back gives up its own lock only.
LEMMA OtherHolders ==
  ASSUME IInv, NEW r \in Requests, NEW q \in Requests, q # r,
         req[r].pc = "publishWrite", req[q].pc = "publishWrite"
  PROVE  /\ req[q].job \in Jobs /\ req[r].job \in Jobs
         /\ req[q].job # req[r].job
         /\ rowLock[req[q].job] = q
         /\ status[req[q].job] \in PublishableStatuses
BY DEF IInv, LockProtects, JobKnown

\* The publish transaction commits.
LEMMA PublishCommitStep ==
  ASSUME IInv, NEW r \in Requests, PublishCommit(r)
  PROVE  IInv'
<1> DEFINE j == req[r].job
<1>1. /\ j \in Jobs /\ req[r].pc = "publishWrite" /\ req[r] \in RequestState
      /\ status' = [status EXCEPT ![j] = "published"]
      /\ lastEvent' = [lastEvent EXCEPT ![j] = "job_published"]
      /\ rowLock' = [rowLock EXCEPT ![j] = Null]
      /\ req' = [req EXCEPT ![r] = Idle]
  BY DEF PublishCommit, IInv, JobKnown, TypeOK
<1>2. TypeOK'
  <2>1. PICK id \in ShortIds : shortId' = [shortId EXCEPT ![j] = id]
    BY <1>1 DEF PublishCommit, CandidateIds, RequestState
  <2>2. ComputeJobExpiresAt(expiresAt[j], req[r].at, subscriptionId[j]) \in Time
    BY <1>1, JobAssumptions
       DEF ComputeJobExpiresAt, IInv, TypeOK, Time, RequestState
  <2>3. expiresAt' = [expiresAt EXCEPT ![j] =
           ComputeJobExpiresAt(expiresAt[j], req[r].at, subscriptionId[j])]
    BY DEF PublishCommit
  <2>4. /\ publishedAt' = [publishedAt EXCEPT ![j] = req[r].at]
        /\ revised' = [revised EXCEPT ![j] = FALSE]
        /\ UNCHANGED <<subscriptionId, expiringSoonNotified, warnings,
                       subStatus, now, tick>>
    BY DEF PublishCommit
  <2>5. req[r].at \in Time /\ "published" \in JobStatus
    BY <1>1 DEF RequestState, Time, JobStatus
  <2> QED
    BY <1>1, <2>1, <2>2, <2>3, <2>4, <2>5, IdleType, EventFacts
       DEF IInv, TypeOK
<1>3. JobKnown'
  BY <1>1 DEF IInv, JobKnown, TypeOK, Idle
<1>4. LockProtects'
  BY <1>1, OtherHolders DEF LockProtects, IInv, TypeOK, Idle
<1>5. OutboxMirrorsStatus'
  BY <1>1, EventFacts, NullIsNoEvent DEF IInv, TypeOK, OutboxMirrorsStatus
<1> QED
  BY <1>2, <1>3, <1>4, <1>5 DEF IInv

\* The publish transaction is rolled back by a slug collision.
LEMMA PublishCollideStep ==
  ASSUME IInv, NEW r \in Requests, PublishCollide(r)
  PROVE  IInv'
<1> DEFINE j == req[r].job
<1>1. /\ j \in Jobs /\ req[r].pc = "publishWrite" /\ req[r] \in RequestState
      /\ rowLock' = [rowLock EXCEPT ![j] = Null]
      /\ UNCHANGED <<jobRow, outbox, revised, subStatus, now, tick>>
  BY DEF PublishCollide, IInv, JobKnown, TypeOK
<1>2. PICK q \in RequestState : /\ req' = [req EXCEPT ![r] = q]
                                /\ q.pc # "publishWrite"
                                /\ q.pc # "idle" => q.job = j
  <2>1. CASE req' = [req EXCEPT ![r] = Idle]
    BY <2>1, IdleType DEF Idle
  <2>2. CASE req' = [req EXCEPT ![r] = [req[r] EXCEPT
                       !.pc = "publishLock", !.attempt = req[r].attempt + 1]]
    <3> DEFINE n == req[r].attempt + 1
               p == [req[r] EXCEPT !.pc = "publishLock", !.attempt = n]
    <3>1. n \in Nat
      BY <1>1 DEF RequestState
    <3>2. req' = [req EXCEPT ![r] = p]
      BY <2>2
    <3> HIDE DEF n
    <3>3. p \in RequestState /\ p.pc # "publishWrite" /\ p.job = j
      BY <1>1, <3>1 DEF RequestState, RequestPc
    <3> HIDE DEF p
    <3> QED
      BY <3>2, <3>3
  <2> QED
    BY <2>1, <2>2 DEF PublishCollide
<1>3. TypeOK'
  BY <1>1, <1>2 DEF IInv, TypeOK, jobRow, outbox
<1>4. JobKnown'
  BY <1>1, <1>2 DEF IInv, JobKnown, TypeOK
<1>5. LockProtects'
  BY <1>1, <1>2, OtherHolders DEF LockProtects, IInv, TypeOK, jobRow
<1>6. OutboxMirrorsStatus'
  BY <1>1 DEF IInv, OutboxMirrorsStatus, jobRow, outbox
<1> QED
  BY <1>3, <1>4, <1>5, <1>6 DEF IInv

\* A new draft has no events, and nobody holds a lock on an absent row.
LEMMA CreateInsertStep ==
  ASSUME IInv, NEW r \in Requests, CreateInsert(r)
  PROVE  IInv'
<1>1. PICK j \in Jobs :
        /\ status[j] = "absent"
        /\ status' = [status EXCEPT ![j] = "draft"]
        /\ subscriptionId' = [subscriptionId EXCEPT ![j] = req[r].sub]
  BY DEF CreateInsert
<1>2. /\ req' = [req EXCEPT ![r] = Idle] /\ req[r] \in RequestState
      /\ UNCHANGED <<shortId, publishedAt, expiresAt, expiringSoonNotified,
                     rowLock, outbox, revised, subStatus, now, tick>>
  BY DEF CreateInsert, IInv, TypeOK
<1>3. TypeOK'
  BY <1>1, <1>2, IdleType DEF IInv, TypeOK, outbox, JobStatus, RequestState
<1>4. JobKnown'
  BY <1>2 DEF IInv, JobKnown, TypeOK, Idle
<1>5. LockProtects'
  BY <1>1, <1>2
     DEF IInv, LockProtects, JobKnown, TypeOK, Idle, PublishableStatuses
<1>6. OutboxMirrorsStatus'
  <2>1. lastEvent[j] = Null
    BY <1>1, EventFacts DEF IInv, TypeOK, OutboxMirrorsStatus
  <2> QED
    BY <1>1, <1>2, <2>1 DEF IInv, TypeOK, OutboxMirrorsStatus, outbox
<1> QED
  BY <1>3, <1>4, <1>5, <1>6 DEF IInv

\* Every step of a request.
LEMMA RequestStep ==
  ASSUME IInv, NEW r \in Requests, StartRequest(r) \/ ContinueRequest(r)
  PROVE  IInv'
<1>1. CASE StartRequest(r)
  BY <1>1, StartIsLocal, LocalStep
<1>2. CASE CreateInsert(r)
  BY <1>2, CreateInsertStep
<1>3. CASE \/ SubmitCheckSubscription(r) \/ SubmitCountSlots(r)
           \/ PublishEnterpriseCheck(r) \/ PublishReadShortId(r)
  BY <1>3, CheckIsLocal, LocalStep
<1>4. CASE EditBodyWrite(r)
  <2>1. req[r].job \in Jobs
    BY <1>4 DEF EditBodyWrite, IInv, JobKnown
  <2>2. /\ revised' = [revised EXCEPT ![req[r].job] = TRUE]
        /\ req' = [req EXCEPT ![r] = Idle]
        /\ UNCHANGED <<jobRow, rowLock, outbox, subStatus, now, tick>>
    BY <1>4 DEF EditBodyWrite
  <2>3. TypeOK'
    BY <2>1, <2>2, IdleType DEF IInv, TypeOK, jobRow, outbox
  <2>4. JobKnown' /\ LockProtects'
    BY <2>2 DEF IInv, JobKnown, LockProtects, TypeOK, Idle, jobRow
  <2>5. OutboxMirrorsStatus'
    BY <2>2 DEF IInv, OutboxMirrorsStatus, jobRow, outbox
  <2> QED
    BY <2>3, <2>4, <2>5 DEF IInv
<1>5. CASE SubmitWrite(r)
  BY <1>5, WriteStatusStep, EventFacts, NullIsNoEvent
     DEF SubmitWrite, JobStatus, IInv, TypeOK
<1>6. CASE RejectWrite(r)
  BY <1>6, WriteStatusStep, EventFacts, NullIsNoEvent
     DEF RejectWrite, JobStatus, IInv, TypeOK
<1>7. CASE UnpublishWrite(r)
  BY <1>7, WriteStatusStep, EventFacts, NullIsNoEvent
     DEF UnpublishWrite, JobStatus, IInv, TypeOK
<1>8. CASE ForceArchiveWrite(r)
  BY <1>8, WriteStatusStep, EventFacts, NullIsNoEvent
     DEF ForceArchiveWrite, JobStatus, IInv, TypeOK
<1>9. CASE DemoteWrite(r)
  <2>1. WriteStatus(r, "demote", "submitted", "job_submitted")
    BY <1>9 DEF DemoteWrite
  <2>2. req[r].job \in Jobs
    BY <2>1 DEF WriteStatus, IInv, JobKnown
  <2>3. publishedAt' \in [Jobs -> Time] /\ revised' \in [Jobs -> BOOLEAN]
    BY <1>9, <2>2 DEF DemoteWrite, IInv, TypeOK, Time
  <2> QED
    BY <2>1, <2>3, WriteStatusStep, EventFacts, NullIsNoEvent DEF JobStatus
<1>10. CASE PublishLock(r)
  BY <1>10, PublishLockStep
<1>11. CASE PublishCommit(r)
  BY <1>11, PublishCommitStep
<1>12. CASE PublishCollide(r)
  BY <1>12, PublishCollideStep
<1> QED
  BY <1>1, <1>2, <1>3, <1>4, <1>5, <1>6, <1>7, <1>8, <1>9, <1>10, <1>11,
     <1>12 DEF ContinueRequest

-----------------------------------------------------------------------------
(* The worker, subscriptions and time.                                     *)

\* Nothing an open publish relies on changes: what is left is types.
LEMMA QuietStep ==
  ASSUME IInv, UNCHANGED <<jobRow, rowLock, outbox, revised, req>>,
         subStatus' \in [Subs -> SubStatus], now' \in Nat,
         tick' \in [Ticks -> TickState]
  PROVE  IInv'
<1>1. TypeOK'
  BY DEF IInv, TypeOK, jobRow, outbox
<1>2. JobKnown' /\ LockProtects'
  BY DEF IInv, JobKnown, LockProtects, jobRow
<1>3. OutboxMirrorsStatus'
  BY DEF IInv, OutboxMirrorsStatus, jobRow, outbox
<1> QED
  BY <1>1, <1>2, <1>3 DEF IInv

\* A tick moves to a well-typed state.
LEMMA TickType ==
  ASSUME IInv, NEW t \in Ticks, NEW pc \in TickPc, NEW P \in SUBSET Jobs,
         tick' = [tick EXCEPT ![t] = [pc |-> pc, picked |-> P]]
  PROVE  tick' \in [Ticks -> TickState]
<1>1. [pc |-> pc, picked |-> P] \in TickState
  BY DEF TickState
<1> QED
  BY <1>1 DEF IInv, TypeOK

\* So does one that picked nothing.
LEMMA AtType ==
  ASSUME IInv, NEW t \in Ticks, NEW pc \in TickPc,
         tick' = [tick EXCEPT ![t] = At(pc)]
  PROVE  tick' \in [Ticks -> TickState]
<1>1. At(pc) \in TickState
  BY DEF At, TickState
<1> QED
  BY <1>1 DEF IInv, TypeOK

\* A sweep picks jobs.
LEMMA PickStep ==
  ASSUME IInv, NEW t \in Ticks, NEW at, NEW S \in SUBSET Jobs,
         NEW write \in TickPc, NEW otherwise \in TickPc,
         Pick(t, at, S, write, otherwise)
  PROVE  IInv'
<1>1. PICK P \in FirstBatch(S) :
        tick' = [tick EXCEPT ![t] =
                   [pc |-> IF P = {} THEN otherwise ELSE write, picked |-> P]]
  BY DEF Pick
<1>2. P \in SUBSET Jobs
  BY DEF FirstBatch
<1>3. tick' \in [Ticks -> TickState]
  BY <1>1, <1>2, TickType
<1>4. UNCHANGED <<jobRow, rowLock, outbox, revised, subStatus, now, req>>
  BY DEF Pick
<1> QED
  BY <1>3, <1>4, QuietStep DEF IInv, TypeOK

\* The sweep overwrites any status, but only of rows no publish has locked.
LEMMA WriteExpiredStep ==
  ASSUME IInv, NEW t \in Ticks, WriteExpired(t)
  PROVE  IInv'
<1> DEFINE picked == tick[t].picked
<1>1. /\ \A j \in picked : rowLock[j] = Null
      /\ status' = [j \in Jobs |-> IF j \in picked THEN "expired"
                                                   ELSE status[j]]
      /\ lastEvent' = [j \in Jobs |-> IF j \in picked THEN "job_expired"
                                                      ELSE lastEvent[j]]
      /\ tick' = [tick EXCEPT ![t] = At("notify")]
      /\ UNCHANGED <<subscriptionId, shortId, publishedAt, expiresAt,
                     expiringSoonNotified, rowLock, warnings, revised,
                     subStatus, now, req>>
  BY DEF WriteExpired
<1> HIDE DEF picked
<1>2. TypeOK'
  <2>1. tick' \in [Ticks -> TickState]
    BY <1>1, AtType DEF TickPc
  <2>2. status' \in [Jobs -> JobStatus]
    BY <1>1 DEF IInv, TypeOK, JobStatus
  <2>3. lastEvent' \in [Jobs -> Events \cup {Null}]
    BY <1>1, EventFacts DEF IInv, TypeOK
  <2> QED
    BY <1>1, <2>1, <2>2, <2>3 DEF IInv, TypeOK
<1>3. JobKnown'
  BY <1>1 DEF IInv, JobKnown
<1>4. LockProtects'
  <2> SUFFICES ASSUME NEW q \in Requests, req[q].pc = "publishWrite"
               PROVE  /\ rowLock[req[q].job] = q
                      /\ status'[req[q].job] \in PublishableStatuses
      BY <1>1 DEF LockProtects
  <2>1. /\ rowLock[req[q].job] = q /\ req[q].job \in Jobs
        /\ status[req[q].job] \in PublishableStatuses
    BY DEF IInv, LockProtects, JobKnown
  <2>2. req[q].job \notin picked
    BY <1>1, <2>1, JobAssumptions
  <2> QED
    BY <1>1, <2>1, <2>2
<1>5. OutboxMirrorsStatus'
  BY <1>1, EventFacts, NullIsNoEvent DEF IInv, OutboxMirrorsStatus
<1> QED
  BY <1>2, <1>3, <1>4, <1>5 DEF IInv

\* The warning sweep touches neither status nor events.
LEMMA WriteNotifiedStep ==
  ASSUME IInv, NEW t \in Ticks, WriteNotified(t)
  PROVE  IInv'
<1> DEFINE picked == tick[t].picked
<1>1. /\ expiringSoonNotified' =
            [j \in Jobs |-> j \in picked \/ expiringSoonNotified[j]]
      /\ warnings' = [j \in Jobs |-> IF j \in picked
                                     THEN warnings[j] + 1 ELSE warnings[j]]
      /\ tick' = [tick EXCEPT ![t] = At("idle")]
      /\ UNCHANGED <<status, subscriptionId, shortId, publishedAt, expiresAt,
                     rowLock, lastEvent, revised, subStatus, now, req>>
  BY DEF WriteNotified
<1> HIDE DEF picked
<1>2. TypeOK'
  <2>1. expiringSoonNotified' \in [Jobs -> BOOLEAN]
    BY <1>1
  <2>2. warnings' \in [Jobs -> Nat]
    BY <1>1 DEF IInv, TypeOK
  <2>3. tick' \in [Ticks -> TickState]
    BY <1>1, AtType DEF TickPc
  <2> QED
    BY <1>1, <2>1, <2>2, <2>3 DEF IInv, TypeOK
<1>3. JobKnown' /\ LockProtects'
  BY <1>1 DEF IInv, JobKnown, LockProtects
<1>4. OutboxMirrorsStatus'
  BY <1>1 DEF IInv, OutboxMirrorsStatus
<1> QED
  BY <1>2, <1>3, <1>4 DEF IInv

\* Every step of a tick.
LEMMA TickStep ==
  ASSUME IInv, NEW t \in Ticks, Tick(t) \/ TickFails(t)
  PROVE  IInv'
<1>1. CASE ExpireSubscriptions(t) \/ CancelAbandoned(t)
  <2>1. UNCHANGED <<jobRow, rowLock, outbox, revised, now, req>>
    BY <1>1 DEF ExpireSubscriptions, CancelAbandoned
  <2>2. subStatus' \in [Subs -> SubStatus]
    BY <1>1 DEF ExpireSubscriptions, CancelAbandoned, IInv, TypeOK, SubStatus
  <2>3. tick' \in [Ticks -> TickState]
    BY <1>1, AtType DEF ExpireSubscriptions, CancelAbandoned, TickPc
  <2> QED
    BY <2>1, <2>2, <2>3, QuietStep DEF IInv, TypeOK
<1>2. CASE SelectExpired(t) \/ SelectExpiringSoon(t)
  BY <1>2, PickStep DEF SelectExpired, SelectExpiringSoon, TickPc
<1>3. CASE WriteExpired(t)
  BY <1>3, WriteExpiredStep
<1>4. CASE WriteNotified(t)
  BY <1>4, WriteNotifiedStep
<1>5. CASE TickFails(t)
  <2>1. tick' \in [Ticks -> TickState]
    BY <1>5, AtType DEF TickFails, TickPc
  <2> QED
    BY <1>5, <2>1, QuietStep DEF TickFails, IInv, TypeOK
<1> QED
  BY <1>1, <1>2, <1>3, <1>4, <1>5 DEF Tick

\* Every step of subscriptions and of the clock.
LEMMA OutsideStep ==
  ASSUME IInv, Subscription \/ AdvanceTime
  PROVE  IInv'
<1>1. CASE Subscription
  <2>1. PICK s \in Subs : ActivateSubscription(s) \/ CancelSubscription(s)
    BY <1>1 DEF Subscription
  <2>2. UNCHANGED <<jobRow, rowLock, outbox, revised, now, req, tick>>
    BY <2>1 DEF ActivateSubscription, CancelSubscription
  <2>3. subStatus' \in [Subs -> SubStatus]
    BY <2>1 DEF ActivateSubscription, CancelSubscription, IInv, TypeOK,
                SubStatus
  <2> QED
    BY <2>2, <2>3, QuietStep DEF IInv, TypeOK
<1>2. CASE AdvanceTime
  BY <1>2, QuietStep DEF AdvanceTime, IInv, TypeOK
<1> QED
  BY <1>1, <1>2

-----------------------------------------------------------------------------
(* The theorems.                                                           *)

\* Every step, and every stutter, preserves the inductive invariant.
LEMMA NextIInv == IInv /\ [Next]_vars => IInv'
<1> SUFFICES ASSUME IInv, [Next]_vars PROVE IInv'
    OBVIOUS
<1>1. ASSUME NEW r \in Requests, StartRequest(r) \/ ContinueRequest(r)
      PROVE  IInv'
  BY <1>1, RequestStep
<1>2. CASE Subscription \/ AdvanceTime
  BY <1>2, OutsideStep
<1>3. ASSUME NEW t \in Ticks, Tick(t) \/ TickFails(t)
      PROVE  IInv'
  BY <1>3, TickStep
<1>4. CASE UNCHANGED vars
  BY <1>4, QuietStep DEF vars, IInv, TypeOK
<1> QED
  BY <1>1, <1>2, <1>3, <1>4 DEF Next

\* IInv holds in every reachable state.
THEOREM Invariance == Spec => []IInv
<1> QED
  BY InitIInv, NextIInv, PTL DEF Spec

\* Every column, request and tick keeps its type.
THEOREM TypeCorrect == Spec => []TypeOK
<1>1. IInv => TypeOK
  BY DEF IInv
<1> QED
  BY <1>1, Invariance, PTL

\* The last status event of every job tells its status, whatever races.
THEOREM OutboxCorrect == Spec => []OutboxMirrorsStatus
<1>1. IInv => OutboxMirrorsStatus
  BY DEF IInv
<1> QED
  BY <1>1, Invariance, PTL

-----------------------------------------------------------------------------
(* What one step may do to the listings.                                   *)

listing == <<status, lastEvent, shortId, publishedAt, expiresAt>>

\* A new draft appears in the place of an absent row.
Inserted(j) ==
  /\ status[j] = "absent"
  /\ status' = [status EXCEPT ![j] = "draft"]
  /\ UNCHANGED <<lastEvent, shortId, publishedAt, expiresAt>>

\* One row gets a status other than published, and the event that tells it.
Decided(j, event) ==
  /\ status' = [status EXCEPT ![j] = EventStatus[event]]
  /\ lastEvent' = [lastEvent EXCEPT ![j] = event]
  /\ publishedAt' \in {publishedAt, [publishedAt EXCEPT ![j] = Null]}
  /\ UNCHANGED <<shortId, expiresAt>>

\* The events a request may write for a decision.
Decisions == {"job_submitted", "job_rejected", "job_unpublished",
              "job_force_archived"}

StepShape ==
  \/ UNCHANGED listing
  \/ \E j \in Jobs : Inserted(j)
  \/ \E j \in Jobs, event \in Decisions : Decided(j, event)
  \/ \E r \in Requests : PublishCommit(r)
  \/ \E t \in Ticks : WriteExpired(t)

\* Every step has one of five shapes.
LEMMA StepShapes == IInv /\ [Next]_vars => StepShape
<1> SUFFICES ASSUME IInv, [Next]_vars PROVE StepShape
    OBVIOUS
<1>1. ASSUME NEW r \in Requests, LocalMove(r)
      PROVE  UNCHANGED listing
  BY <1>1 DEF LocalMove, tables, jobRow, outbox, listing
<1>2. ASSUME NEW r \in Requests,
             PublishLock(r) \/ PublishCollide(r) \/ EditBodyWrite(r)
      PROVE  UNCHANGED listing
  BY <1>2 DEF PublishLock, PublishCollide, EditBodyWrite, jobRow, outbox,
              listing
<1>3. ASSUME NEW r \in Requests, CreateInsert(r)
      PROVE  \E j \in Jobs : Inserted(j)
  BY <1>3 DEF CreateInsert, Inserted, outbox
<1>4. ASSUME NEW r \in Requests,
             NEW at \in {"submitWrite", "demote", "reject", "unpublish",
                         "forceArchive"},
             NEW event \in Decisions,
             WriteStatus(r, at, EventStatus[event], event),
             publishedAt' \in {publishedAt,
                               [publishedAt EXCEPT ![req[r].job] = Null]}
      PROVE  StepShape
  <2>1. req[r].job \in Jobs
    BY <1>4 DEF WriteStatus, IInv, JobKnown
  <2>2. Decided(req[r].job, event)
    BY <1>4 DEF WriteStatus, Decided
  <2> QED
    BY <2>1, <2>2 DEF StepShape
<1>5. ASSUME NEW r \in Requests, ContinueRequest(r)
      PROVE  StepShape
  <2>1. CASE SubmitWrite(r)
    BY <2>1, <1>4, EventFacts DEF SubmitWrite, Decisions
  <2>2. CASE DemoteWrite(r)
    BY <2>2, <1>4, EventFacts DEF DemoteWrite, Decisions
  <2>3. CASE RejectWrite(r)
    BY <2>3, <1>4, EventFacts DEF RejectWrite, Decisions
  <2>4. CASE UnpublishWrite(r)
    BY <2>4, <1>4, EventFacts DEF UnpublishWrite, Decisions
  <2>5. CASE ForceArchiveWrite(r)
    BY <2>5, <1>4, EventFacts DEF ForceArchiveWrite, Decisions
  <2> QED
    BY <1>1, <1>2, <1>3, <1>5, <2>1, <2>2, <2>3, <2>4, <2>5, CheckIsLocal
       DEF ContinueRequest, StepShape
<1>6. ASSUME NEW r \in Requests, StartRequest(r)
      PROVE  StepShape
  BY <1>1, <1>6, StartIsLocal DEF StepShape
<1>7. CASE Subscription \/ AdvanceTime
  BY <1>7 DEF Subscription, AdvanceTime, ActivateSubscription,
              CancelSubscription, jobRow, outbox, listing, StepShape
<1>8. ASSUME NEW t \in Ticks, Tick(t) \/ TickFails(t)
      PROVE  StepShape
  BY <1>8 DEF Tick, TickFails, ExpireSubscriptions, CancelAbandoned,
              SelectExpired, SelectExpiringSoon, WriteNotified, Pick, jobRow,
              outbox, listing, StepShape
<1>9. CASE UNCHANGED vars
  BY <1>9 DEF vars, jobRow, outbox, listing, StepShape
<1> QED
  BY <1>5, <1>6, <1>7, <1>8, <1>9 DEF Next

\* What a committing publish found, and what it leaves.
LEMMA CommitFacts ==
  ASSUME IInv, NEW r \in Requests, PublishCommit(r), NEW k \in Jobs
  PROVE  /\ req[r].job \in Jobs
         /\ status[req[r].job] \in PublishableStatuses
         /\ lastEvent[req[r].job] \in {Null, "job_submitted"}
         /\ status' = [status EXCEPT ![req[r].job] = "published"]
         /\ lastEvent' = [lastEvent EXCEPT ![req[r].job] = "job_published"]
         /\ expiresAt[k] # Null => expiresAt'[k] = expiresAt[k]
         /\ k # req[r].job => UNCHANGED <<status[k], lastEvent[k], shortId[k],
                                         publishedAt[k], expiresAt[k]>>
<1>1. req[r].job \in Jobs /\ status[req[r].job] \in PublishableStatuses
  BY DEF PublishCommit, IInv, JobKnown, LockProtects
<1>2. lastEvent[req[r].job] \in {Null, "job_submitted"}
  BY <1>1, EventFacts
     DEF IInv, TypeOK, OutboxMirrorsStatus, PublishableStatuses
<1>3. /\ status' = [status EXCEPT ![req[r].job] = "published"]
      /\ lastEvent' = [lastEvent EXCEPT ![req[r].job] = "job_published"]
      /\ publishedAt' = [publishedAt EXCEPT ![req[r].job] = req[r].at]
      /\ \E id \in ShortIds : shortId' = [shortId EXCEPT ![req[r].job] = id]
      /\ expiresAt' = [expiresAt EXCEPT ![req[r].job] =
                         ComputeJobExpiresAt(expiresAt[req[r].job], req[r].at,
                                             subscriptionId[req[r].job])]
  BY DEF PublishCommit, CandidateIds, IInv, TypeOK, RequestState
<1>4. expiresAt[k] # Null => expiresAt'[k] = expiresAt[k]
  BY <1>1, <1>3 DEF ComputeJobExpiresAt, IInv, TypeOK
<1>5. k # req[r].job => UNCHANGED <<status[k], lastEvent[k], shortId[k],
                                    publishedAt[k], expiresAt[k]>>
  BY <1>1, <1>3 DEF IInv, TypeOK
<1> QED
  BY <1>1, <1>2, <1>3, <1>4, <1>5

\* Going live needs a publishable status, in any interleaving.
THEOREM GoesLiveFromReviewHolds == Spec => GoesLiveFromReview
<1>1. ASSUME IInv, [Next]_vars, NEW j \in Jobs,
             status'[j] = "published", status[j] # "published"
      PROVE  status[j] \in PublishableStatuses
  <2>1. CASE \E r \in Requests : PublishCommit(r)
    BY <1>1, <2>1, CommitFacts
  <2>2. CASE \E t \in Ticks : WriteExpired(t)
    BY <1>1, <2>2 DEF WriteExpired
  <2> QED
    BY <1>1, <2>1, <2>2, StepShapes, EventFacts
       DEF StepShape, listing, Inserted, Decided, Decisions, IInv, TypeOK
<1>2. IInv /\ [Next]_vars =>
        [\A j \in Jobs : status'[j] = "published" /\ status[j] # "published"
                           => status[j] \in PublishableStatuses]_vars
  BY <1>1
<1> QED
  BY <1>2, Invariance, PTL DEF Spec, GoesLiveFromReview

\* A live listing is not published again.
THEOREM LiveListingIsStableHolds == Spec => LiveListingIsStable
<1>1. ASSUME IInv, [Next]_vars, NEW j \in Jobs,
             status[j] = "published", status'[j] = "published"
      PROVE  UNCHANGED <<publishedAt[j], shortId[j], expiresAt[j]>>
  <2>1. CASE \E r \in Requests : PublishCommit(r)
    BY <1>1, <2>1, CommitFacts DEF PublishableStatuses
  <2>2. CASE \E t \in Ticks : WriteExpired(t)
    BY <2>2 DEF WriteExpired
  <2>3. ASSUME NEW k \in Jobs, NEW event \in Decisions,
               Decided(k, event)
        PROVE  UNCHANGED <<publishedAt[j], shortId[j], expiresAt[j]>>
    <3>1. k # j
      BY <1>1, <2>3, EventFacts DEF Decided, Decisions, IInv, TypeOK
    <3>2. publishedAt'[j] = publishedAt[j]
      <4>1. CASE publishedAt' = publishedAt
        BY <4>1
      <4>2. CASE publishedAt' = [publishedAt EXCEPT ![k] = Null]
        BY <3>1, <4>2 DEF IInv, TypeOK
      <4> QED
        BY <2>3, <4>1, <4>2 DEF Decided
    <3> QED
      BY <2>3, <3>2 DEF Decided
  <2> QED
    BY <1>1, <2>1, <2>2, <2>3, StepShapes DEF StepShape, listing, Inserted
<1>2. IInv /\ [Next]_vars =>
        [\A j \in Jobs : status[j] = "published" /\ status'[j] = "published"
           => UNCHANGED <<publishedAt[j], shortId[j], expiresAt[j]>>]_vars
  BY <1>1
<1> QED
  BY <1>2, Invariance, PTL DEF Spec, LiveListingIsStable

\* Paid time is neither restarted nor stopped.
THEOREM ExpiryClockKeptHolds == Spec => ExpiryClockKept
<1>1. ASSUME IInv, [Next]_vars, NEW j \in Jobs, expiresAt[j] # Null
      PROVE  expiresAt'[j] = expiresAt[j]
  <2>1. CASE \E r \in Requests : PublishCommit(r)
    BY <1>1, <2>1, CommitFacts
  <2> QED
    BY <1>1, <2>1, StepShapes
       DEF StepShape, listing, Inserted, Decided, WriteExpired
<1>2. IInv /\ [Next]_vars =>
        [\A j \in Jobs : expiresAt[j] # Null
                           => expiresAt'[j] = expiresAt[j]]_vars
  BY <1>1
<1> QED
  BY <1>2, Invariance, PTL DEF Spec, ExpiryClockKept

-----------------------------------------------------------------------------
(* JobLifecycle implements ListingFeed.                                    *)

liveJobs == {j \in Jobs : status[j] = "published"}

\* Every step is a step of the abstract feed, or leaves it alone.
LEMMA FeedStep ==
  ASSUME IInv, [Next]_vars
  PROVE  [Feed!Next]_<<liveJobs, lastEvent>>
<1>1. CASE UNCHANGED listing
  BY <1>1 DEF listing, liveJobs
<1>2. ASSUME NEW j \in Jobs, Inserted(j)
      PROVE  UNCHANGED <<liveJobs, lastEvent>>
  <2>1. \A k \in Jobs : status'[k] = "published" <=> status[k] = "published"
    BY <1>2 DEF Inserted, IInv, TypeOK
  <2> QED
    BY <1>2, <2>1 DEF Inserted, liveJobs
<1>3. ASSUME NEW j \in Jobs, NEW event \in Decisions,
             Decided(j, event)
      PROVE  Feed!Next
  <2>1. event \in Feed!Withdrawals /\ EventStatus[event] # "published"
    BY EventFacts DEF Feed!Withdrawals, Decisions
  <2>2. liveJobs' = liveJobs \ {j}
    BY <1>3, <2>1 DEF Decided, liveJobs, IInv, TypeOK
  <2>3. lastEvent' = [k \in Jobs |-> IF k \in {j} THEN event
                                                 ELSE lastEvent[k]]
    BY <1>3 DEF Decided, IInv, TypeOK
  <2>4. Feed!Withdraw({j}, event)
    BY <2>2, <2>3 DEF Feed!Withdraw, liveJobs
  <2> QED
    BY <2>1, <2>4 DEF Feed!Next
<1>4. ASSUME NEW r \in Requests, PublishCommit(r)
      PROVE  Feed!Next
  <2>0. PICK i \in Jobs : i = req[r].job
    BY <1>4 DEF PublishCommit, IInv, JobKnown
  <2>1. /\ i \in Jobs /\ status[i] \in PublishableStatuses
        /\ lastEvent[i] \in {Null, "job_submitted"}
        /\ status' = [status EXCEPT ![i] = "published"]
        /\ lastEvent' = [lastEvent EXCEPT ![i] = "job_published"]
    BY <1>4, <2>0, CommitFacts
  <2>2. liveJobs' = liveJobs \cup {i} /\ i \notin liveJobs
    BY <2>1 DEF liveJobs, IInv, TypeOK, PublishableStatuses
  <2>3. Feed!Announce(i)
    BY <2>1, <2>2 DEF Feed!Announce, liveJobs
  <2> QED
    BY <2>3 DEF Feed!Next
<1>5. ASSUME NEW t \in Ticks, WriteExpired(t)
      PROVE  Feed!Next
  <2> DEFINE picked == tick[t].picked
  <2>1. picked \in SUBSET Jobs
    BY DEF IInv, TypeOK, TickState
  <2>2. liveJobs' = liveJobs \ picked
    BY <1>5, <2>1 DEF WriteExpired, liveJobs
  <2>3. Feed!Withdraw(picked, "job_expired")
    BY <1>5, <2>2 DEF WriteExpired, Feed!Withdraw, liveJobs
  <2> QED
    BY <2>1, <2>3 DEF Feed!Next, Feed!Withdrawals
<1> QED
  BY <1>1, <1>2, <1>3, <1>4, <1>5, StepShapes DEF StepShape

\* A reader of the outbox who keeps the last event of each job knows which
\* listings are live.
THEOREM ImplementsFeed == Spec => FeedSpec
<1>1. Init => Feed!Init
  BY DEF Init, Feed!Init
<1>2. IInv /\ [Next]_vars => [Feed!Next]_<<liveJobs, lastEvent>>
  BY FeedStep
<1> QED
  BY <1>1, <1>2, Invariance, PTL
     DEF Spec, FeedSpec, Feed!Spec, liveJobs

-----------------------------------------------------------------------------
(* The sweeps: what was picked stays true until it is written.             *)

\* The expiry sweep's picks ran out and stay run out, because an expiry date
\* is never moved.
SweepInv ==
  /\ \A t \in Ticks :
       tick[t].pc = "writeExpired" =>
         \A j \in tick[t].picked : expiresAt[j] # Null /\ expiresAt[j] < now
  /\ ExpiredRanOut

TickShape ==
  \/ /\ UNCHANGED <<tick, expiringSoonNotified, warnings>>
     /\ now' \in {now, now + 1}
  \/ \E t \in Ticks : Tick(t) \/ TickFails(t)

\* A step that is not a tick's leaves the ticks alone.
LEMMA TickShapes == IInv /\ [Next]_vars => TickShape
<1> SUFFICES ASSUME IInv, [Next]_vars PROVE TickShape
    OBVIOUS
<1> DEFINE still == UNCHANGED <<tick, expiringSoonNotified, warnings, now>>
<1>1. ASSUME NEW r \in Requests, LocalMove(r) PROVE still
  BY <1>1 DEF LocalMove, tables, jobRow, outbox
<1>2. ASSUME NEW r \in Requests, ContinueRequest(r) PROVE still
  BY <1>1, <1>2, CheckIsLocal
     DEF ContinueRequest, CreateInsert, SubmitWrite, EditBodyWrite,
         DemoteWrite, RejectWrite, UnpublishWrite, ForceArchiveWrite,
         WriteStatus, PublishLock, PublishCommit, PublishCollide, jobRow,
         outbox
<1>3. ASSUME NEW r \in Requests, StartRequest(r) PROVE still
  BY <1>1, <1>3, StartIsLocal
<1>4. CASE Subscription \/ AdvanceTime \/ UNCHANGED vars
  BY <1>4 DEF Subscription, ActivateSubscription, CancelSubscription,
              AdvanceTime, vars, jobRow, outbox, TickShape
<1> QED
  BY <1>2, <1>3, <1>4 DEF Next, TickShape

\* An expiry date once set is kept, and a job expires only by the sweep.
LEMMA ExpiryFacts ==
  ASSUME IInv, [Next]_vars, NEW j \in Jobs
  PROVE  /\ expiresAt[j] # Null => expiresAt'[j] = expiresAt[j]
         /\ status'[j] = "expired" =>
              \/ status[j] = "expired"
              \/ \E t \in Ticks : WriteExpired(t) /\ j \in tick[t].picked
<1>1. CASE \E r \in Requests : PublishCommit(r)
  BY <1>1, CommitFacts DEF IInv, TypeOK
<1>2. CASE \E t \in Ticks : WriteExpired(t)
  BY <1>2 DEF WriteExpired
<1>3. ASSUME NEW k \in Jobs, NEW event \in Decisions, Decided(k, event)
      PROVE  /\ expiresAt' = expiresAt
             /\ status'[j] = "expired" => status[j] = "expired"
  BY <1>3, EventFacts DEF Decided, Decisions, IInv, TypeOK
<1>4. ASSUME NEW k \in Jobs, Inserted(k)
      PROVE  /\ expiresAt' = expiresAt
             /\ status'[j] = "expired" => status[j] = "expired"
  BY <1>4 DEF Inserted, IInv, TypeOK
<1> QED
  BY <1>1, <1>2, <1>3, <1>4, StepShapes DEF StepShape, listing

\* A tick's step moves no other tick, and comes to a write only by a pick.
LEMMA TickMoves ==
  ASSUME IInv, NEW t \in Ticks, Tick(t) \/ TickFails(t), NEW u \in Ticks
  PROVE  /\ u # t => tick'[u] = tick[u]
         /\ tick'[t].pc = "writeExpired" => SelectExpired(t)
         /\ tick'[t].pc = "writeNotified" => SelectExpiringSoon(t)
         /\ now' = now
         /\ ~WriteNotified(t) => UNCHANGED <<expiringSoonNotified, warnings>>
<1>1. CASE \/ ExpireSubscriptions(t) \/ CancelAbandoned(t) \/ WriteExpired(t)
           \/ WriteNotified(t) \/ TickFails(t)
  <2>1. PICK pc \in {"idle", "abandoned", "expireJobs", "notify"} :
          tick' = [tick EXCEPT ![t] = At(pc)]
    BY <1>1 DEF ExpireSubscriptions, CancelAbandoned, WriteExpired,
                WriteNotified, TickFails
  <2>2. (u # t => tick'[u] = tick[u]) /\ tick'[t].pc = pc
    BY <2>1 DEF IInv, TypeOK, At
  <2>3. /\ now' = now
        /\ ~WriteNotified(t) => UNCHANGED <<expiringSoonNotified, warnings>>
    BY <1>1 DEF ExpireSubscriptions, CancelAbandoned, WriteExpired,
                WriteNotified, TickFails, jobRow, outbox
  <2> QED
    BY <2>2, <2>3
<1>2. CASE SelectExpired(t) \/ SelectExpiringSoon(t)
  <2>1. PICK pc \in TickPc, P \in SUBSET Jobs :
          /\ tick' = [tick EXCEPT ![t] = [pc |-> pc, picked |-> P]]
          /\ pc = "writeExpired" => SelectExpired(t)
          /\ pc = "writeNotified" => SelectExpiringSoon(t)
    BY <1>2 DEF SelectExpired, SelectExpiringSoon, Pick, FirstBatch, TickPc
  <2>2. (u # t => tick'[u] = tick[u]) /\ tick'[t].pc = pc
    BY <2>1 DEF IInv, TypeOK
  <2>3. now' = now /\ UNCHANGED <<expiringSoonNotified, warnings>>
    BY <1>2 DEF SelectExpired, SelectExpiringSoon, Pick, jobRow, outbox
  <2> QED
    BY <2>1, <2>2, <2>3
<1> QED
  BY <1>1, <1>2 DEF Tick

\* What a pick takes satisfies its WHERE.
LEMMA PickedFacts ==
  ASSUME IInv, NEW t \in Ticks
  PROVE  /\ SelectExpired(t) =>
              \A j \in tick'[t].picked : j \in Jobs /\ Overdue(j)
         /\ SelectExpiringSoon(t) =>
              \A j \in tick'[t].picked : j \in Jobs /\ ExpiringSoon(j)
<1>1. ASSUME NEW at, NEW S \in SUBSET Jobs, NEW write, NEW otherwise,
             Pick(t, at, S, write, otherwise)
      PROVE  tick'[t].picked \subseteq S
  <2>1. PICK P \in FirstBatch(S) :
          tick' = [tick EXCEPT ![t] =
                    [pc |-> IF P = {} THEN otherwise ELSE write, picked |-> P]]
    BY <1>1 DEF Pick
  <2>2. tick'[t].picked = P
    BY <2>1 DEF IInv, TypeOK
  <2> QED
    BY <2>2 DEF FirstBatch
<1>2. ASSUME SelectExpired(t)
      PROVE  tick'[t].picked \subseteq {j \in Jobs : Overdue(j)}
  BY <1>1, <1>2 DEF SelectExpired
<1>3. ASSUME SelectExpiringSoon(t)
      PROVE  tick'[t].picked \subseteq {j \in Jobs : ExpiringSoon(j)}
  BY <1>1, <1>3 DEF SelectExpiringSoon
<1> QED
  BY <1>2, <1>3

\* The initial state satisfies SweepInv.
LEMMA InitSweepInv == Init => SweepInv
BY DEF Init, SweepInv, ExpiredRanOut, At

\* ... and every step keeps it.
LEMMA NextSweepInv == IInv /\ SweepInv /\ [Next]_vars => SweepInv'
<1> SUFFICES ASSUME IInv, SweepInv, [Next]_vars PROVE SweepInv'
    OBVIOUS
<1>1. now \in Nat /\ now' \in Nat /\ now' >= now
  BY TickShapes, TickMoves DEF TickShape, IInv, TypeOK
<1>2. ASSUME NEW j \in Jobs, expiresAt[j] # Null, expiresAt[j] < now
      PROVE  expiresAt'[j] # Null /\ expiresAt'[j] < now'
  BY <1>1, <1>2, ExpiryFacts DEF IInv, TypeOK, Time
<1>3. ExpiredRanOut'
  <2> SUFFICES ASSUME NEW j \in Jobs, status'[j] = "expired"
               PROVE  expiresAt'[j] # Null /\ expiresAt'[j] < now'
      BY DEF ExpiredRanOut
  <2>1. expiresAt[j] # Null /\ expiresAt[j] < now
    BY ExpiryFacts DEF SweepInv, ExpiredRanOut, WriteExpired
  <2> QED
    BY <1>2, <2>1
<1>4. ASSUME NEW u \in Ticks, tick'[u].pc = "writeExpired",
             NEW j \in tick'[u].picked
      PROVE  expiresAt'[j] # Null /\ expiresAt'[j] < now'
  <2>1. CASE tick'[u] = tick[u]
    <3>1. j \in Jobs /\ expiresAt[j] # Null /\ expiresAt[j] < now
      BY <1>4, <2>1 DEF SweepInv, IInv, TypeOK, TickState
    <3> QED
      BY <1>2, <3>1
  <2>2. CASE SelectExpired(u)
    <3>1. j \in Jobs /\ Overdue(j)
      BY <1>4, <2>2, PickedFacts
    <3> QED
      BY <1>2, <3>1 DEF Overdue
  <2> QED
    BY <1>4, <2>1, <2>2, TickShapes, TickMoves DEF TickShape
<1> QED
  BY <1>3, <1>4 DEF SweepInv

\* A listing is expired only after its paid time ran out, though the sweep
\* writes the ids it picked without looking again.
THEOREM ExpiredRanOutHolds == Spec => []ExpiredRanOut
<1>1. Spec => []SweepInv
  BY InitSweepInv, NextSweepInv, Invariance, PTL DEF Spec
<1>2. SweepInv => ExpiredRanOut
  BY DEF SweepInv
<1> QED
  BY <1>1, <1>2, PTL

-----------------------------------------------------------------------------
(* Warnings: the ticks that picked a listing before it was marked.         *)

\* The ticks about to warn of j.
Warners(j) == {t \in Ticks : tick[t].pc = "writeNotified"
                             /\ j \in tick[t].picked}

\* A marked listing gets no new warners: the warnings it has and those still
\* to come are not more than the ticks that could pick it before the mark.
WarnInv ==
  \A j \in Jobs :
    IF expiringSoonNotified[j]
    THEN warnings[j] + Cardinality(Warners(j)) <= Cardinality(Ticks)
    ELSE warnings[j] = 0

\* The warners of a listing are finite in number, and not more than a larger
\* set of ticks.
LEMMA WarnersFinite ==
  ASSUME NEW S \in SUBSET Ticks, NEW T \in SUBSET S
  PROVE  /\ IsFiniteSet(S) /\ Cardinality(S) \in Nat
         /\ Cardinality(T) \in Nat /\ Cardinality(T) <= Cardinality(S)
<1>1. IsFiniteSet(S)
  BY JobAssumptions, FS_Subset
<1>2. IsFiniteSet(T) /\ Cardinality(T) <= Cardinality(S)
  BY <1>1, FS_Subset
<1> QED
  BY <1>1, <1>2, FS_CardinalityType

\* No warnings yet.
LEMMA InitWarnInv == Init => WarnInv
BY DEF Init, WarnInv

\* A step that writes no warning brings no new warner to a marked listing.
LEMMA NoNewWarner ==
  ASSUME IInv, NEW j \in Jobs, expiringSoonNotified[j],
         \/ UNCHANGED tick
         \/ \E t \in Ticks : Tick(t) \/ TickFails(t)
  PROVE  Warners(j)' \subseteq Warners(j)
<1> SUFFICES ASSUME NEW u \in Ticks, tick'[u].pc = "writeNotified",
                    j \in tick'[u].picked
             PROVE  u \in Warners(j)
    BY DEF Warners
<1>1. ~SelectExpiringSoon(u)
  BY PickedFacts DEF ExpiringSoon
<1>2. tick'[u] = tick[u]
  BY <1>1, TickMoves
<1> QED
  BY <1>2 DEF Warners

\* Every step keeps the count.
LEMMA NextWarnInv == IInv /\ WarnInv /\ [Next]_vars => WarnInv'
<1> SUFFICES ASSUME IInv, WarnInv, [Next]_vars, NEW j \in Jobs
             PROVE  IF expiringSoonNotified'[j]
                    THEN warnings'[j] + Cardinality(Warners(j)')
                           <= Cardinality(Ticks)
                    ELSE warnings'[j] = 0
    BY DEF WarnInv
<1> DEFINE W == Warners(j)
<1>1. W \in SUBSET Ticks /\ W' \in SUBSET Ticks
  BY DEF Warners
<1>2. warnings[j] \in Nat /\ Cardinality(W) \in Nat /\ Cardinality(W') \in Nat
      /\ Cardinality(Ticks) \in Nat /\ Cardinality(W) <= Cardinality(Ticks)
  BY <1>1, WarnersFinite DEF IInv, TypeOK
<1>3. CASE UNCHANGED <<expiringSoonNotified, warnings>>
  <2>1. CASE expiringSoonNotified[j]
    <3>1. W' \subseteq W
      BY <2>1, TickShapes, NoNewWarner DEF TickShape
    <3>2. Cardinality(W') <= Cardinality(W)
      BY <1>1, <3>1, WarnersFinite
    <3>3. warnings[j] + Cardinality(W) <= Cardinality(Ticks)
      BY <2>1 DEF WarnInv
    <3>4. warnings[j] + Cardinality(W') <= Cardinality(Ticks)
      BY <1>2, <3>2, <3>3
    <3> QED
      BY <1>3, <2>1, <3>4
  <2>2. CASE ~expiringSoonNotified[j]
    BY <1>3, <2>2 DEF WarnInv
  <2> QED
    BY <2>1, <2>2
<1>4. ASSUME NEW t \in Ticks, WriteNotified(t)
      PROVE  IF expiringSoonNotified'[j]
             THEN warnings'[j] + Cardinality(W') <= Cardinality(Ticks)
             ELSE warnings'[j] = 0
  <2>1. /\ tick[t].pc = "writeNotified"
        /\ tick' = [tick EXCEPT ![t] = At("idle")]
        /\ warnings'[j] = IF j \in tick[t].picked THEN warnings[j] + 1
                                                  ELSE warnings[j]
    BY <1>4 DEF WriteNotified
  <2>2. expiringSoonNotified'[j]
          <=> j \in tick[t].picked \/ expiringSoonNotified[j]
    BY <1>4, Zenon DEF WriteNotified
  <2>3. W' = W \ {t}
    BY <2>1 DEF Warners, At, IInv, TypeOK
  <2>4. CASE j \in tick[t].picked
    <3>1. t \in W
      BY <2>1, <2>4 DEF Warners
    <3>2. Cardinality(W') = Cardinality(W) - 1
      BY <1>1, <2>3, <3>1, WarnersFinite, FS_RemoveElement
    <3>3. \/ warnings[j] + Cardinality(W) <= Cardinality(Ticks)
          \/ warnings[j] = 0
      BY DEF WarnInv
    <3>4. warnings[j] + 1 + Cardinality(W') <= Cardinality(Ticks)
      BY <1>2, <3>2, <3>3
    <3>5. expiringSoonNotified'[j] /\ warnings'[j] = warnings[j] + 1
      BY <2>1, <2>2, <2>4
    <3> QED
      BY <3>4, <3>5
  <2>5. CASE j \notin tick[t].picked
    <3>1. t \notin W
      BY <2>5 DEF Warners
    <3>2. W' = W
      BY <2>3, <3>1
    <3>3. expiringSoonNotified'[j] <=> expiringSoonNotified[j]
      BY <2>2, <2>5
    <3> QED
      BY <2>1, <2>5, <3>2, <3>3 DEF WarnInv
  <2> QED
    BY <2>4, <2>5
<1> QED
  BY <1>3, <1>4, TickShapes, TickMoves DEF TickShape

\* For its whole life a listing gets at most one warning from each of the
\* ticks that may be under way at once, though they pick without a lock and
\* write by id.
THEOREM WarnedOncePerTickHolds == Spec => []WarnedOncePerTick
<1>1. Spec => []WarnInv
  BY InitWarnInv, NextWarnInv, Invariance, PTL DEF Spec
<1>2. ASSUME IInv, WarnInv, NEW j \in Jobs
      PROVE  warnings[j] <= Cardinality(Ticks)
  <2>1. Warners(j) \in SUBSET Ticks
    BY DEF Warners
  <2>2. /\ warnings[j] \in Nat /\ Cardinality(Warners(j)) \in Nat
        /\ Cardinality(Ticks) \in Nat
    BY <1>2, <2>1, WarnersFinite DEF IInv, TypeOK
  <2> QED
    BY <1>2, <2>2 DEF WarnInv
<1>3. IInv /\ WarnInv => WarnedOncePerTick
  BY <1>2 DEF WarnedOncePerTick
<1> QED
  BY <1>1, <1>3, Invariance, PTL

=============================================================================
