---------------------------- MODULE JobLifecycle ----------------------------
(***************************************************************************)
(* The life of a job listing: every API handler and worker sweep that      *)
(* writes the status of a row of `jobs`.                                   *)
(*                                                                         *)
(* Handlers run concurrently in the API, over a READ COMMITTED database.   *)
(* Most of them read the row, decide, and write it back by id in a later   *)
(* statement without looking again; only transitionJobToPublished locks    *)
(* the row and re-checks it.  A handler is therefore a request with a      *)
(* program counter: one step per await whose result a later step uses.     *)
(* A request whose check fails is answered with an error and leaves no     *)
(* trace, so a failed first check is no step at all.                       *)
(*                                                                         *)
(* The scheduled tick is a job of the worker's queue: one that stalls is   *)
(* handed to a second worker while the first goes on, so ticks overlap.    *)
(* Their sweeps pick rows in one statement, without a lock, and update the *)
(* picked ids in the next.                                                 *)
(***************************************************************************)
EXTENDS Integers, FiniteSets

CONSTANTS
  Jobs,            \* ids a row of jobs may get
  LegacyJobs,      \* drafts from before subscriptions: no subscription_id
  SlugBase,        \* the title-and-city part of a job's slug
  Subs,            \* subscriptions of the company
  EnterpriseSubs,  \* those of an enterprise (GAZDA) package
  Requests,        \* concurrent API requests
  Ticks,           \* ticks of the worker that may be under way at once
  ShortIds,        \* values makeShortId may draw
  MaxActiveJobs,   \* effectiveMaxActiveJobs of every subscription
  Duration,        \* duration_days_snapshot of every subscription
  Horizon,         \* days ahead of expiry a warning is sent
  SlugAttempts,    \* JOB_PUBLISH_SLUG_ATTEMPTS
  BatchSize,       \* rows one sweep takes
  MaxTime,         \* bound on the clock
  Null             \* SQL NULL

ASSUME JobAssumptions ==
  /\ LegacyJobs \subseteq Jobs
  /\ EnterpriseSubs \subseteq Subs
  /\ IsFiniteSet(Ticks)
  /\ MaxActiveJobs \in Nat /\ Duration \in Nat /\ Horizon \in Nat
  /\ SlugAttempts \in Nat /\ BatchSize \in Nat /\ MaxTime \in Nat
  /\ Null \notin Jobs \cup Subs \cup Requests \cup ShortIds \cup Nat

VARIABLES
  \* columns of jobs
  status, subscriptionId, shortId, publishedAt, expiresAt,
  expiringSoonNotified,
  \* row lock of jobs: the publish transaction that holds it
  rowLock,
  \* outbox_events: the last status event of each job, and its warnings
  lastEvent, warnings,
  \* history: the body was rewritten since a publish last looked at it
  revised,
  subStatus, now,
  req,   \* what each request has read and where it stands
  tick   \* where each tick stands, and the rows its sweep picked

jobRow == <<status, subscriptionId, shortId, publishedAt, expiresAt,
            expiringSoonNotified>>
outbox == <<lastEvent, warnings>>
vars == <<jobRow, rowLock, outbox, revised, subStatus, now, req, tick>>

JobStatus == {"absent", "draft", "submitted", "published", "rejected",
              "archived", "expired"}
SubStatus == {"pending_payment", "active", "expired", "cancelled"}

PublishableStatuses == {"draft", "submitted"}
CapStatuses == {"submitted", "published"}

\* The status each event tells its readers.
EventStatus == [job_submitted      |-> "submitted",
                job_published      |-> "published",
                job_rejected       |-> "rejected",
                job_unpublished    |-> "archived",
                job_force_archived |-> "archived",
                job_expired        |-> "expired"]
Events == DOMAIN EventStatus

ASSUME NullIsNoEvent == Null \notin Events

RequestPc == {"idle", "insert", "submitSub", "submitCap", "submitWrite",
              "editBody", "demote", "enterprise", "shortId", "publishLock",
              "publishWrite", "reject", "unpublish", "forceArchive"}
TickPc == {"idle", "abandoned", "expireJobs", "writeExpired", "notify",
           "writeNotified"}

Time == Nat \cup {Null}

RequestState == [pc : RequestPc, job : Jobs \cup {Null},
                 sub : Subs \cup {Null}, shortId : ShortIds \cup {Null},
                 at : Nat, attempt : Nat]

TickState == [pc : TickPc, picked : SUBSET Jobs]

At(pc) == [pc |-> pc, picked |-> {}]

Idle == [pc |-> "idle", job |-> Null, sub |-> Null, shortId |-> Null,
         at |-> 0, attempt |-> 0]

TypeOK ==
  /\ status \in [Jobs -> JobStatus]
  /\ subscriptionId \in [Jobs -> Subs \cup {Null}]
  /\ shortId \in [Jobs -> ShortIds \cup {Null}]
  /\ publishedAt \in [Jobs -> Time]
  /\ expiresAt \in [Jobs -> Time]
  /\ expiringSoonNotified \in [Jobs -> BOOLEAN]
  /\ rowLock \in [Jobs -> Requests \cup {Null}]
  /\ lastEvent \in [Jobs -> Events \cup {Null}]
  /\ warnings \in [Jobs -> Nat]
  /\ revised \in [Jobs -> BOOLEAN]
  /\ subStatus \in [Subs -> SubStatus]
  /\ now \in Nat
  /\ req \in [Requests -> RequestState]
  /\ tick \in [Ticks -> TickState]

Init ==
  /\ status = [j \in Jobs |-> IF j \in LegacyJobs THEN "draft" ELSE "absent"]
  /\ subscriptionId = [j \in Jobs |-> Null]
  /\ shortId = [j \in Jobs |-> Null]
  /\ publishedAt = [j \in Jobs |-> Null]
  /\ expiresAt = [j \in Jobs |-> Null]
  /\ expiringSoonNotified = [j \in Jobs |-> FALSE]
  /\ rowLock = [j \in Jobs |-> Null]
  /\ lastEvent = [j \in Jobs |-> Null]
  /\ warnings = [j \in Jobs |-> 0]
  /\ revised = [j \in Jobs |-> FALSE]
  /\ subStatus \in [Subs -> {"pending_payment", "active"}]
  /\ now = 0
  /\ req = [r \in Requests |-> Idle]
  /\ tick = [t \in Ticks |-> At("idle")]

-----------------------------------------------------------------------------
(* Building blocks of a handler.                                           *)

tables == <<jobRow, rowLock, outbox, revised, subStatus, now, tick>>

\* A new request reads row j, finds it in one of the statuses, and goes on.
Begin(r, j, from, next) ==
  /\ req[r].pc = "idle"
  /\ status[j] \in from
  /\ req' = [req EXCEPT ![r] = [Idle EXCEPT !.pc = next, !.job = j,
                                            !.sub = subscriptionId[j]]]
  /\ UNCHANGED tables

\* The next statement only reads: the request goes on or is refused.
Check(r, at, ok, next) ==
  /\ req[r].pc = at
  /\ req' = [req EXCEPT ![r] = IF ok THEN [@ EXCEPT !.pc = next] ELSE Idle]
  /\ UNCHANGED tables

\* UPDATE jobs SET status WHERE id = j, and the event, in one transaction.
\* The update waits for a publish that holds the row.
WriteStatus(r, at, to, event) ==
  LET j == req[r].job IN
  /\ req[r].pc = at
  /\ rowLock[j] = Null
  /\ status' = [status EXCEPT ![j] = to]
  /\ lastEvent' = [lastEvent EXCEPT ![j] = event]
  /\ req' = [req EXCEPT ![r] = Idle]
  /\ UNCHANGED <<subscriptionId, shortId, expiresAt, expiringSoonNotified,
                 rowLock, warnings, subStatus, now, tick>>

-----------------------------------------------------------------------------
(* Employer handlers.                                                      *)

\* resolveChosenSubscriptionIdForNewDraft: an active subscription is chosen.
\* (Bound: no more inserts in flight than ids left.)
CreateResolve(r) ==
  /\ req[r].pc = "idle"
  /\ Cardinality({q \in Requests : req[q].pc = "insert"})
       < Cardinality({j \in Jobs : status[j] = "absent"})
  /\ \E s \in Subs :
       /\ subStatus[s] = "active"
       /\ req' = [req EXCEPT ![r] = [Idle EXCEPT !.pc = "insert", !.sub = s]]
  /\ UNCHANGED tables

CreateInsert(r) ==
  /\ req[r].pc = "insert"
  /\ \E j \in Jobs :
       /\ status[j] = "absent"
       /\ status' = [status EXCEPT ![j] = "draft"]
       /\ subscriptionId' = [subscriptionId EXCEPT ![j] = req[r].sub]
  /\ req' = [req EXCEPT ![r] = Idle]
  /\ UNCHANGED <<shortId, publishedAt, expiresAt, expiringSoonNotified,
                 rowLock, outbox, revised, subStatus, now, tick>>

SubmitRead(r, j) ==
  /\ subscriptionId[j] # Null
  /\ Begin(r, j, {"draft"}, "submitSub")

SubmitCheckSubscription(r) ==
  Check(r, "submitSub", subStatus[req[r].sub] = "active", "submitCap")

ActiveCount(s) ==
  Cardinality({j \in Jobs : subscriptionId[j] = s /\ status[j] \in CapStatuses})

SubmitCountSlots(r) ==
  Check(r, "submitCap", ActiveCount(req[r].sub) < MaxActiveJobs, "submitWrite")

SubmitWrite(r) ==
  /\ WriteStatus(r, "submitWrite", "submitted", "job_submitted")
  /\ UNCHANGED <<publishedAt, revised>>

\* An employer may edit a draft in place; a live ad is edited and demoted.
EmployerEditRead(r, j) ==
  \/ Begin(r, j, {"draft"}, "editBody")
  \/ Begin(r, j, {"published"}, "demote")

\* Staff may also edit an ad that waits for review.  patchJobBody reads the
\* status only to choose the service method, which reads and checks it again.
StaffEditRead(r, j) ==
  \/ Begin(r, j, PublishableStatuses, "editBody")
  \/ Begin(r, j, {"published"}, "demote")

\* The new body is written by id: the status is not looked at again.
EditBodyWrite(r) ==
  LET j == req[r].job IN
  /\ req[r].pc = "editBody"
  /\ rowLock[j] = Null
  /\ revised' = [revised EXCEPT ![j] = TRUE]
  /\ req' = [req EXCEPT ![r] = Idle]
  /\ UNCHANGED <<jobRow, rowLock, outbox, subStatus, now, tick>>

\* Mutant: the demotion writes no job_submitted event.
DemoteWriteSilent(r) ==
  LET j == req[r].job IN
  /\ WriteStatus(r, "demote", "submitted", lastEvent[j])
  /\ publishedAt' = [publishedAt EXCEPT ![j] = Null]
  /\ revised' = [revised EXCEPT ![j] = TRUE]

\* Mutant: the demotion writes an event no reader knows.
DemoteWriteUnknownEvent(r) ==
  LET j == req[r].job IN
  /\ WriteStatus(r, "demote", "submitted", "job_edited")
  /\ publishedAt' = [publishedAt EXCEPT ![j] = Null]
  /\ revised' = [revised EXCEPT ![j] = TRUE]

DemoteWrite(r) ==
  LET j == req[r].job IN
  /\ WriteStatus(r, "demote", "submitted", "job_submitted")
  /\ publishedAt' = [publishedAt EXCEPT ![j] = Null]
  /\ revised' = [revised EXCEPT ![j] = TRUE]

-----------------------------------------------------------------------------
(* Moderator and admin decisions.                                          *)

RejectRead(r, j) == Begin(r, j, {"submitted"}, "reject")

RejectWrite(r) ==
  /\ WriteStatus(r, "reject", "rejected", "job_rejected")
  /\ UNCHANGED <<publishedAt, revised>>

UnpublishRead(r, j) == Begin(r, j, {"published"}, "unpublish")

UnpublishWrite(r) ==
  /\ WriteStatus(r, "unpublish", "archived", "job_unpublished")
  /\ UNCHANGED <<publishedAt, revised>>

\* Any existing row can be archived by force.
ForceArchiveRead(r, j) == Begin(r, j, JobStatus \ {"absent"}, "forceArchive")

ForceArchiveWrite(r) ==
  /\ WriteStatus(r, "forceArchive", "archived", "job_force_archived")
  /\ UNCHANGED <<publishedAt, revised>>

-----------------------------------------------------------------------------
(* Publishing: approve, direct publish, enterprise direct publish.         *)

\* `now` is taken before the first read and kept through every attempt.
PublishBegin(r, j, from, next) ==
  /\ req[r].pc = "idle"
  /\ status[j] \in from
  /\ req' = [req EXCEPT ![r] = [Idle EXCEPT !.pc = next, !.job = j,
                                            !.at = now]]
  /\ UNCHANGED tables

ApproveRead(r, j) == PublishBegin(r, j, {"submitted"}, "shortId")

PublishDirectlyRead(r, j) ==
  PublishBegin(r, j, PublishableStatuses, "shortId")

PublishEnterpriseRead(r, j) ==
  PublishBegin(r, j, PublishableStatuses, "enterprise")

\* Any active enterprise subscription of the company will do.
PublishEnterpriseCheck(r) ==
  Check(r, "enterprise",
        \E s \in EnterpriseSubs : subStatus[s] = "active", "shortId")

\* The short id to keep is read before the transaction.
PublishReadShortId(r) ==
  /\ req[r].pc = "shortId"
  /\ req' = [req EXCEPT ![r].pc = "publishLock",
                        ![r].shortId = shortId[req[r].job]]
  /\ UNCHANGED tables

\* Mutant: the status is not re-checked under the lock.
PublishLockUnchecked(r) ==
  LET j == req[r].job
      s == subscriptionId[j] IN
  /\ req[r].pc = "publishLock"
  /\ rowLock[j] = Null
  /\ (s # Null => subStatus[s] = "active")
  /\ rowLock' = [rowLock EXCEPT ![j] = r]
  /\ req' = [req EXCEPT ![r].pc = "publishWrite"]
  /\ UNCHANGED <<jobRow, outbox, revised, subStatus, now, tick>>

\* Mutant: the status is checked by a plain SELECT.
PublishLockNotHeld(r) ==
  /\ req[r].pc = "publishLock"
  /\ rowLock[req[r].job] = Null
  /\ Check(r, "publishLock", status[req[r].job] \in PublishableStatuses,
           "publishWrite")

\* SELECT ... FOR UPDATE OF jobs: the job is locked, its subscription is not.
PublishLock(r) ==
  LET j == req[r].job
      s == subscriptionId[j] IN
  /\ req[r].pc = "publishLock"
  /\ rowLock[j] = Null
  /\ IF status[j] \in PublishableStatuses
        /\ (s # Null => subStatus[s] = "active")
     THEN /\ rowLock' = [rowLock EXCEPT ![j] = r]
          /\ req' = [req EXCEPT ![r].pc = "publishWrite"]
     ELSE /\ req' = [req EXCEPT ![r] = Idle]
          /\ UNCHANGED rowLock
  /\ UNCHANGED <<jobRow, outbox, revised, subStatus, now, tick>>

\* The first attempt keeps the short id the job had; later ones draw.
CandidateIds(r) ==
  IF req[r].attempt = 0 /\ req[r].shortId # Null
  THEN {req[r].shortId} ELSE ShortIds

\* jobs_slug_published_unique: no two published rows with one slug.
SlugTaken(j, id) ==
  \E k \in Jobs \ {j} : /\ status[k] = "published"
                        /\ SlugBase[k] = SlugBase[j]
                        /\ shortId[k] = id

\* Mutant: every publish starts the paid period again.
ComputeJobExpiresAtAfresh(existing, at, s) ==
  IF s = Null THEN Null ELSE at + Duration

ComputeJobExpiresAt(existing, at, s) ==
  IF existing # Null THEN existing
  ELSE IF s = Null THEN Null ELSE at + Duration

PublishCommit(r) ==
  LET j == req[r].job IN
  /\ req[r].pc = "publishWrite"
  /\ \E id \in CandidateIds(r) :
       /\ ~SlugTaken(j, id)
       /\ shortId' = [shortId EXCEPT ![j] = id]
  /\ status' = [status EXCEPT ![j] = "published"]
  /\ publishedAt' = [publishedAt EXCEPT ![j] = req[r].at]
  /\ expiresAt' = [expiresAt EXCEPT ![j] =
                     ComputeJobExpiresAt(@, req[r].at, subscriptionId[j])]
  /\ lastEvent' = [lastEvent EXCEPT ![j] = "job_published"]
  /\ revised' = [revised EXCEPT ![j] = FALSE]
  /\ rowLock' = [rowLock EXCEPT ![j] = Null]
  /\ req' = [req EXCEPT ![r] = Idle]
  /\ UNCHANGED <<subscriptionId, expiringSoonNotified, warnings, subStatus,
                 now, tick>>

\* Mutant: the attempts are not counted.
PublishCollideUncounted(r) ==
  LET j == req[r].job IN
  /\ req[r].pc = "publishWrite"
  /\ \E id \in CandidateIds(r) : SlugTaken(j, id)
  /\ rowLock' = [rowLock EXCEPT ![j] = Null]
  /\ req' = [req EXCEPT ![r].pc = "publishLock"]
  /\ UNCHANGED <<jobRow, outbox, revised, subStatus, now, tick>>

\* A unique violation rolls the transaction back; the next attempt locks
\* and checks again, until JOB_SLUG_COLLISION.
PublishCollide(r) ==
  LET j == req[r].job IN
  /\ req[r].pc = "publishWrite"
  /\ \E id \in CandidateIds(r) : SlugTaken(j, id)
  /\ rowLock' = [rowLock EXCEPT ![j] = Null]
  /\ req' = [req EXCEPT ![r] =
               IF req[r].attempt + 1 < SlugAttempts
               THEN [req[r] EXCEPT !.pc = "publishLock",
                                   !.attempt = req[r].attempt + 1]
               ELSE Idle]
  /\ UNCHANGED <<jobRow, outbox, revised, subStatus, now, tick>>

-----------------------------------------------------------------------------
(* Subscriptions, as far as listings see them.                             *)

ActivateSubscription(s) ==
  /\ subStatus[s] = "pending_payment"
  /\ subStatus' = [subStatus EXCEPT ![s] = "active"]
  /\ UNCHANGED <<jobRow, rowLock, outbox, revised, now, req, tick>>

CancelSubscription(s) ==
  /\ subStatus[s] \in {"pending_payment", "active"}
  /\ subStatus' = [subStatus EXCEPT ![s] = "cancelled"]
  /\ UNCHANGED <<jobRow, rowLock, outbox, revised, now, req, tick>>

-----------------------------------------------------------------------------
(* The worker's scheduled ticks: four sweeps in order.                     *)

\* One conditional UPDATE; ends_at is abstracted to "some of the active".
ExpireSubscriptions(t) ==
  /\ tick[t].pc = "idle"
  /\ \E S \in SUBSET {s \in Subs : subStatus[s] = "active"} :
       subStatus' = [s \in Subs |-> IF s \in S THEN "expired"
                                               ELSE subStatus[s]]
  /\ tick' = [tick EXCEPT ![t] = At("abandoned")]
  /\ UNCHANGED <<jobRow, rowLock, outbox, revised, now, req>>

CancelAbandoned(t) ==
  /\ tick[t].pc = "abandoned"
  /\ \E S \in SUBSET {s \in Subs : subStatus[s] = "pending_payment"} :
       subStatus' = [s \in Subs |-> IF s \in S THEN "cancelled"
                                               ELSE subStatus[s]]
  /\ tick' = [tick EXCEPT ![t] = At("expireJobs")]
  /\ UNCHANGED <<jobRow, rowLock, outbox, revised, now, req>>

\* Mutant: a day too early.
OverdueEarly(j) ==
  /\ status[j] = "published"
  /\ expiresAt[j] # Null
  /\ expiresAt[j] <= now

Overdue(j) ==
  /\ status[j] = "published"
  /\ expiresAt[j] # Null
  /\ expiresAt[j] < now

\* Mutant: expiring_soon_notified_at is not looked at.
ExpiringSoonAgain(j) ==
  /\ status[j] = "published"
  /\ expiresAt[j] # Null
  /\ expiresAt[j] > now
  /\ expiresAt[j] <= now + Horizon

ExpiringSoon(j) ==
  /\ status[j] = "published"
  /\ expiresAt[j] # Null
  /\ expiresAt[j] > now
  /\ expiresAt[j] <= now + Horizon
  /\ ~expiringSoonNotified[j]

\* ORDER BY expires_at LIMIT batchSize
FirstBatch(S) ==
  {P \in SUBSET S :
     /\ Cardinality(P) = IF Cardinality(S) < BatchSize THEN Cardinality(S)
                                                       ELSE BatchSize
     /\ \A p \in P, q \in S \ P : expiresAt[p] <= expiresAt[q]}

\* No rows: the sweep returns 0 and the tick goes on to `otherwise`.
Pick(t, at, S, write, otherwise) ==
  /\ tick[t].pc = at
  /\ \E P \in FirstBatch(S) :
       tick' = [tick EXCEPT ![t] = [pc |-> IF P = {} THEN otherwise ELSE write,
                                    picked |-> P]]
  /\ UNCHANGED <<jobRow, rowLock, outbox, revised, subStatus, now, req>>

\* Mutant: only listings that were warned are expired.
SelectExpiredWarned(t) ==
  Pick(t, "expireJobs", {j \in Jobs : Overdue(j) /\ expiringSoonNotified[j]},
       "writeExpired", "notify")

SelectExpired(t) ==
  Pick(t, "expireJobs", {j \in Jobs : Overdue(j)}, "writeExpired", "notify")

\* Mutant: the update re-checks the status, the events are written anyway.
WriteExpiredHalfChecked(t) ==
  /\ tick[t].pc = "writeExpired"
  /\ \A j \in tick[t].picked : rowLock[j] = Null
  /\ status' = [j \in Jobs |->
                  IF j \in tick[t].picked /\ status[j] = "published"
                  THEN "expired" ELSE status[j]]
  /\ lastEvent' = [j \in Jobs |-> IF j \in tick[t].picked THEN "job_expired"
                                                       ELSE lastEvent[j]]
  /\ tick' = [tick EXCEPT ![t] = At("notify")]
  /\ UNCHANGED <<subscriptionId, shortId, publishedAt, expiresAt,
                 expiringSoonNotified, rowLock, warnings, revised, subStatus,
                 now, req>>

\* UPDATE ... WHERE id IN picked: the status is not looked at again.
WriteExpired(t) ==
  /\ tick[t].pc = "writeExpired"
  /\ \A j \in tick[t].picked : rowLock[j] = Null
  /\ status' = [j \in Jobs |-> IF j \in tick[t].picked THEN "expired"
                                                    ELSE status[j]]
  /\ lastEvent' = [j \in Jobs |-> IF j \in tick[t].picked THEN "job_expired"
                                                       ELSE lastEvent[j]]
  /\ tick' = [tick EXCEPT ![t] = At("notify")]
  /\ UNCHANGED <<subscriptionId, shortId, publishedAt, expiresAt,
                 expiringSoonNotified, rowLock, warnings, revised, subStatus,
                 now, req>>

SelectExpiringSoon(t) ==
  Pick(t, "notify", {j \in Jobs : ExpiringSoon(j)}, "writeNotified", "idle")

WriteNotified(t) ==
  /\ tick[t].pc = "writeNotified"
  /\ \A j \in tick[t].picked : rowLock[j] = Null
  /\ expiringSoonNotified' =
       [j \in Jobs |-> j \in tick[t].picked \/ expiringSoonNotified[j]]
  /\ warnings' = [j \in Jobs |-> IF j \in tick[t].picked THEN warnings[j] + 1
                                                      ELSE warnings[j]]
  /\ tick' = [tick EXCEPT ![t] = At("idle")]
  /\ UNCHANGED <<status, subscriptionId, shortId, publishedAt, expiresAt,
                 rowLock, lastEvent, revised, subStatus, now, req>>

\* The worker dies or the database refuses: the open transaction is rolled
\* back, and the next tick starts from the first sweep (attempts = 1).
TickFails(t) ==
  /\ tick[t].pc # "idle"
  /\ tick' = [tick EXCEPT ![t] = At("idle")]
  /\ UNCHANGED <<jobRow, rowLock, outbox, revised, subStatus, now, req>>

AdvanceTime ==
  /\ now < MaxTime
  /\ now' = now + 1
  /\ UNCHANGED <<jobRow, rowLock, outbox, revised, subStatus, req, tick>>

-----------------------------------------------------------------------------
StartRequest(r) ==
  \/ CreateResolve(r)
  \/ \E j \in Jobs : \/ SubmitRead(r, j)
                     \/ EmployerEditRead(r, j) \/ StaffEditRead(r, j)
                     \/ RejectRead(r, j) \/ UnpublishRead(r, j)
                     \/ ForceArchiveRead(r, j)
                     \/ ApproveRead(r, j) \/ PublishDirectlyRead(r, j)
                     \/ PublishEnterpriseRead(r, j)

ContinueRequest(r) ==
  \/ CreateInsert(r)
  \/ SubmitCheckSubscription(r) \/ SubmitCountSlots(r) \/ SubmitWrite(r)
  \/ EditBodyWrite(r) \/ DemoteWrite(r)
  \/ RejectWrite(r) \/ UnpublishWrite(r) \/ ForceArchiveWrite(r)
  \/ PublishEnterpriseCheck(r) \/ PublishReadShortId(r) \/ PublishLock(r)
  \/ PublishCommit(r) \/ PublishCollide(r)

Subscription == \E s \in Subs : ActivateSubscription(s) \/ CancelSubscription(s)

Tick(t) == \/ ExpireSubscriptions(t) \/ CancelAbandoned(t)
           \/ SelectExpired(t) \/ WriteExpired(t)
           \/ SelectExpiringSoon(t) \/ WriteNotified(t)

Next ==
  \/ \E r \in Requests : StartRequest(r) \/ ContinueRequest(r)
  \/ Subscription
  \/ \E t \in Ticks : Tick(t) \/ TickFails(t)
  \/ AdvanceTime

Spec == Init /\ [][Next]_vars

\* A request runs to its answer: row locks are granted in turn, so it is not
\* passed over for ever.  The scheduler keeps firing ticks, one of which comes
\* to its next sweep though others stall or fail; no one tick has to.
Fairness ==
  /\ \A r \in Requests : SF_vars(ContinueRequest(r))
  /\ WF_vars(\E t \in Ticks : Tick(t))
  /\ SF_vars(\E t \in Ticks : CancelAbandoned(t))
  /\ SF_vars(\E t \in Ticks : SelectExpired(t))
  /\ SF_vars(\E t \in Ticks : WriteExpired(t))

FairSpec == Spec /\ Fairness

-----------------------------------------------------------------------------
(* Properties.                                                             *)

\* The last event of a job tells its status, and a job without events has
\* never left draft: whatever requests and sweeps race on a row, its status
\* and its event are written in one transaction under the row's lock
\* (job-publish.ts, job-expiry.ts, submitJobForModeration, rejectJob ...).
OutboxMirrorsStatus ==
  \A j \in Jobs :
    IF lastEvent[j] = Null THEN status[j] \in {"absent", "draft"}
                           ELSE status[j] = EventStatus[lastEvent[j]]

\* A listing goes live only from draft or submitted, never from a state a
\* racing reject, archive or expiry has just put it in: what the re-check
\* under the row lock of transitionJobToPublished is for.
GoesLiveFromReview ==
  [][\A j \in Jobs : status'[j] = "published" /\ status[j] # "published"
                       => status[j] \in PublishableStatuses]_vars

\* Nothing publishes a live listing again: while it stays live its publish
\* date, its short id (the public URL) and its expiry stay as they are.
LiveListingIsStable ==
  [][\A j \in Jobs : status[j] = "published" /\ status'[j] = "published"
       => UNCHANGED <<publishedAt[j], shortId[j], expiresAt[j]>>]_vars

\* Paid time is neither restarted nor stopped: once a listing has an expiry
\* date no demotion, re-approval, unpublish or sweep changes it
\* (computeJobExpiresAt; PRODUCT_SSOT 5.2 invariant 3).
ExpiryClockKept ==
  [][\A j \in Jobs : expiresAt[j] # Null => expiresAt'[j] = expiresAt[j]]_vars

\* A listing is expired only after its paid time ran out, even when the
\* sweep writes over a row that changed since it was picked.
ExpiredRanOut ==
  \A j \in Jobs : status[j] = "expired"
                     => expiresAt[j] # Null /\ expiresAt[j] < now

\* A listing is warned again only by a tick that picked it before the first
\* warning was written: for its whole life, however often it is demoted and
\* approved again, it gets at most one warning from each of the ticks that
\* were under way then (notifyPublishedJobsExpiringSoon; with one tick, one).
WarnedOncePerTick == \A j \in Jobs : warnings[j] <= Cardinality(Ticks)

\* A listing past its expiry is taken down (or back to review) in the end,
\* though ticks may fail and requests race the sweep.  (The batch must hold
\* every overdue listing: one that a stale demotion brings back over and over
\* can take the place of another in a smaller batch.)
OverdueIsTakenDown ==
  \A j \in Jobs : Overdue(j) ~> status[j] # "published"

\* Every request is answered: no row lock is left behind, and the slug
\* attempts of a publish end (transitionJobToPublished).
RequestsAreAnswered ==
  \A r \in Requests : req[r].pc # "idle" ~> req[r].pc = "idle"

\* The outbox keeps the promise ListingFeed states.
Feed == INSTANCE ListingFeed
          WITH live <- {j \in Jobs : status[j] = "published"},
               feed <- lastEvent
FeedSpec == Feed!Spec

-----------------------------------------------------------------------------
(* What the documents say and the code does not do.                        *)

\* PRODUCT_SSOT 5.2 invariant 7, "must always hold": editing a live job
\* demotes it to pending, so no body is live that no publish has looked at
\* (and its decision log: "employer always reviewed").  A draft edit that
\* read `draft` before a publish writes after it.
LiveBodyIsReviewed ==
  \A j \in Jobs : status[j] = "published" => ~revised[j]

=============================================================================
