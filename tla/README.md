# Verification of the hireforge (Šljakam) job board

TLA+ models of the parts of the job board where money, listings and mail depend
on the order of concurrent steps, checked with TLC and, for all but the sales
pipeline, proved with TLAPS. Paths are relative to the repository.

- [The system](#the-system)
- [Modules](#modules)
- [Runs](#runs), [bounds](#bounds), [fairness](#fairness)
- [Proofs](#proofs)
- [Where documents and code disagree](#where-documents-and-code-disagree)
- [Not modelled](#not-modelled), [plan](#plan)

## The system

Three processes share one Postgres database (READ COMMITTED) and one Redis:

| Component | Source | State it keeps | Operations | Modelled in |
|---|---|---|---|---|
| Job handlers of the API | `apps/api/src/employer`, `moderation`, `admin` | rows of `jobs`, events | create, edit, submit, reject, unpublish, force archive, three ways to publish | `JobLifecycle` |
| Publish transaction | `libs/server/jobs/src/lib/job-publish.ts` | row lock, slug and short id | lock, re-check, write, retry on a slug collision | `JobLifecycle` |
| Job sweeps | `libs/server/jobs/src/lib/job-expiry.ts` | `jobs`, events | expire overdue, warn of expiry | `JobLifecycle` |
| Scheduled tick | `apps/worker/src/main.ts` | where each tick under way stands | four sweeps in order | `JobLifecycle` |
| Outbox | `apps/worker/src/outbox*.ts` | `outbox_events`, `outbox_dead_letters`, BullMQ jobs | poll, claim, hooks, after-commit, dead letters | `Outbox` |
| Mails | `apps/worker/src/notification-email.ts`, `billing-email-dispatch.ts` | keys known to Resend | send per recipient | `Outbox` |
| Subscriptions | `apps/api/src/subscriptions` | `subscriptions`, `proformas`, `invoices`, promo redemptions | purchase, mark paid, activate, cancel | `Billing` |
| Subscription sweeps | `libs/server/billing/src/lib/subscription-expiry.ts` | as above | expire, cancel abandoned | `Billing` |
| Numbering | `libs/server/billing/src/lib/billing-numbering.ts` | `billing_sequences`, advisory locks | allocate | `Billing` |
| Promo administration | `apps/api/src/admin/admin-promo-codes.service.ts`, `admin-campaigns.service.ts` | `promo_codes` | pause, resume | `Billing` (in part) |
| Search indexing | `apps/worker/src/search-indexing.ts` | pending changes in memory | enqueue, flush, tell IndexNow and Google | `SearchIndexing` |
| Applications | `apps/api/src/candidate/candidate.service.ts`, `employer/employer-applications.service.ts` | `applications` | apply, withdraw, open the CV, decide, delete a CV | `Applications` |
| Uploads | `candidate.service.ts`, `company-logos`, `job-description-media`, `storage` | the file store and the rows that point at it | upload, replace, remove | `Uploads` |
| Company sign-up and staff | `apps/api/src/auth/auth.service.ts`, `staff` | `companies`, `company_join_requests`, memberships | register, decide, create a lead, edit, open an account, move | `Companies` |
| Sales pipeline | `staff/staff-companies.service.ts`, `admin.service.ts` | `sales_status`, assigned moderator, its history | pick up, close won, close lost, reassign | `SalesPipeline` |
| Accounts | `apps/api/src/auth` | `users`, `auth_tokens` | mail a link, follow it, log in, refresh, change a role | `Accounts` |
| Web sessions | `apps/web/src/middleware`, `app/api`, `lib/sign-out.ts` | the cookies of each kind of user | log in, renew, rotate, log out | `WebSessions` |
| Job form | `apps/web/src/features/employer/components/job-draft-form-page.tsx` and its hooks | the form, the chain of saves | type, autosave, save, submit | `JobEditor` |
| Public search, PDFs, CMS mirror, other pages, studio | | | | not modelled |

**Interaction.** A business transaction writes its rows and an `outbox_events`
row together. The worker's poller turns unprocessed rows into BullMQ jobs
(`outbox-<id>`); the dispatch handler claims the row (`processed_at`), runs the
hooks in the same transaction, and after the commit queues a notification mail
and tells the search indexing. The scheduled tick runs the sweeps: subscriptions
past their end, abandoned purchases, overdue listings, warnings of expiry. The
web application calls the API over HTTP: it keeps no state but cookies and what
a form holds until it is saved. Subscriptions gate listings: a job is submitted and published only while its
subscription is active, and takes its expiry date from it.

**What is hard.**

- Most handlers read a row, decide, and write it back by id in a later
  statement. The status may have changed in between. Only the publish
  transaction locks and re-checks; the sweeps of the worker race with all.
- BullMQ delivers at least once. A job is retried after a failure, and given to
  a second worker when the first is slow or dead. What was done before must not
  be done again, and what was not done must not be lost.
- Billing transactions take several locks in turn, may be aborted at any point,
  and must leave neither gaps in fiscal numbers nor a counter that does not
  match its rows.
- A file and the row that points at it live in two stores without a common
  transaction; each may be there without the other.
- A link in a mail may be followed twice at once, a session outlives what it was
  granted for, and a decision may be taken by two people.
- The browser sends requests that overtake each other, fail on the way back, and
  are answered after the page has moved on.
- The search notifier keeps what it has to tell in memory while it waits for
  engines that take minutes.

What makes the components correct: status and event never come apart, a listing
goes live only from review and once, paid time neither restarts nor stops
(`JobLifecycle`); an event is handed over once and settled in the end, nobody is
mailed twice (`Outbox`); numbers without gaps, one invoice per subscription,
promo limits kept under parallel purchases (`Billing`); rows have their files
and files their rows, an application keeps its CV and never leaves a decision
(`Uploads`, `Applications`); one decision per join request, one company per
sign-up, no membership that nobody vetted (`Companies`); a link works once and no
session survives a reset or a role change (`Accounts`, `WebSessions`); engines end
up with the latest change of a page (`SearchIndexing`); saves land in order and
the last text is saved (`JobEditor`).

## Modules

### JobLifecycle

One row per job: `status`, `subscriptionId`, `shortId`, `publishedAt`,
`expiresAt`, `expiringSoonNotified` are the columns; `lastEvent` is the newest
status event of the job in the outbox, `warnings` counts its `job_expiring_soon`
events; `rowLock` is the lock of `SELECT ... FOR UPDATE`; `revised` records that
the body was written since a publish last looked at it. A request has a program
counter in `req`: one step per `await` whose result a later step uses, so
`SubmitRead`, `SubmitCheckSubscription`, `SubmitCountSlots`, `SubmitWrite` are the
statements of `submitJobForModeration`. Every update of a locked row waits for
the lock. `tick` has the scheduled ticks that may be under way at once: a tick is
a job of the worker's queue, and one that stalls is given to a second worker while
the first goes on (subscription-expiry.ts:49 expects it too). `SelectExpired` and
`WriteExpired` are the two statements of the sweep's transaction, which under READ
COMMITTED sees what others commit in between.

A request that fails its first check leaves no trace and is no step. Deadlines
are days of an integer clock. The three publish handlers differ in their checks
and share `transitionJobToPublished`, from `PublishReadShortId` to
`PublishCommit` or `PublishCollide`. `createDraftJobForCompanyAsStaff` is the same
two steps as `createDraftJob`. `LegacyJobs` are drafts without a subscription,
which the publish transaction lets through and never gives an expiry.
Subscriptions appear as their status alone; `Billing` has the rest.

### ListingFeed

What the outbox promises: a reader that keeps only the last event per job knows
which listings are live. `JobLifecycle` implements it with `live` as the published
jobs and `feed` as `lastEvent` (`FeedSpec`).

### Contracts of the other components

Five more modules say what a component promises, one whole operation at a time and
without locks, reads and requests; the run of the component checks the promise as
`...Spec`, and its proof module proves it.

| Contract | Implemented by | Maps | Promises |
|---|---|---|---|
| `EventMail` | `Outbox` (`MailSpec`) | `stage` is `row` | each event is claimed once, and only then mailed, once per recipient, as its kind asks |
| `SubscriptionLedger` | `Billing` (`LedgerSpec`) | a book lists the subscriptions of `proformaNumber` and `invoiceNumber` in the order of their numbers | a promo is usable when the purchase commits, what is paid was unpaid and asked for, books only grow |
| `CandidateDesk` | `Uploads`, `Applications` (`DeskSpec`) | `made` are the keys with an `area`, `apps` the rows without their times | a file is in one row at most, and is thrown away when it is in none; one active application per job, whose CV stays; statuses move along the graph |
| `CompanyRegister` | `Companies` (`RegisterSpec`) | the tables as they are | a sign-up founds a company or asks to join one; a decision is one step with its event, its membership, and what it fills in of the row as it is then |
| `AccountAccess` | `Accounts`, `WebSessions` (`AccessSpec`) | the sessions `open` are the cookies and tokens whose version is the user's, shown with the password and role they were opened with | a session opens with today's password and role, a new password or role closes them all; a link works once |

They say more than the invariants beside them: the invariants hold in each state, the
contract allows only certain changes of it, so that a number taken back and given
again, or a session that opens by itself, is ruled out too.

### Outbox

`row` and `letters` are the two tables, `letterSent` the inserts of dead letters
that nobody awaits. `queue` is BullMQ's record of a job: state, attempts made,
stalls, and the worker that holds its lock. `batch` is what the poll in progress
still has to add. A worker that lost its lock goes on without knowing, and its
result is ignored. `afterCommit` and the billing mail run between the commit and
the job's end, where a worker may crash. `handovers`, `mails` and `billingMails`
are history.

External: `Queue.add` with a known id does nothing (`Add`), stalls (`Stall`,
`FailStalled`), retention of finished jobs (`Forget`), crashes, and Resend's
idempotency keys (`Deliver`). A send may fail although the mail went out. Resend
forgets a key after 24 hours; the six attempts of a notification take some five
minutes, so keys are kept for ever. The recipients of an event do not change
while it is mailed, and there is at least one; the handler returns without a
mail where the job or its recipients are gone.

### Billing

A transaction is a sequence of locks, one step each: the typed promo code, the
campaign, the proforma number; or the subscription and the invoice number; or,
for the sweep, the subscriptions it picked (SKIP LOCKED) and the promos they
redeemed. Its writes are made at the commit, since nobody sees them before;
`Abort` gives back the locks at any point. `CancelByAdmin` and `Expire` take one
lock and are one step. Purchases that cost nothing become active at once. Dates
are abstracted: which subscription is past its end or 14 days old, and when a
promo's window is open, is chosen freely. `TogglePromo` stands for pausing,
resuming, and the window of a promo. There is one year, so one sequence per
kind of document.

`MarkPaid` and `activateEnterpriseByAdmin` are the same steps; an enterprise
subscription (`Enterprise`) may lack a proforma. Limits of a promo
(`max_redemptions`, `max_per_company`) do not change: an admin who lowers one
below what is used makes `RedemptionsAreCounted` and `CompanyKeepsLimit` moot.

### SearchIndexing

EXTENDS `Outbox` and replaces its `AfterCommit` by `Hand`, which also puts the
change into `pending`, the `Map` of the worker (`enqueueJobChange`). `Flush` takes the
whole map at once and starts a flight: a batch that goes on by itself while new
changes are queued, from looking the pages up (`Lookup`) to the two engines, each
with its own failures. A restart loses what is in memory. `latest`, `told` and
`dropped` are history: the last change queued for a page, what an engine heard last,
and what it was never told. Left out: the locales of a page (each is told alike)
and Google's access token (a failure to get it is a failure to tell).

### Uploads and Applications

`store` is the file store, `resumes` (with `primary`), `pointer` and `images` the rows
that name a file; `area` says what a key was made for. An upload is a step per call
of the store and per statement: `Put`, then the row, then the file it replaces.
`DemoteStart` and `DemoteEnd` are one `UPDATE` that takes `is_primary` from all CVs: it
sees the rows there were when it started and waits for those that others are
changing. `mishap` records a crash or a failed removal, after which a file without
a row is legal.

`Applications` EXTENDS it: `apps` are the rows, `ap` the requests about them.
`insertApplication` reads the job, the active application, the last withdrawal and
the CV, and inserts, each a statement that sees what others committed;
`InsertApplication` is subject to the partial unique index and to the foreign key.
`Decide` is one step because the row is locked from its check on. Left out: cover
letters, the daily limit, saved jobs and searches, the candidate's profile.

### Companies

`companies`, `joins` and `memberOf` are the tables, `events` the outbox entries about
decisions, `account` the emails taken. Sign-up holds an advisory lock from the match to
the commit; a decision holds the join request, and to fill in the company its row
(`DecideLock`, `FillRead`, `Approve`); staff edits wait for that row. Everything else
checks first and writes by id, as two steps. A company is a name, one identifier and
one more field that sign-up or staff may have filled in, and staff may clear again. Left out: slugs, audit
entries, and which companies a staff member may see (any request may be in scope).
The table allows a person several companies; no request gives a member a second one.

### SalesPipeline

`sales`, `moderator` and `history` are the two columns and the table of
reassignments. Each request reads the company, checks, and writes by id.

### Accounts and WebSessions

`users` and `tokens` are rows, `signed` the refresh tokens that exist. A password is a
number, so that a session can say which one it goes back to. `IssueVoid` and
`IssueInsert` are the two statements of `issueAuthToken`; `ConsumeLock` is the `FOR UPDATE`
of `consumeAuthToken`, held until the effect commits (`VerifyEmail`,
`SetPasswordFromLink`). `LoginRead` and `LoginSign` have the password check between
them, `Refresh` and `RefreshAnswer` the version check. `PatchUser` is the change of a
role by an administrator, who is outside the model.

`WebSessions` EXTENDS it with one browser: `jar` holds a refresh cookie for each kind
of user, `page` what the browser is waiting for. It reads the cookies when a request is
sent and changes them when the answer arrives; a page may renew its session at any
time, since the access cookie may be about to expire. The refresh route of candidates
reads no cookie: `CandidateRotate` sends any refresh token there is and stores the answer
in the candidate cookies, whatever its role. The sign-up routes set the cookies of their
kind and clear the others, as a login does, and are not actions of their own. Left out:
access tokens (15 minutes, whatever happens), hashing, mail delivery, rate limits, the
check that an administrator remains, sign-up itself (accounts are there at the start).

### JobEditor

`form` counts the edits and holds the text and the fields that do not parse. A text is
the number of the edit that first brought it, so an edit can bring an earlier one back;
back at `persisted`, which is `lastPersistedRef`, no timer is armed (`Edit`). `saves` is the
chain of `patchChainRef`, `job` the row. A save goes out when the one before it is over,
is checked and written by the API as two steps (`CheckSave`, `WriteSave`), and may be
lost on either way. When the browser sees it fail first, the API may still be at it:
`LoseSave` puts it among the saves `adrift`, which `WriteAdrift` writes at some later time
or never. `outrun` is history, for what `EditsAreSaved` has to except. `initial` is the status the
page was loaded with, which decides what may be edited and whether there is a submit
button. Left out: slots, the budget of characters, creating the draft, the staff
portal's direct publish. One tab and one user, so nobody else writes the row.

## Runs

| Run | Checks | Shows |
|---|---|---|
| `JobRaces` | `TypeOK`, `OutboxMirrorsStatus`, `ExpiredRanOut`, `WarnedOncePerTick`, `GoesLiveFromReview`, `LiveListingIsStable`, `ExpiryClockKept`, `FeedSpec` | what holds for two requests and two overlapping ticks racing on one row |
| `JobLiveness` | `RequestsAreAnswered`, `OverdueIsTakenDown` | a publish whose slug collides tries again and ends; the sweep gets its work done |
| `OutboxMail` | `HandedOverOnce`, `NoDuplicateMail`, `MailSpec`, `NotificationIsSettled` | retries, stalls and crashes with two workers |
| `OutboxBatch` | `EventIsSettled` | events of which one may fail for good, in a batch of one |
| `Billing` | `NumbersAreGapFree`, `BooksAgree`, `LoserIsRefusedCleanly`, `RedemptionsAreCounted`, `CompanyKeepsLimit`, `LedgerSpec` | two requests, the sweep and aborts |
| `Applications` | `RowsHaveFiles`, `NoFileLeftBehind`, `CvKept`, `CooldownKept`, `DeskSpec` | a candidate with two tabs, an employer, and uploads that fail |
| `Companies` | `DecidedOnce`, `MembersAreVetted`, `SignupsShareACompany`, `FillsOnlyEmpty`, `RegisterSpec` | sign-ups, two staff members who decide, and edits meanwhile |
| `Sessions` | `LinkWorksOnce`, `NewLinkVoidsOlder`, `AcceptedSessionsAreCurrent`, `CookiesFollowRole`, `AccessSpec` | logins, refreshes, links and a role change in one browser |
| `SearchIndexing` | `LatestChangeWins` | changes queued during a flush, failing requests, restarts |
| `JobEditor` | `SavesLandInOrder`, `EditsAreSaved` | typing and taking back beside autosaves, the save button, submit, and lost answers |
| `StaleDraftEdit` | `LiveBodyIsReviewed` | a statement of the product document that the code does not keep, see below |
| `ClosedWonPickup` | `ClosedWonKeepsModerator` | a statement of the schema that the code does not keep, see below |

Only `JobRaces` checks its `TypeOK`. The other modules have one all the same
(`SearchTypeOK` in `SearchIndexing`), which their runs were given while they were
written; all but those of `SearchIndexing` and `SalesPipeline` are proved. So is
`MailsAreCommitted` of `Outbox`, most of which `MailSpec` contains, and
`StatusFollowsGraph` of `Applications`, which `DeskSpec` contains.

### Bounds

- `JobRaces`: a race of two requests needs two requests and one row; the third
  party is the worker, with two ticks that overlap. Time to 2 with a duration of 1
  lets a listing be warned, expire, and be approved again after its expiry. Collisions
  of slugs need a second job and are met in `JobLiveness`.
- `JobLiveness`: two jobs with the same title and city, two short ids, two attempts: a
  publish can collide, draw again, and collide again. A batch holds every overdue
  listing. A smaller one would make `OverdueIsTakenDown` false for a reason of its own:
  a listing that stale demotions and approvals bring back has the oldest date and
  takes the place of others. One request and one tick: who wins a race is the question
  of `JobRaces`, and a request that waits for another's row lock is left to the
  argument that Postgres queues waiters.
- `StaleDraftEdit`: one job and two requests, an edit and a publish.
- `OutboxMail`: one event, since events share only the batch; two recipients,
  so that a mail can fail after another was sent; two attempts and one stall,
  so that each limit is met. `OutboxBatch`: two events and a batch of one, so that
  one can starve the other.
- `Billing`: two purchasable subscriptions and one enterprise, one company. The
  code sells out after one purchase, the campaign is for each company once and
  makes a purchase free, so every refusal and both kinds of purchase occur. Two
  requests race; the sweep takes two subscriptions at once. Requests are
  interchangeable, and so are the two purchasable subscriptions (symmetry).
- `Applications`: two uploads in flight, so one can overtake or replace the other;
  two requests about applications to one job, applied to twice; a cooldown of one
  unit and a clock that reaches it. Keys, requests and ids are interchangeable.
- `Companies`: two companies, two people, one name and one identifier, two requests:
  a sign-up matches by name, by identifier or not at all, and both may match what
  the other makes.
- `Sessions`: one user, two links, two requests of the browser, one change of
  `token_version`, so that a request started before the change can end after it. The
  account is an employer's and may become a candidate's or a moderator's (`FirstRoles`,
  `GivenRoles`): one role for each kind of cookie.
- `SearchIndexing`: two events about one page, one worker, one attempt. Events about
  different pages share only the batch.
- `JobEditor`: three edits and two saves: a text, a second one, and one taken back, while
  a save is under way or adrift and another waits.
- `ClosedWonPickup`: one company, two moderators, an administrator, two requests.
- The bounds in the modules: `MaxTime` stops the clock of `JobLifecycle` and
  `Applications`; a row is created only while an id is left (drafts, applications,
  companies, links, storage keys); `MaxVersion` (`token_version`), `MaxReassigns`,
  `MaxEdits`, `MaxSaves`. Every other counter is bounded by the code itself.

### Fairness

- `JobLifecycle`: a request goes on until it is answered (strong, because a row
  lock can be taken again and again before it is its turn, and Postgres queues
  waiters). The scheduler keeps firing ticks and some tick goes on (weak), and a sweep
  that is retried is not interrupted every time (strong on the sweeps up to
  `WriteExpired`, for some tick). No single tick has to go on: it may stall for ever.
  Nothing makes anyone start a request or act on a job.
- `Outbox`: the poller's timer, workers that go on, BullMQ's stalled check for
  abandoned jobs (weak); adding a row, inserting a dead letter and taking a job
  succeed if tried again and again (strong). Crashes, stalls of live workers and
  failures are not fair: they may or may not happen.
- `JobEditor`: the autosave's timer fires, the chain of promises goes on, and a
  request ends with an answer or an error (weak). Typing and buttons are not fair:
  `EditsAreSaved` is about someone who types and then does nothing. A save adrift need
  never be written.

## Proofs

A module `XProofs` proves about `X` for every value of the constants what the runs
check on small instances. Every safety property of the passing runs is proved.

| Module | Theorems | From |
|---|---|---|
| `JobLifecycleProofs` | `TypeCorrect`, `OutboxCorrect`, `GoesLiveFromReviewHolds`, `LiveListingIsStableHolds`, `ExpiryClockKeptHolds`, `ExpiredRanOutHolds`, `WarnedOncePerTickHolds`, `ImplementsFeed` | `JobAssumptions`, `NullIsNoEvent` |
| `OutboxProofs` | `TypeCorrect`, `HandedOverOnceHolds`, `NoDuplicateMailHolds`, `MailsAreCommittedHolds`, `ImplementsMail` | `OutboxAssumptions` |
| `BillingProofs` | `TypeCorrect`, `NumbersAreGapFreeHolds`, `BooksAgreeHolds`, `LoserIsRefusedCleanlyHolds`, `RedemptionsAreCountedHolds`, `CompanyKeepsLimitHolds`, `ImplementsLedger` | `BillingAssumptions` |
| `ApplicationsProofs` | `TypeCorrect`, `RowsHaveFilesHolds`, `NoFileLeftBehindHolds`, `CvKeptHolds`, `CooldownKeptHolds`, `StatusFollowsGraphHolds`, `ImplementsDesk` | `UploadsAssumptions`, `ApplicationsAssumptions`, `NullIsNoApplication` |
| `CompaniesProofs` | `TypeCorrect`, `DecidedOnceHolds`, `MembersAreVettedHolds`, `SignupsShareACompanyHolds`, `FillsOnlyEmptyHolds`, `ImplementsRegister` | `CompaniesAssumptions`, `NullIsNoRow` |
| `WebSessionsProofs` | `TypeCorrect`, `LinkWorksOnceHolds`, `NewLinkVoidsOlderHolds`, `AcceptedSessionsAreCurrentHolds`, `CookiesFollowRoleHolds`, `ImplementsAccess` | `AccountsAssumptions`, `NullIsNoToken`, `NullIsNoLink` |
| `SearchIndexingProofs` | `LatestChangeWinsHolds`, `ImplementsOutbox` | nothing |
| `JobEditorProofs` | `TypeCorrect`, `SavesLandInOrderHolds` | `EditorAssumptions` |

The assumptions say that the constants are of the right kind (numbers, finite
sets where the model counts), that sets which stand for different things are
disjoint, and that `Null` is none of the values a column may hold. The last is
stated even of record sets (`NullIsNoRow`, `NullIsNoToken`, `NullIsNoLink`, `NullIsNoApplication`): TLA+
does not tell a model value from a record by itself.

Each proof has the same layout: `IInv`, a lemma that `Init` gives it, a lemma per
action or group of actions, and the theorems at the end. What each invariant adds
to the properties, and why:

- **`JobLifecycle`.** `LockProtects` is what `FOR UPDATE` buys: a request about to write
  a publish holds the row's lock, its job is still in a publishable status, and a
  lock is held by nobody else. Without it a publish step could start from any
  status and `GoesLiveFromReview` would not be inductive. `JobKnown` says that a
  request past its first read works on a job that exists. With these, `StepShapes`
  sorts every step into a handful of shapes (nothing about listings changes, one
  job goes live, some are withdrawn ...), from which the action properties and the
  refinement follow. `SweepInv` says that the rows a sweep has picked were overdue
  when it read them and stay so, because expiry dates never change. `WarnInv` counts: a
  marked listing has no more warnings, sent and still to come, than there are ticks,
  because only ticks that picked it before the mark are about to warn, a tick that
  warned or failed picks it no more, and the mark is never taken back by a demotion
  or a re-approval. A listing without the mark has no warning at all.
- **`Outbox`.** A job can be in the hands of several workers at once: one that holds
  its lock and others that lost it. What keeps the handover single is the row, not
  the queue. `WorkerOK` says that whoever is past a claim works on a processed row
  whose billing mail is not out, and `Apart` that no two workers are past the claim
  of one event: the claim finds the row pending, which nobody past it can have.
  `QueueOK` has every notification in the queue come from a committed claim of an event
  that asks for one (`Announced`), whoever holds the job. For `ImplementsMail` this is
  what a step of a worker needs: a claim is `Process`, a send is `Mail` where the
  provider had no such key and nothing where it had, a billing mail is `MailBilling`
  because its worker is the only one past the claim.
- **`Billing`.** `Holds` says what each lock buys until the commit: a locked subscription
  awaits payment, a locked promo is below the company's limit, and a locked
  sequence is still at the number before the one its holder took. The books cannot
  be closed under steps without it: the commit looks at none of these again.
  `ImplementsLedger` maps each commit to a step of `SubscriptionLedger` and everything
  before it to none; that a book only grows at its end needs `NumbersAreGapFree` and the
  lock on the sequence.
- **`Applications`.** `HoldsFile` says that a file belongs to the request that stored it
  until a row takes it over: it is in the store, in no row, and nobody else's.
  `Replaces` and `DeleteOK` say that a file about to be removed was in a row and, by
  the time it goes, is in none and can get into none again. `RequestOK` keeps what
  a request saw: each older application to its job is withdrawn for good, or its
  insert will meet the unique index. `FilesAccounted` is `NoFileLeftBehind` with those
  files that somebody still has to see to. `ImplementsDesk` rests on the first three: a
  row takes a file over only when it is stored and in no other row, and what a removal
  throws away is in none. Its photo may have been replaced since it was read, which is
  why `Replaces` is about the file and not about the row.
- **`Companies`.** `LocksKeep` is the three locks: a decider's join request stays pending,
  what staff entered before `FillRead` is what it saw, and a name stays free from the
  match to the registration. `LocksExclude` says that each has one holder.
  `ImplementsRegister` rests on the same: an approval is a step of `CompanyRegister`
  because the request is still pending and what it read to fill in is still the row.
- **`WebSessions`.** `LinkInv`: a link being consumed is unused and one request consumes
  it; and a request for a new link will, when it commits, have voided every link there
  was when it began: each is used already or among those its `UPDATE` found (`Knows`),
  and neither changes while links are consumed, voided and issued beside it. `SessionsCurrent`: a session is behind its user's version or agrees with the
  password and role of today, also while it is being signed or refreshed.
  `CookiesOfKind` and `PagesFit` carry this through the browser, for the cookies of
  employers and staff: what is on its way back will be a cookie of the kind it was
  asked for. Candidate cookies may hold anything, and no route but theirs reads them. `ImplementsAccess` needs of this
  that a session accepted today carries today's password and role (`SessionsCurrent`):
  then signing one is `SignIn`, and what raises the version closes exactly the sessions
  of that user. A refresh opens nothing that was not open.
- **`SearchIndexing`.** `OneFlight` and `QueueIsLatest`: what waits is the latest change,
  and while a flight carries an older one the newer waits behind it. `FlightOK` says
  which engines a flight is done with. Nothing of `Outbox` is needed: the argument is
  one worker's memory. `ImplementsOutbox` then carries all that is proved of `Outbox` over
  to the two of them together.
- **`JobEditor`.** `Sorted` (saves carry the form as it was when they were asked for),
  `OneAtATime` (a save goes out when the one before is over), `FormLeads` (nothing is ahead
  of the form) and `RowBehind` (nothing in the chain still to be written is older than
  the row or than a save adrift).

Model-checked only:

- liveness (`OverdueIsTakenDown`, `RequestsAreAnswered`, `EventIsSettled`,
  `NotificationIsSettled`, `EditsAreSaved`), which is out of the prover's reach;
- `ClosedWonKeepsModerator` and `LiveBodyIsReviewed`, which the code does not keep.

## Where documents and code disagree

| Run | Statement | What happens |
|---|---|---|
| `StaleDraftEdit` | PRODUCT_SSOT 5.2 invariant 7 and its decision log: editing a live job demotes it, "employer always reviewed" | a draft edit that read `draft` writes its body by id after a publish (employer.service.ts:1271): a live body nobody reviewed |
| `ClosedWonPickup` | schema.ts:232, PRODUCT_SSOT 5.2: only an admin can reassign a company that is closed as won | a pickup that read the lead in the pool writes after another moderator picked it up and closed it: the client moves, and the history has no row about it |

Seen while modelling, without a run of their own:

- Direct publish never counts the listings a subscription has (PRODUCT_SSOT 5.6 has
  it rejected at the cap; moderation.service.ts:443). Submit counts, but without a lock.
- Two submits can overlap, and a re-approval reads the short id before its transaction.
- Two ticks that overlap warn of one expiry twice: the rows are picked without a lock
  and marked by id (job-expiry.ts:103-151), though the comment at line 90 says "One-time
  notification per job". `WarnedOncePerTick` is what is left.
- The expiry sweep overwrites a row that left `published` after it was picked
  (job-expiry.ts:63), and force archive accepts every status where PRODUCT_SSOT 15.2
  has it only from live.
- A lapsed subscription leaves its listings live (PRODUCT_SSOT 7.3 has them taken
  down; subscription-expiry.ts:17): no sweep looks at them.
- A failure between the claim's commit and `queue.add` loses the notification
  (main.ts:333): the retry finds the row processed.
- The sweep and a purchase lock promos in opposite orders (subscription-expiry.ts:100):
  one of them is killed by Postgres, and a buyer may see a 500.
- A refresh sent before the sign-out and answered after it puts the cookies back
  (sign-out.ts:11).
- Two photos uploaded at once leave the loser's file behind.
- Two links asked for at once both work, though auth-tokens.ts:24 says "only the newest
  emailed link works": neither `UPDATE` sees the other's row. `NewLinkVoidsOlder` is about
  the links there were when the newer was asked for.
- The refresh route of candidates (candidate/auth/refresh/route.ts:23) refreshes the token
  in the body, of whatever role, and stores the answer in the candidate cookies:
  `CookiesFollowRole` is about employers and staff only.
- Two administrators who demote each other at once leave none (admin.service.ts:128),
  though "At least one admin account must remain" (line 136). Administrators are
  outside the model.
- A change taken back while its autosave is under way is not saved: the form is equal to
  `lastPersistedRef` and arms no timer (job-draft-form-page.tsx:480), the save lands, and
  the form says "saved" over a row that holds the other text. `EditsAreSaved` excepts it by
  `outrun`; without that, TLC finds exactly this.
- A save that the browser has given up (a lost connection) may still be written by the
  API, beside or after the next one of the chain: `SavesLandInOrder` excepts it.
- Submitting within the five seconds before an autosave sends what is saved, not what
  is shown, and leaves the page.
- The demotion of a live listing announces `job_submitted`, which the search engines
  are not told of; and at shutdown the flush comes before the worker is closed, so a
  job that ends in between is not flushed.

## Not modelled

- `patchPublishPublishedJob`: an admin's trivial patch of a live body. It changes no
  status, and `revised` cannot tell a trivial change from another.
- Categories, saved jobs and searches, the candidate's profile, the catalogue of
  packages, creating promos: single writes of one row.
- Promoting and demoting administrators: two at once can leave none (see above); listed
  as a hazard.
- The forms for employer sign-up and the CV wizard: they collect fields and send one
  request, whose handler is modelled.
- Public search, lists and statistics, PDFs, the CMS mirror, the NBS rate, contracts
  and validation schemas, other pages, health, rate limits: reads, rendering, or
  external mirrors without a protocol of their own. They are most of the repository
  by lines: what changes state, and so can go wrong in an order nobody tested, is a
  small part of it.

## Plan

Modelled, checked and proved: the eight modules of the table above. What would
add most next:

1. `JobLifecycle` composed with `Applications`: the statuses an application reads are
   free there, and only `JobLifecycle` knows when a listing is withdrawn.
2. `JobLifecycle` composed with `Billing`: subscriptions of listings are a status
   that changes freely there.
3. `patchPublishPublishedJob`, with bodies that can be compared, and the hazard of a
   patch that was compared with a body since replaced.
4. Changing limits and windows of promos while they are redeemed, and the promotion
   of administrators.
