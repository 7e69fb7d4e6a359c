----------------------------- MODULE Applications -----------------------------
(***************************************************************************)
(* Applications of one candidate: apply, withdraw, the employer's view of  *)
(* the CV and decisions, and deleting a CV that may be attached to one.    *)
(* Uploads goes on beside it and brings the CVs.                           *)
(*                                                                         *)
(* Each statement of insertApplication is a step: the transaction is READ  *)
(* COMMITTED, so each sees what others committed in between.  Cover        *)
(* letters, the daily limit and saved jobs are left out.  The outbox event *)
(* is part of the insert.                                                  *)
(***************************************************************************)
EXTENDS Uploads

CONSTANTS
  Jobs,
  AppIds,     \* ids of application rows; bound on applications
  Appliers,   \* requests about applications
  Cooldown,   \* REAPPLICATION_COOLDOWN_MS, in units of the clock
  MaxTime     \* bound: the clock stops

ASSUME ApplicationsAssumptions ==
  /\ Null \notin Jobs \cup AppIds
  /\ Cooldown \in Nat /\ MaxTime \in Nat

VARIABLES
  apps,    \* applications, Null: not made
  now,
  ap       \* the requests

vars == <<uploadVars, apps, now, ap>>

Status == {"submitted", "viewed", "shortlisted", "rejected", "withdrawn",
           "hired"}
\* candidateWithdrawableStatuses
Withdrawable == {"submitted", "viewed", "shortlisted"}
Targets == {"viewed", "shortlisted", "rejected", "hired"}

\* canEmployerMoveApplication
MayMove(from, to) ==
  CASE to = "viewed" -> from = "submitted"
    [] to = "shortlisted" -> from \in {"submitted", "viewed"}
    [] to = "rejected" -> from \in {"submitted", "viewed", "shortlisted"}
    [] to = "hired" -> from = "shortlisted"

\* at: updated_at; created and knew are history: when it was made, and the
\* applications there were when its request began.
Application == [job : Jobs, cv : Keys, status : Status, at : 0..MaxTime,
                created : 0..MaxTime, knew : SUBSET AppIds]
ASSUME NullIsNoApplication == Null \notin Application

Pc == {"idle", "active", "withdrawn", "resume", "insert", "withdraw",
       "view", "inUse", "deleteRow", "removeCv"}

NoRequest == [pc |-> "idle", job |-> Null, cv |-> Null, app |-> Null,
              knew |-> {}]

TypeOK ==
  /\ UploadsTypeOK
  /\ apps \in [AppIds -> Application \cup {Null}]
  /\ now \in 0..MaxTime
  /\ ap \in [Appliers -> [pc : Pc, job : Jobs \cup {Null},
                          cv : Keys \cup {Null}, app : AppIds \cup {Null},
                          knew : SUBSET AppIds]]

Init ==
  /\ UploadsInit
  /\ apps = [i \in AppIds |-> Null]
  /\ now = 0
  /\ ap = [r \in Appliers |-> NoRequest]

Made == {i \in AppIds : apps[i] # Null}
Of(j) == {i \in Made : apps[i].job = j}
Active(j) == {i \in Of(j) : apps[i].status # "withdrawn"}

GoOn(r, pc) == ap' = [ap EXCEPT ![r].pc = pc]
Answer(r) == ap' = [ap EXCEPT ![r] = NoRequest]
Check(r, ok, pc) == IF ok THEN GoOn(r, pc) ELSE Answer(r)

-----------------------------------------------------------------------------
(* submitApplication.                                                      *)

\* The job is read first and takes applications here, else the request is
\* refused.  c: the CV the candidate chose, Null: the primary one.
ReadJob(r) ==
  /\ ap[r].pc = "idle"
  /\ \E j \in Jobs, c \in resumes \cup {Null} :
       ap' = [ap EXCEPT ![r] = [NoRequest EXCEPT !.pc = "active", !.job = j,
                                                 !.cv = c, !.knew = Made]]
  /\ UNCHANGED <<uploadVars, apps, now>>

\* Mutant: the cooldown counts from the application, not its withdrawal.
InCooldownFromCreation(j) ==
  \E i \in Of(j) :
    apps[i].status = "withdrawn" /\ now - apps[i].created < Cooldown

\* The latest withdrawal of the job is too recent.
InCooldown(j) ==
  \E i \in Of(j) : apps[i].status = "withdrawn" /\ now - apps[i].at < Cooldown

ReadActive(r) ==
  /\ ap[r].pc = "active"
  /\ Check(r, Active(ap[r].job) = {}, "withdrawn")
  /\ UNCHANGED <<uploadVars, apps, now>>

ReadWithdrawn(r) ==
  /\ ap[r].pc = "withdrawn"
  /\ Check(r, ~InCooldown(ap[r].job), "resume")
  /\ UNCHANGED <<uploadVars, apps, now>>

ReadResume(r) ==
  /\ ap[r].pc = "resume"
  /\ \/ \E c \in (IF ap[r].cv = Null THEN primary ELSE {ap[r].cv} \cap resumes) :
          ap' = [ap EXCEPT ![r].cv = c, ![r].pc = "insert"]
     \/ /\ ap[r].cv = Null => primary = {}
        /\ ap[r].cv # Null => ap[r].cv \notin resumes
        /\ Answer(r)
  /\ UNCHANGED <<uploadVars, apps, now>>

\* applications_candidate_job_active_unique (409) and the foreign key to
\* resume_assets (500) may refuse the row.
InsertApplication(r) ==
  /\ ap[r].pc = "insert"
  /\ IF Active(ap[r].job) # {} \/ ap[r].cv \notin resumes
     THEN UNCHANGED apps
     ELSE \E i \in AppIds \ Made :
            apps' = [apps EXCEPT ![i] =
              [job |-> ap[r].job, cv |-> ap[r].cv, status |-> "submitted",
               at |-> now, created |-> now, knew |-> ap[r].knew]]
  /\ Answer(r)
  /\ UNCHANGED <<uploadVars, now>>

-----------------------------------------------------------------------------
(* The candidate withdraws, the employer looks and decides.                *)

Begin(r, i, pc) ==
  /\ ap[r].pc = "idle"
  /\ ap' = [ap EXCEPT ![r] = [NoRequest EXCEPT !.pc = pc, !.app = i]]
  /\ UNCHANGED <<uploadVars, apps, now>>

\* UPDATE ... WHERE status IN (from), or of a row that is locked and checked.
SetStatus(i, from, to) ==
  /\ IF apps[i].status \in from
     THEN apps' = [apps EXCEPT ![i].status = to, ![i].at = now]
     ELSE UNCHANGED apps
  /\ UNCHANGED <<uploadVars, now>>

Move(r, pc, from, to) ==
  /\ ap[r].pc = pc
  /\ SetStatus(ap[r].app, from, to)
  /\ Answer(r)

\* withdrawApplication
WithdrawRead(r) ==
  \E i \in Made : /\ apps[i].status \in Withdrawable
                  /\ Begin(r, i, "withdraw")
\* Mutant: the status is checked by the read alone.
WithdrawWriteUnchecked(r) == Move(r, "withdraw", Status, "withdrawn")
WithdrawWrite(r) == Move(r, "withdraw", Withdrawable, "withdrawn")

\* getCvDownload: ownApplication and the file, then the mark that it was seen.
Download(r) ==
  \E i \in Made : /\ apps[i].status # "withdrawn"
                  /\ apps[i].cv \in store
                  /\ Begin(r, i, "view")
MarkViewed(r) == Move(r, "view", {"submitted"}, "viewed")

\* setStatus: SELECT FOR UPDATE, check and update.  ownApplication has read
\* the row before, which refuses nothing the check does not.
Decide(r) ==
  /\ ap[r].pc = "idle"
  /\ \E i \in Made, t \in Targets : SetStatus(i, {s \in Status : MayMove(s, t)}, t)
  /\ UNCHANGED ap

-----------------------------------------------------------------------------
(* deleteResume.                                                           *)

DeleteBegin(r) ==
  /\ ap[r].pc = "idle"
  /\ \E k \in resumes :
       ap' = [ap EXCEPT ![r] = [NoRequest EXCEPT !.pc = "inUse", !.cv = k]]
  /\ UNCHANGED <<uploadVars, apps, now>>

InUse(k) == \E i \in Made : apps[i].cv = k

CheckInUse(r) ==
  /\ ap[r].pc = "inUse"
  /\ Check(r, ~InUse(ap[r].cv), "deleteRow")
  /\ UNCHANGED <<uploadVars, apps, now>>

\* Mutant: the foreign key does not restrict.
DeleteRowUnrestricted(r) ==
  /\ ap[r].pc = "deleteRow"
  /\ ap[r].cv \notin Locked
  /\ resumes' = resumes \ {ap[r].cv}
  /\ primary' = primary \ {ap[r].cv}
  /\ GoOn(r, "removeCv")
  /\ UNCHANGED <<area, store, pointer, images, up, mishap, apps, now>>

\* ON DELETE RESTRICT: an application made since the check fails the delete.
DeleteRow(r) ==
  /\ ap[r].pc = "deleteRow"
  /\ ap[r].cv \notin Locked
  /\ IF InUse(ap[r].cv)
     THEN Answer(r) /\ UNCHANGED <<resumes, primary>>
     ELSE /\ resumes' = resumes \ {ap[r].cv}
          /\ primary' = primary \ {ap[r].cv}
          /\ GoOn(r, "removeCv")
  /\ UNCHANGED <<area, store, pointer, images, up, mishap, apps, now>>

RemoveCv(r) ==
  /\ ap[r].pc = "removeCv"
  /\ store' = store \ {ap[r].cv}
  /\ Answer(r)
  /\ UNCHANGED <<area, rows, up, mishap, apps, now>>

\* The API dies, or removing the file fails.
Fails(r) ==
  /\ ap[r].pc # "idle"
  /\ Answer(r)
  /\ mishap' = (mishap \/ ap[r].pc = "removeCv")
  /\ UNCHANGED <<area, store, rows, up, apps, now>>

-----------------------------------------------------------------------------
Tick ==
  /\ now < MaxTime
  /\ now' = now + 1
  /\ UNCHANGED <<uploadVars, apps, ap>>

Apply(r) ==
  \/ ReadJob(r) \/ ReadActive(r) \/ ReadWithdrawn(r)
  \/ ReadResume(r) \/ InsertApplication(r)
  \/ WithdrawRead(r) \/ WithdrawWrite(r)
  \/ Download(r) \/ MarkViewed(r) \/ Decide(r)
  \/ DeleteBegin(r) \/ CheckInUse(r) \/ DeleteRow(r) \/ RemoveCv(r)
  \/ Fails(r)

Next ==
  \/ \E r \in Appliers : Apply(r)
  \/ \E u \in Uploaders : Upload(u) /\ UNCHANGED <<apps, now, ap>>
  \/ Tick

Spec == Init /\ [][Next]_vars

-----------------------------------------------------------------------------
(* Properties.                                                             *)

\* An application keeps its CV, row and file, whoever deletes or uploads what
\* meanwhile (PRODUCT_SSOT 5.2, 6: "applications are immutable snapshots").
CvKept == \A i \in Made : apps[i].cv \in resumes /\ apps[i].cv \in store

\* Nobody applies again within the cooldown: an application known when the
\* request began was withdrawn long enough before the new one (PRODUCT_SSOT
\* 9.3).  It needs "active" to be read before "withdrawn".
CooldownKept ==
  \A i \in Made : \A b \in apps[i].knew \cap Of(apps[i].job) :
    /\ apps[b].status = "withdrawn"
    /\ apps[i].created - apps[b].at >= Cooldown

\* An application moves along PRODUCT_SSOT 15.4 (unread ones may be decided
\* at once): nothing leaves a decision or a withdrawal, and viewing a CV never
\* takes back a shortlisting made meanwhile.
Edges ==
  {<<"submitted", "viewed">>, <<"submitted", "shortlisted">>,
   <<"submitted", "rejected">>, <<"submitted", "withdrawn">>,
   <<"viewed", "shortlisted">>, <<"viewed", "rejected">>,
   <<"viewed", "withdrawn">>, <<"shortlisted", "hired">>,
   <<"shortlisted", "rejected">>, <<"shortlisted", "withdrawn">>}
StatusFollowsGraph ==
  [][\A i \in Made : \/ apps'[i].status = apps[i].status
                     \/ <<apps[i].status, apps'[i].status>> \in Edges]_vars

\* The loser of two CV uploads, a logo that was replaced meanwhile and a
\* deleted CV take their file with them: unless a crash or a failed removal
\* intervened, no CV and no logo is left without a row once all requests are
\* answered (removeFileQuietly, the catch blocks of the uploads).
AllIdle == /\ \A u \in Uploaders : up[u].pc = "idle"
           /\ \A r \in Appliers : ap[r].pc = "idle"
NoFileLeftBehind ==
  ~mishap /\ AllIdle
    => {k \in store : area[k] \in {"cv", "logo"}} \subseteq resumes \cup Pointers

\* The keys there are, and the rows of applications without their history.
Generated == {k \in Keys : area[k] # Null}
AppRows ==
  [i \in Made |->
    [job |-> apps[i].job, cv |-> apps[i].cv, status |-> apps[i].status]]

\* However uploads, deletions, applications and decisions overlap and fail,
\* files and rows change as CandidateDesk changes them, one whole operation at
\* a time (saveResumeUpload, deleteResume, savePhoto, CompanyLogosService,
\* submitApplication, withdrawApplication, setStatus).
Desk == INSTANCE CandidateDesk WITH
  made <- Generated, files <- store, cvs <- resumes,
  picture <- pointer, apps <- AppRows
DeskSpec == Desk!Spec
=============================================================================
