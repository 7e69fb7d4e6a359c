--------------------------- MODULE SearchIndexing ---------------------------
(***************************************************************************)
(* The worker tells the search engines of changed job pages: afterCommit   *)
(* of a dispatch (Outbox) queues the change in the memory of its process,  *)
(* the latest one for a page; a timer flushes what is queued.  A flush     *)
(* looks the pages up, sends one request to IndexNow and then one per page *)
(* to Google, and awaits each, while dispatches go on queueing.            *)
(* Both engines are configured.  Locales and Google's token are left out.  *)
(***************************************************************************)
EXTENDS Outbox

CONSTANTS
  EventTypes,  \* types of the events
  Pages,       \* jobs
  PageOf       \* the job in the payload of an event

VARIABLES
  eventType,
  pending,   \* by worker and page: the event of the change to tell
  flights,   \* flushes under way, by worker
  latest,    \* history: the last change queued for a page
  told,      \* history: the last change an engine was told of by a worker
  dropped    \* history: changes a worker gave up on, by engine

searchVars == <<eventType, pending, flights, latest, told, dropped>>
allVars == <<vars, searchVars>>

Engines == {"indexNow", "google"}
Nothing == [p \in Pages |-> Null]

\* CHANGE_BY_EVENT; a listing that goes back to review (job_submitted) is
\* not in it, though its page is gone.
Updated == {"job_published", "job_expired"}
Deleted == {"job_unpublished", "job_force_archived"}
ChangesPage(e) == eventType[e] \in Updated \cup Deleted

Changes == [Pages -> Events \cup {Null}]
Flight == [pc : {"lookup", "indexNow", "google"}, batch : Changes,
           left : SUBSET Pages]

SearchTypeOK ==
  /\ eventType \in [Events -> EventTypes]
  /\ pending \in [Workers -> Changes] /\ latest \in [Workers -> Changes]
  /\ \A w \in Workers : flights[w] \subseteq Flight
  /\ told \in [Workers -> [Engines \X Pages -> Events \cup {Null}]]
  /\ \A w \in Workers : dropped[w] \subseteq Engines \X Events

SearchInit ==
  /\ Init
  /\ eventType \in [Events -> EventTypes]
  /\ pending = [w \in Workers |-> Nothing]
  /\ flights = [w \in Workers |-> {}]
  /\ latest = [w \in Workers |-> Nothing]
  /\ told = [w \in Workers |-> [x \in Engines \X Pages |-> Null]]
  /\ dropped = [w \in Workers |-> {}]

-----------------------------------------------------------------------------
\* enqueue: before anything else afterCommit does.
Enqueue(w, e) ==
  IF ChangesPage(e)
  THEN /\ pending' = [pending EXCEPT ![w][PageOf[e]] = e]
       /\ latest' = [latest EXCEPT ![w][PageOf[e]] = e]
       /\ UNCHANGED <<eventType, flights, told, dropped>>
  ELSE UNCHANGED searchVars

Hand(w) ==
  /\ AfterCommit(w) \/ AfterCommitFails(w)
  /\ Enqueue(w, worker[w].job[2])

Snapshot(w) == [pc |-> "lookup", batch |-> pending[w], left |-> {}]

\* Mutant: a flush starts beside the one under way.
FlushBeside(w) ==
  /\ pending[w] # Nothing
  /\ flights' = [flights EXCEPT ![w] = @ \cup {Snapshot(w)}]
  /\ pending' = [pending EXCEPT ![w] = Nothing]
  /\ UNCHANGED <<vars, eventType, latest, told, dropped>>

\* flush: calls share the run under way; flushNow takes all that is queued.
Flush(w) ==
  /\ flights[w] = {} /\ pending[w] # Nothing
  /\ flights' = [flights EXCEPT ![w] = {Snapshot(w)}]
  /\ pending' = [pending EXCEPT ![w] = Nothing]
  /\ UNCHANGED <<vars, eventType, latest, told, dropped>>

Turn(w, f, g) == flights' = [flights EXCEPT ![w] = (@ \ {f}) \cup {g}]
End(w, f) == flights' = [flights EXCEPT ![w] = @ \ {f}]
Asked(f) == {p \in Pages : f.batch[p] # Null}

\* lookupSegments: rows that are gone are dropped, all when it fails.
Lookup(w, f) ==
  /\ f.pc = "lookup"
  /\ \E found \in SUBSET Asked(f) :
       /\ dropped' = [dropped EXCEPT ![w] =
            @ \cup (Engines \X {f.batch[p] : p \in Asked(f) \ found})]
       /\ IF found = {} THEN End(w, f)
          ELSE Turn(w, f, [pc |-> "indexNow", left |-> found,
                 batch |-> [p \in Pages |->
                              IF p \in found THEN f.batch[p] ELSE Null]])
  /\ UNCHANGED <<vars, eventType, pending, latest, told>>

\* One request: it is heard or not; the answer is fine, or given up after
\* some attempts (at once if refused), or tried again (withRetries).
Tell(w, f, engine, pages, g) ==
  \E heard \in BOOLEAN, answer \in {"ok", "given up", "again"} :
    /\ answer = "ok" => heard
    /\ told' = IF heard
               THEN [told EXCEPT ![w] = [x \in Engines \X Pages |->
                      IF x \in {engine} \X pages THEN f.batch[x[2]] ELSE @[x]]]
               ELSE told
    /\ dropped' = IF answer = "given up"
                  THEN [dropped EXCEPT ![w] =
                          @ \cup ({engine} \X {f.batch[p] : p \in pages})]
                  ELSE dropped
    /\ IF answer = "again" THEN UNCHANGED flights
       ELSE IF g = f THEN End(w, f) ELSE Turn(w, f, g)
    /\ UNCHANGED <<vars, eventType, pending, latest>>

TellIndexNow(w, f) ==
  /\ f.pc = "indexNow"
  /\ Tell(w, f, "indexNow", Asked(f), [f EXCEPT !.pc = "google"])

\* Page by page; the last one ends the flush.
TellGoogle(w, f) ==
  /\ f.pc = "google"
  /\ \E p \in f.left :
       Tell(w, f, "google", {p},
            IF f.left = {p} THEN f ELSE [f EXCEPT !.left = @ \ {p}])

\* The process ends: what it had queued goes with it.
Restart(w) ==
  /\ \/ Crash(w)
     \/ worker[w].pc = "idle" /\ UNCHANGED vars
  /\ pending' = [pending EXCEPT ![w] = Nothing]
  /\ flights' = [flights EXCEPT ![w] = {}]
  /\ latest' = [latest EXCEPT ![w] = Nothing]
  /\ told' = [told EXCEPT ![w] = [x \in Engines \X Pages |-> Null]]
  /\ dropped' = [dropped EXCEPT ![w] = {}]
  /\ UNCHANGED eventType

\* What a worker does apart from afterCommit.
OtherWork(w) ==
  \/ Claim(w) \/ ClaimRollsBack(w) \/ BillingMail(w) \/ Finish(w)
  \/ \E r \in Recipients : Send(w, r) \/ SendFails(w, r)

OutboxNext ==
  \/ \E e \in Events : Emit(e) \/ PollAdd(e) \/ InsertLetter(e) \/ LoseLetter(e)
  \/ Poll \/ PollFails
  \/ \E w \in Workers : OtherWork(w) \/ \E j \in JobIds : Take(w, j)
  \/ \E j \in JobIds : FailStalled(j) \/ Stall(j) \/ Forget(j)

SearchNext ==
  \/ OutboxNext /\ UNCHANGED searchVars
  \/ \E w \in Workers :
       \/ Hand(w) \/ Flush(w) \/ Restart(w)
       \/ \E f \in flights[w] :
            Lookup(w, f) \/ TellIndexNow(w, f) \/ TellGoogle(w, f)

SearchSpec == SearchInit /\ [][SearchNext]_allVars

-----------------------------------------------------------------------------
(* Properties.                                                             *)

\* The last change queued for a page is still queued, being sent, told, or
\* given up: queueing beside a flush loses nothing, and no engine is left
\* with an older change after a newer one ("Latest change per job wins").
LatestChangeWins ==
  \A w \in Workers, p \in Pages :
    LET e == latest[w][p] IN
    \/ e \in {Null, pending[w][p]}
    \/ \E f \in flights[w] : f.batch[p] = e
    \/ \A n \in Engines : told[w][<<n, p>>] = e \/ <<n, e>> \in dropped[w]
=============================================================================
