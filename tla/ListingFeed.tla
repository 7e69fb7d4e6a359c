----------------------------- MODULE ListingFeed -----------------------------
(***************************************************************************)
(* What the outbox promises its readers about listings: a reader that      *)
(* keeps only the last event of each job knows which listings are live.    *)
(* A listing becomes live by job_published alone, it is announced only     *)
(* when it was not live, and only out of "never announced" or "submitted"; *)
(* it stops being live only with an event that says so.                    *)
(***************************************************************************)
CONSTANTS Jobs, Null

VARIABLES live, feed

\* Events that end a listing, or send it back to review.
Withdrawals == {"job_submitted", "job_rejected", "job_unpublished",
                "job_force_archived", "job_expired"}

Init == /\ live = {}
        /\ feed = [j \in Jobs |-> Null]

Announce(j) ==
  /\ j \notin live
  /\ feed[j] \in {Null, "job_submitted"}
  /\ live' = live \cup {j}
  /\ feed' = [feed EXCEPT ![j] = "job_published"]

\* One transaction may withdraw several jobs, live or not, with one event.
Withdraw(S, event) ==
  /\ live' = live \ S
  /\ feed' = [j \in Jobs |-> IF j \in S THEN event ELSE feed[j]]

Next == \/ \E j \in Jobs : Announce(j)
        \/ \E S \in SUBSET Jobs, event \in Withdrawals : Withdraw(S, event)

Spec == Init /\ [][Next]_<<live, feed>>
=============================================================================
