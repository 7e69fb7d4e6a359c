--------------------------- MODULE SalesPipeline ---------------------------
(***************************************************************************)
(* Who sells to a company: a lead is picked up from the pool, closed as    *)
(* won or lost, and reassigned by an administrator.  Each request reads    *)
(* the company, checks, and writes by id without a lock or a condition.    *)
(***************************************************************************)
EXTENDS Naturals, Sequences

CONSTANTS Companies, Moderators, Admin, Requests, Null,
  MaxReassigns  \* bound on rows of company_assignments_history

VARIABLES
  sales,      \* sales_status
  moderator,  \* assigned_moderator_id
  history,    \* company_assignments_history: from and to
  deal        \* the requests

vars == <<sales, moderator, history, deal>>

Staff == Moderators \cup {Admin}
SalesStatus == {"unassigned", "pipeline", "closed_won", "closed_lost"}
Pool == {"unassigned", "closed_lost"}
Deal == [pc : {"idle", "pickup", "won", "lost", "reassign"},
         company : Companies \cup {Null}, by : Staff \cup {Null},
         from : Staff \cup {Null}]
Idle == [pc |-> "idle", company |-> Null, by |-> Null, from |-> Null]

TypeOK ==
  /\ sales \in [Companies -> SalesStatus]
  /\ moderator \in [Companies -> Staff \cup {Null}]
  /\ history \in [Companies -> Seq([from : Staff \cup {Null}, to : Moderators])]
  /\ deal \in [Requests -> Deal]

Init ==
  /\ sales = [c \in Companies |-> "unassigned"]
  /\ moderator = [c \in Companies |-> Null]
  /\ history = [c \in Companies |-> <<>>]
  /\ deal = [r \in Requests |-> Idle]

\* The read and its checks have passed; by: who the write will name.
Begin(r, pc, c, by) ==
  /\ deal[r].pc = "idle"
  /\ deal' = [deal EXCEPT ![r] = [pc |-> pc, company |-> c, by |-> by,
                                  from |-> moderator[c]]]
  /\ UNCHANGED <<sales, moderator, history>>

Write(r, pc, status, who) ==
  /\ deal[r].pc = pc
  /\ sales' = [sales EXCEPT ![deal[r].company] = status]
  /\ moderator' = [moderator EXCEPT ![deal[r].company] = who]
  /\ deal' = [deal EXCEPT ![r] = Idle]

PickupRead(r) ==
  \E c \in Companies, s \in Staff :
    sales[c] \in Pool /\ Begin(r, "pickup", c, s)
Pickup(r) ==
  Write(r, "pickup", "pipeline", deal[r].by) /\ UNCHANGED history

\* closeWon, closeLost: by the moderator of a company in the pipeline.
CloseRead(r) ==
  \E c \in Companies, pc \in {"won", "lost"} :
    sales[c] = "pipeline" /\ Begin(r, pc, c, moderator[c])
CloseWon(r) ==
  Write(r, "won", "closed_won", moderator[deal[r].company]) /\ UNCHANGED history
CloseLost(r) == Write(r, "lost", "closed_lost", Null) /\ UNCHANGED history

\* AdminService.reassignCompany; the history tells the moderator that was read.
ReassignRead(r) ==
  \E c \in Companies, m \in Moderators :
    /\ moderator[c] # m
    /\ Len(history[c]) < MaxReassigns
    /\ Begin(r, "reassign", c, m)
Reassign(r) ==
  LET c == deal[r].company IN
  /\ Write(r, "reassign", sales[c], deal[r].by)
  /\ history' = [history EXCEPT ![c] =
                   Append(@, [from |-> deal[r].from, to |-> deal[r].by])]

Next ==
  \E r \in Requests :
    \/ PickupRead(r) \/ Pickup(r)
    \/ CloseRead(r) \/ CloseWon(r) \/ CloseLost(r)
    \/ ReassignRead(r) \/ Reassign(r)

Spec == Init /\ [][Next]_vars

-----------------------------------------------------------------------------
\* "Only an admin can reassign once sales_status = closed_won"
\* (schema.ts:232, PRODUCT_SSOT 5.2): no other step gives such a company to
\* someone else.  A pickup that read the lead before does.
ClosedWonKeepsModerator ==
  [][\A c \in Companies :
       /\ sales[c] = "closed_won"
       /\ moderator'[c] \notin {moderator[c], Null}
       => Len(history'[c]) > Len(history[c])]_vars
=============================================================================
