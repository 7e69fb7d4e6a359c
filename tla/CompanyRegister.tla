--------------------------- MODULE CompanyRegister ---------------------------
(***************************************************************************)
(* What the locks around companies and memberships are to buy: a sign-up,  *)
(* a decision and an edit look as if each were made at once.  A person     *)
(* comes once, by founding a company, by asking to join one, or by an      *)
(* account staff open; a join request is decided once, told once, and an   *)
(* approval links the person to the company asked for and fills in what is *)
(* still empty in its row as it is at that moment.                         *)
(***************************************************************************)
EXTENDS Sequences

CONSTANTS CompanyIds, Users, Names, Pibs, Null

VARIABLES companies, account, memberOf, joins, events

register == <<companies, account, memberOf, joins, events>>

Input == [name : Names, pib : Pibs \cup {Null}]

Init ==
  /\ companies = [c \in CompanyIds |-> Null]
  /\ account = {}
  /\ memberOf = [u \in Users |-> Null]
  /\ joins = [u \in Users |-> Null]
  /\ events = [u \in Users |-> << >>]

Exists == {c \in CompanyIds : companies[c] # Null}
Unused(p, c) == p = Null \/ \A d \in Exists \ {c} : companies[d].pib # p

Welcome(u) == u \notin account /\ account' = account \cup {u}
Link(u, c) == memberOf' = [memberOf EXCEPT ![u] = c]

Enter(c, i, contact, self) ==
  /\ c \notin Exists /\ Unused(i.pib, c)
  /\ companies' = [companies EXCEPT ![c] =
       [name |-> i.name, pib |-> i.pib, contact |-> contact,
        selfSignup |-> self, edited |-> FALSE]]

\* Of the companies people signed up themselves one has a name, as long as
\* staff do not change it.
Found(u, c, i) ==
  /\ \A d \in Exists : companies[d].selfSignup /\ ~companies[d].edited
                         => companies[d].name # i.name
  /\ Welcome(u) /\ Enter(c, i, "signup", TRUE) /\ Link(u, c)
  /\ UNCHANGED <<joins, events>>

Ask(u, c, i) ==
  /\ Welcome(u)
  /\ joins' = [joins EXCEPT ![u] =
                 [company |-> c, input |-> i, status |-> "pending"]]
  /\ UNCHANGED <<companies, memberOf, events>>

Open(u, c) ==
  /\ Welcome(u) /\ Link(u, c)
  /\ UNCHANGED <<companies, joins, events>>

Move(u, c) ==
  /\ memberOf[u] # Null /\ Link(u, c)
  /\ UNCHANGED <<companies, account, joins, events>>

Settle(u, decision) ==
  /\ joins[u] # Null /\ joins[u].status = "pending"
  /\ joins' = [joins EXCEPT ![u].status = decision]
  /\ events' = [events EXCEPT ![u] = Append(events[u], decision)]

Reject(u) ==
  Settle(u, "rejected") /\ UNCHANGED <<companies, account, memberOf>>

\* Of row c only what is empty is filled in; the identifier may stay out
\* because another company had it.
Fill(c, pib) ==
  LET row == companies[c] IN
  /\ pib = row.pib \/ (row.pib = Null /\ Unused(pib, c))
  /\ companies' = [companies EXCEPT
       ![c].pib = pib,
       ![c].contact = IF row.contact = Null THEN "signup" ELSE row.contact]

Approve(u) ==
  /\ Settle(u, "approved")
  /\ Link(u, joins[u].company)
  /\ \/ Fill(joins[u].company, joins[u].input.pib)
     \/ Fill(joins[u].company, companies[joins[u].company].pib)
  /\ UNCHANGED account

Lead(c, i, contact) ==
  /\ Enter(c, i, contact, FALSE)
  /\ UNCHANGED <<account, memberOf, joins, events>>

Edit(c, i) ==
  /\ \/ \E contact \in {"staff", Null} :
          companies' = [companies EXCEPT ![c].contact = contact]
     \/ /\ Unused(i.pib, c)
        /\ companies' = [companies EXCEPT ![c].name = i.name,
                           ![c].pib = i.pib, ![c].edited = TRUE]
  /\ UNCHANGED <<account, memberOf, joins, events>>

Next ==
  \/ \E c \in Exists : \/ \E i \in Input : Edit(c, i)
                       \/ \E u \in Users : Open(u, c) \/ Move(u, c)
                       \/ \E u \in Users, i \in Input : Ask(u, c, i)
  \/ \E c \in CompanyIds, i \in Input :
       \/ \E u \in Users : Found(u, c, i)
       \/ \E contact \in {"staff", Null} : Lead(c, i, contact)
  \/ \E u \in Users : Reject(u) \/ Approve(u)

Spec == Init /\ [][Next]_register
=============================================================================
