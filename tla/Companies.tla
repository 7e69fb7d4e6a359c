------------------------------ MODULE Companies ------------------------------
(***************************************************************************)
(* Companies and who belongs to them: employer sign-up, staff leads, join  *)
(* requests and their decision, accounts and moves by staff.               *)
(*                                                                         *)
(* A request is a step per statement whose result it uses later.  Sign-up  *)
(* holds an advisory lock, a decision the row of its join request and, to  *)
(* fill in the company, the company's row; the other writers check first   *)
(* and write by id.  A transaction commits in the step of its last write.  *)
(* Whether a company is in the scope of the staff member who asks is up to *)
(* the sales pipeline (SalesPipeline): here any request may be in scope.   *)
(* The table allows a person several companies, but no request gives a     *)
(* member a second one.                                                    *)
(* Of a company's data there are a name, one unique identifier (PIB, MB,   *)
(* VAT id) and one other field.  Slugs and the audit log are left out.     *)
(***************************************************************************)
EXTENDS Naturals, Sequences

CONSTANTS
  CompanyIds,  \* bound on companies
  Users,       \* people who may get an employer account, by email
  Names,       \* legal names, normalised
  Pibs,        \* identifiers
  Requests,    \* requests being served
  Null

ASSUME CompaniesAssumptions ==
  Null \notin CompanyIds \cup Users \cup Names \cup Pibs \cup {"staff", "signup"}

VARIABLES
  companies,  \* rows, Null: none
  account,    \* the users there are
  memberOf,   \* employers: the company a user is linked to
  joins,      \* company_join_requests, by user
  events,     \* company_join_request_decided, by user
  reqs

vars == <<companies, account, memberOf, joins, events, reqs>>

Decision == {"approved", "rejected"}

\* contact: who entered the other field; edited (history): staff changed its
\* name or identifier.
Company == [name : Names, pib : Pibs \cup {Null},
            contact : {"staff", "signup", Null}, selfSignup : BOOLEAN,
            edited : BOOLEAN]

Input == [name : Names, pib : Pibs \cup {Null}]
Join == [company : CompanyIds, input : Input,
         status : Decision \cup {"pending"}]

ASSUME NullIsNoRow == Null \notin Company \cup Join

Pc == {"idle", "match", "register", "decide", "fill", "approve", "edit", "open",
       "move"}
\* seen: the company as it was read; company: the one found or worked on.
Request == [pc : Pc, user : Users \cup {Null}, company : CompanyIds \cup {Null},
            input : Input \cup {Null}, seen : Company \cup {Null}]
Idle == [pc |-> "idle", user |-> Null, company |-> Null,
         input |-> Null, seen |-> Null]

TypeOK ==
  /\ companies \in [CompanyIds -> Company \cup {Null}]
  /\ account \subseteq Users
  /\ memberOf \in [Users -> CompanyIds \cup {Null}]
  /\ joins \in [Users -> Join \cup {Null}]
  /\ events \in [Users -> Seq(Decision)]
  /\ reqs \in [Requests -> Request]

Init ==
  /\ companies = [c \in CompanyIds |-> Null]
  /\ account = {}
  /\ memberOf = [u \in Users |-> Null]
  /\ joins = [u \in Users |-> Null]
  /\ events = [u \in Users |-> <<>>]
  /\ reqs = [r \in Requests |-> Idle]

Exists == {c \in CompanyIds : companies[c] # Null}
\* Unique indexes on identifiers.
PibTaken(p, except) ==
  p # Null /\ \E c \in Exists \ {except} : companies[c].pib = p

At(pc) == {r \in Requests : reqs[r].pc = pc}
Go(r, pc) == reqs' = [reqs EXCEPT ![r].pc = pc]
Done(r) == reqs' = [reqs EXCEPT ![r] = Idle]

-----------------------------------------------------------------------------
(* registerEmployer.                                                       *)

SignupBegin(r) ==
  /\ reqs[r].pc = "idle"
  /\ \E u \in Users \ account, i \in Input :
       reqs' = [reqs EXCEPT ![r] = [Idle EXCEPT !.pc = "match", !.user = u,
                                                !.input = i]]
  /\ UNCHANGED <<companies, account, memberOf, joins, events>>

\* findExistingCompanyIdForSelfSignup: by identifier first, then by name.
ByPib(i) == {c \in Exists : i.pib # Null /\ companies[c].pib = i.pib}
ByName(i) == {c \in Exists : companies[c].name = i.name}
Matches(i) == IF ByPib(i) # {} THEN ByPib(i)
              ELSE IF ByName(i) # {} THEN ByName(i) ELSE {Null}

\* Mutant: sign-ups match side by side.
SignupMatchUnlocked(r) ==
  /\ reqs[r].pc = "match"
  /\ \E c \in Matches(reqs[r].input) :
       reqs' = [reqs EXCEPT ![r].company = c, ![r].pc = "register"]
  /\ UNCHANGED <<companies, account, memberOf, joins, events>>

\* pg_advisory_xact_lock: one sign-up from here to its commit.
SignupMatch(r) ==
  /\ reqs[r].pc = "match" /\ At("register") = {}
  /\ \E c \in Matches(reqs[r].input) :
       reqs' = [reqs EXCEPT ![r].company = c, ![r].pc = "register"]
  /\ UNCHANGED <<companies, account, memberOf, joins, events>>

\* A new row.  CompanyIds used up: the request goes no further.
Insert(i, contact, self) ==
  \E c \in CompanyIds \ Exists :
    companies' = [companies EXCEPT ![c] =
      [name |-> i.name, pib |-> i.pib, contact |-> contact,
       selfSignup |-> self, edited |-> FALSE]]

\* A match becomes a join request, whatever it proves; else a company.  The
\* email or the identifier taken meanwhile fails the transaction.
SignupRegister(r) ==
  LET u == reqs[r].user  i == reqs[r].input  c == reqs[r].company IN
  /\ reqs[r].pc = "register"
  /\ IF u \in account \/ (c = Null /\ PibTaken(i.pib, Null))
     THEN UNCHANGED <<companies, account, memberOf, joins>>
     ELSE /\ account' = account \cup {u}
          /\ IF c = Null
             THEN /\ Insert(i, "signup", TRUE)
                  /\ \E d \in CompanyIds \ Exists :
                       companies'[d] # Null
                         /\ memberOf' = [memberOf EXCEPT ![u] = d]
                  /\ UNCHANGED joins
             ELSE /\ joins' = [joins EXCEPT ![u] =
                       [company |-> c, input |-> i, status |-> "pending"]]
                  /\ UNCHANGED <<companies, memberOf>>
  /\ Done(r)
  /\ UNCHANGED events

-----------------------------------------------------------------------------
(* StaffJoinRequestsService.decide.                                        *)

DecideBegin(r) ==
  /\ reqs[r].pc = "idle"
  /\ \E u \in Users :
       /\ joins[u] # Null
       /\ reqs' = [reqs EXCEPT ![r] = [Idle EXCEPT !.pc = "decide",
                     !.user = u, !.company = joins[u].company]]
  /\ UNCHANGED <<companies, account, memberOf, joins, events>>

\* The join request is locked FOR UPDATE until the commit.
JoinLocked(u) == \E q \in At("fill") \cup At("approve") : reqs[q].user = u

\* Mutant: the row is read without a lock.
DecideLockNotHeld(r) ==
  /\ reqs[r].pc = "decide"
  /\ IF joins[reqs[r].user].status = "pending" THEN Go(r, "fill") ELSE Done(r)
  /\ UNCHANGED <<companies, account, memberOf, joins, events>>

DecideLock(r) ==
  /\ reqs[r].pc = "decide" /\ ~JoinLocked(reqs[r].user)
  /\ IF joins[reqs[r].user].status = "pending" THEN Go(r, "fill") ELSE Done(r)
  /\ UNCHANGED <<companies, account, memberOf, joins, events>>

Settle(r, decision) ==
  LET u == reqs[r].user IN
  /\ joins' = [joins EXCEPT ![u].status = decision]
  /\ events' = [events EXCEPT ![u] = Append(@, decision)]

Reject(r) ==
  /\ reqs[r].pc = "fill"
  /\ Settle(r, "rejected")
  /\ Done(r)
  /\ UNCHANGED <<companies, account, memberOf>>

\* fillEmptyCompanyFields locks the company FOR UPDATE until the commit.
CompanyLocked(c) == \E q \in At("approve") : reqs[q].company = c

\* What the merge will write: fields still empty, and no identifier that
\* another company has.
Filled(row, i, c) ==
  [row EXCEPT !.pib = IF @ = Null /\ ~PibTaken(i.pib, c) THEN i.pib ELSE @,
              !.contact = IF @ = Null THEN "signup" ELSE @]

FillRead(r) ==
  LET c == reqs[r].company IN
  /\ reqs[r].pc = "fill" /\ ~CompanyLocked(c)
  /\ reqs' = [reqs EXCEPT ![r].pc = "approve",
                ![r].seen = Filled(companies[c], joins[reqs[r].user].input, c)]
  /\ UNCHANGED <<companies, account, memberOf, joins, events>>

\* Mutant: no unique index stops an identifier taken since it was looked up.
ApproveNotIndexed(r) ==
  LET c == reqs[r].company  new == reqs[r].seen IN
  /\ reqs[r].pc = "approve"
  /\ companies' = [companies EXCEPT ![c].pib = new.pib,
                                    ![c].contact = new.contact]
  /\ memberOf' = [memberOf EXCEPT ![reqs[r].user] = c]
  /\ Settle(r, "approved")
  /\ Done(r)
  /\ UNCHANGED account

\* The patch holds only the filled columns; a unique identifier taken since it
\* was looked up fails the whole decision.
Approve(r) ==
  LET c == reqs[r].company  new == reqs[r].seen IN
  /\ reqs[r].pc = "approve"
  /\ IF new.pib # companies[c].pib /\ PibTaken(new.pib, c)
     THEN UNCHANGED <<companies, memberOf, joins, events>>
     ELSE /\ companies' = [companies EXCEPT ![c].pib = new.pib,
                                            ![c].contact = new.contact]
          /\ memberOf' = [memberOf EXCEPT ![reqs[r].user] = c]
          /\ Settle(r, "approved")
  /\ Done(r)
  /\ UNCHANGED account

-----------------------------------------------------------------------------
(* Staff: leads, edits, accounts, moves.                                   *)

\* StaffCompaniesService.create
CreateLead(r) ==
  /\ reqs[r].pc = "idle"
  /\ \E i \in Input, contact \in {"staff", Null} :
       ~PibTaken(i.pib, Null) /\ Insert(i, contact, FALSE)
  /\ UNCHANGED <<account, memberOf, joins, events, reqs>>

\* A request about c that has passed its checks and is about to write.
Begin(r, pc, c, u) ==
  /\ reqs[r].pc = "idle"
  /\ reqs' = [reqs EXCEPT ![r] = [Idle EXCEPT !.pc = pc, !.company = c,
                                              !.user = u]]
  /\ UNCHANGED <<companies, account, memberOf, joins, events>>

EditRead(r) == \E c \in Exists : Begin(r, "edit", c, Null)

\* A patch of the other field (set or cleared), or of the identity.
\* Mutant: an edit does not wait for the decision that fills in the company.
EditWriteUnlocked(r) ==
  LET c == reqs[r].company IN
  /\ reqs[r].pc = "edit"
  /\ \/ \E contact \in {"staff", Null} :
          companies' = [companies EXCEPT ![c].contact = contact]
     \/ \E i \in Input :
          /\ ~PibTaken(i.pib, c)
          /\ companies' = [companies EXCEPT ![c].name = i.name,
                             ![c].pib = i.pib, ![c].edited = TRUE]
     \/ UNCHANGED companies
  /\ Done(r)
  /\ UNCHANGED <<account, memberOf, joins, events>>

\* StaffCompaniesService.patch, the UPDATE: it waits for the row; a taken
\* identifier is a 409.
EditWrite(r) ==
  LET c == reqs[r].company IN
  /\ reqs[r].pc = "edit" /\ ~CompanyLocked(c)
  /\ \/ \E contact \in {"staff", Null} :
          companies' = [companies EXCEPT ![c].contact = contact]
     \/ \E i \in Input :
          /\ ~PibTaken(i.pib, c)
          /\ companies' = [companies EXCEPT ![c].name = i.name,
                             ![c].pib = i.pib, ![c].edited = TRUE]
     \/ UNCHANGED companies
  /\ Done(r)
  /\ UNCHANGED <<account, memberOf, joins, events>>

\* StaffAccountsService.create: scope, then user and membership in one
\* transaction; the unique email decides.
OpenRead(r) == \E c \in Exists, u \in Users : Begin(r, "open", c, u)

OpenAccount(r) ==
  LET u == reqs[r].user IN
  /\ reqs[r].pc = "open"
  /\ IF u \in account
     THEN UNCHANGED <<account, memberOf>>
     ELSE /\ account' = account \cup {u}
          /\ memberOf' = [memberOf EXCEPT ![u] = reqs[r].company]
  /\ Done(r)
  /\ UNCHANGED <<companies, joins, events>>

\* StaffEmployersService.patch: both companies in scope, then the write by id.
MoveRead(r) ==
  \E c \in Exists, u \in Users :
    memberOf[u] \notin {Null, c} /\ Begin(r, "move", c, u)

Move(r) ==
  /\ reqs[r].pc = "move"
  /\ memberOf' = [memberOf EXCEPT ![reqs[r].user] = reqs[r].company]
  /\ Done(r)
  /\ UNCHANGED <<companies, account, joins, events>>

-----------------------------------------------------------------------------
\* The request dies before its commit.
Abort(r) ==
  /\ reqs[r].pc # "idle"
  /\ Done(r)
  /\ UNCHANGED <<companies, account, memberOf, joins, events>>

Next ==
  \E r \in Requests :
    \/ SignupBegin(r) \/ SignupMatch(r) \/ SignupRegister(r)
    \/ DecideBegin(r) \/ DecideLock(r) \/ Reject(r) \/ FillRead(r) \/ Approve(r)
    \/ CreateLead(r) \/ EditRead(r) \/ EditWrite(r)
    \/ OpenRead(r) \/ OpenAccount(r) \/ MoveRead(r) \/ Move(r)
    \/ Abort(r)

Spec == Init /\ [][Next]_vars

-----------------------------------------------------------------------------
(* Properties.                                                             *)

\* "Two staff clicking at once cannot both decide": a join request has one
\* event, and it tells the decision.
DecidedOnce ==
  \A u \in Users :
    events[u] = IF joins[u] = Null \/ joins[u].status = "pending" THEN <<>>
                ELSE <<joins[u].status>>

\* A person whose request is pending or was rejected belongs to no company:
\* a match by public identifiers links nobody (PRODUCT_SSOT 5.4).
MembersAreVetted ==
  \A u \in Users :
    joins[u] # Null /\ joins[u].status # "approved" => memberOf[u] = Null

\* Two people who sign up the same new company at once get one company and
\* one join request, unless staff changed its identity in between.
SignupsShareACompany ==
  \A c, d \in Exists :
    /\ c # d
    /\ companies[c].selfSignup /\ ~companies[c].edited
    /\ companies[d].selfSignup /\ ~companies[d].edited
    => companies[c].name # companies[d].name

\* Approving "never overwrites what staff entered", edits beside it included:
\* what staff entered staff may clear, but no step puts the sign-up's in its
\* place.
FillsOnlyEmpty ==
  [][\A c \in Exists :
       companies[c].contact = "staff" => companies'[c].contact # "signup"]_vars

\* However requests overlap, die and lock each other out, what they commit is
\* what CompanyRegister does one request at a time (registerEmployer, decide,
\* fillEmptyCompanyFields).
Register == INSTANCE CompanyRegister
RegisterSpec == Register!Spec
=============================================================================
