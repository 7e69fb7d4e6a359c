--------------------------- MODULE CompaniesProofs ---------------------------
(***************************************************************************)
(* Proofs about Companies, for any number of companies, people, names,     *)
(* identifiers and requests.                                               *)
(*                                                                         *)
(* The inductive invariant says what each lock buys until the commit: the  *)
(* row of a join request keeps it pending for the one who decides, the row *)
(* of a company keeps what staff entered for the one who fills it in, and  *)
(* the advisory lock keeps a name free for the one who signs up.  The last *)
(* section shows that Companies implements CompanyRegister.                *)
(***************************************************************************)
EXTENDS Companies, TLAPS

Deciding == {"fill", "approve"}

\* Who has a join request or a company has an account.
AccountsKnown ==
  \A u \in Users :
    /\ joins[u] # Null => u \in account /\ joins[u].company \in Exists
    /\ memberOf[u] # Null => u \in account

\* What a request needs of its earlier steps is there: q its state.
Knows(q) ==
  /\ q.pc \in {"match", "register"} => q.user \in Users /\ q.input \in Input
  /\ q.pc \in {"decide", "fill", "approve"} =>
       /\ q.user \in Users /\ joins[q.user] # Null
       /\ q.company = joins[q.user].company
  /\ q.pc \in {"edit", "open", "move"} => q.company \in Exists
  /\ q.pc \in {"open", "move"} => q.user \in Users
  /\ q.pc = "move" => memberOf[q.user] # Null
  /\ q.pc = "approve" => q.seen \in Company
  /\ q.pc = "register" => q.company \in Exists \cup {Null}
RequestKnows == \A r \in Requests : Knows(reqs[r])

\* What the merge is about to write only fills in what is still empty now.
FillsIn(q) ==
  LET row == companies[q.company] IN
  /\ q.seen.contact = IF row.contact = Null THEN "signup" ELSE row.contact
  /\ \/ q.seen.pib = row.pib
     \/ row.pib = Null /\ q.seen.pib = joins[q.user].input.pib

\* What a lock keeps true for the request that holds it.
Kept(q) ==
  /\ q.pc \in Deciding => joins[q.user].status = "pending"
  /\ q.pc = "approve" => FillsIn(q)
  /\ q.pc = "register" /\ q.company = Null =>
       \A c \in Exists : companies[c].selfSignup /\ ~companies[c].edited
                           => companies[c].name # q.input.name
LocksKeep == \A r \in Requests : Kept(reqs[r])

\* A lock is held by one request.
Apart(p, q) ==
  /\ p.pc \in Deciding /\ q.pc \in Deciding => p.user # q.user
  /\ p.pc = "approve" /\ q.pc = "approve" => p.company # q.company
  /\ ~(p.pc = "register" /\ q.pc = "register")
LocksExclude == \A r, o \in Requests : r # o => Apart(reqs[r], reqs[o])

IInv ==
  /\ TypeOK
  /\ AccountsKnown
  /\ RequestKnows
  /\ LocksKeep
  /\ LocksExclude
  /\ DecidedOnce
  /\ MembersAreVetted
  /\ SignupsShareACompany

\* The initial state satisfies it.
LEMMA InitIInv == Init => IInv
<1> SUFFICES ASSUME Init PROVE IInv
    OBVIOUS
<1> USE DEF Init
<1>1. Idle \in Request /\ Idle.pc = "idle"
  BY DEF Idle, Request, Pc
<1>2. TypeOK
  BY <1>1 DEF TypeOK
<1>3. AccountsKnown /\ DecidedOnce /\ MembersAreVetted
  BY DEF AccountsKnown, DecidedOnce, MembersAreVetted
<1>4. SignupsShareACompany
  BY DEF SignupsShareACompany, Exists
<1>5. \A r \in Requests : reqs[r].pc = "idle"
  BY <1>1
<1>6. RequestKnows /\ LocksKeep /\ LocksExclude
  BY <1>5 DEF RequestKnows, LocksKeep, LocksExclude, Knows, Kept, Apart,
              Deciding
<1> QED
  BY <1>2, <1>3, <1>4, <1>6 DEF IInv

-----------------------------------------------------------------------------
(* Steps that only change a request.                                       *)

tables == <<companies, account, memberOf, joins, events>>

Quiet(r, q) ==
  /\ reqs' = [reqs EXCEPT ![r] = q]
  /\ UNCHANGED tables
  /\ q \in Request
  /\ Knows(q)
  /\ Kept(q)
  /\ \A o \in Requests \ {r} : Apart(q, reqs[o])

\* They keep the invariant.
LEMMA QuietKeeps ==
  ASSUME IInv, NEW r \in Requests, NEW q, Quiet(r, q)
  PROVE  IInv'
<1>1. /\ companies' = companies /\ account' = account /\ memberOf' = memberOf
      /\ joins' = joins /\ events' = events /\ Exists' = Exists
  BY DEF Quiet, tables, Exists
<1>2. TypeOK'
  BY <1>1 DEF IInv, TypeOK, Quiet
<1>3. reqs'[r] = q /\ \A o \in Requests \ {r} : reqs'[o] = reqs[o]
  BY DEF Quiet, IInv, TypeOK
<1>4. AccountsKnown' /\ DecidedOnce' /\ MembersAreVetted' /\ SignupsShareACompany'
  BY <1>1 DEF IInv, AccountsKnown, DecidedOnce, MembersAreVetted,
              SignupsShareACompany
<1>5. RequestKnows'
  BY <1>1, <1>3 DEF IInv, RequestKnows, Knows, Quiet
<1>6. LocksKeep'
  BY <1>1, <1>3 DEF IInv, LocksKeep, Kept, FillsIn, Quiet
<1>7. LocksExclude'
  BY <1>3 DEF IInv, LocksExclude, Apart, Quiet
<1> QED
  BY <1>2, <1>4, <1>5, <1>6, <1>7 DEF IInv

\* A request that ends and changes nothing is one.
LEMMA OverIsQuiet ==
  ASSUME NEW r \in Requests, Done(r), UNCHANGED tables
  PROVE  Quiet(r, Idle)
<1>1. Idle \in Request /\ Idle.pc = "idle"
  BY DEF Idle, Request, Pc
<1> QED
  BY <1>1 DEF Done, Quiet, Knows, Kept, Apart, Deciding

\* Each of these steps is one.
LEMMA QuietSteps ==
  ASSUME IInv, NEW r \in Requests,
         \/ SignupBegin(r) \/ SignupMatch(r) \/ DecideBegin(r) \/ DecideLock(r)
         \/ FillRead(r) \/ EditRead(r) \/ OpenRead(r) \/ MoveRead(r) \/ Abort(r)
  PROVE  \E q : Quiet(r, q)
<1> USE DEF Deciding
<1>1. TypeOK /\ reqs[r] \in Request /\ Knows(reqs[r]) /\ Exists \subseteq CompanyIds
  BY DEF IInv, TypeOK, RequestKnows, Exists
<1>2. ASSUME NEW q \in Request, reqs' = [reqs EXCEPT ![r] = q],
             UNCHANGED tables, Knows(q),
             q.pc \notin {"fill", "approve", "register"}
      PROVE  Quiet(r, q)
  BY <1>2 DEF Quiet, Kept, Apart
<1>3. CASE SignupBegin(r)
  <2>1. PICK u \in Users \ account, i \in Input :
          reqs' = [reqs EXCEPT ![r] = [Idle EXCEPT !.pc = "match", !.user = u,
                                                   !.input = i]]
    BY <1>3 DEF SignupBegin
  <2> DEFINE q == [Idle EXCEPT !.pc = "match", !.user = u, !.input = i]
  <2>2. q \in Request /\ q.pc = "match" /\ q.user = u /\ q.input = i
    BY DEF Idle, Request, Pc
  <2> QED
    BY <1>2, <1>3, <2>1, <2>2 DEF SignupBegin, tables, Knows
<1>4. CASE SignupMatch(r)
  <2> DEFINE i == reqs[r].input
  <2>1. PICK c \in Matches(i) :
          reqs' = [reqs EXCEPT ![r].company = c, ![r].pc = "register"]
    BY <1>4 DEF SignupMatch
  <2> DEFINE q == [reqs[r] EXCEPT !.company = c, !.pc = "register"]
  <2>2. reqs[r].pc = "match" /\ At("register") = {} /\ UNCHANGED tables
    BY <1>4 DEF SignupMatch, tables
  <2>3. c \in Exists \cup {Null}
    BY DEF Matches, ByPib, ByName
  <2>4. q \in Request /\ q.pc = "register" /\ q.user = reqs[r].user
          /\ q.input = i /\ q.company = c
    BY <1>1, <2>3 DEF Request, Pc
  <2>5. Knows(q)
    BY <1>1, <2>2, <2>3, <2>4 DEF Knows
  <2>6. c = Null => \A d \in Exists : companies[d].name # i.name
    <3>1. Null \notin Exists
      BY <1>1, CompaniesAssumptions
    <3> QED
      BY <3>1 DEF Matches, ByPib, ByName
  <2>7. Kept(q)
    BY <2>4, <2>6 DEF Kept
  <2>8. \A o \in Requests \ {r} : Apart(q, reqs[o])
    BY <2>2, <2>4 DEF At, Apart
  <2>9. reqs' = [reqs EXCEPT ![r] = q]
    BY <2>1
  <2> QED
    BY <2>2, <2>4, <2>5, <2>7, <2>8, <2>9 DEF Quiet
<1>5. CASE DecideBegin(r)
  <2>1. PICK u \in Users :
          /\ joins[u] # Null
          /\ reqs' = [reqs EXCEPT ![r] = [Idle EXCEPT !.pc = "decide",
                        !.user = u, !.company = joins[u].company]]
    BY <1>5 DEF DecideBegin
  <2> DEFINE q == [Idle EXCEPT !.pc = "decide", !.user = u,
                               !.company = joins[u].company]
  <2>2. joins[u].company \in CompanyIds
    BY <1>1, <2>1 DEF TypeOK, Join
  <2>3. q \in Request /\ q.pc = "decide" /\ q.user = u
          /\ q.company = joins[u].company
    BY <2>2 DEF Idle, Request, Pc
  <2> QED
    BY <1>2, <1>5, <2>1, <2>3 DEF DecideBegin, tables, Knows
<1>7. CASE DecideLock(r)
  <2> DEFINE u == reqs[r].user
             q == [reqs[r] EXCEPT !.pc = "fill"]
  <2>1. reqs[r].pc = "decide" /\ ~JoinLocked(u) /\ UNCHANGED tables
    BY <1>7 DEF DecideLock, tables
  <2>2. CASE joins[u].status = "pending"
    <3>1. reqs' = [reqs EXCEPT ![r] = q]
      BY <1>7, <2>2 DEF DecideLock, Go
    <3>2. q \in Request /\ q.pc = "fill" /\ q.user = u
            /\ q.company = reqs[r].company
      BY <1>1 DEF Request, Pc
    <3>3. Knows(q) /\ Kept(q)
      BY <1>1, <2>1, <2>2, <3>2 DEF Knows, Kept
    <3>4. \A o \in Requests \ {r} : Apart(q, reqs[o])
      BY <2>1, <3>2 DEF JoinLocked, At, Apart
    <3> QED
      BY <2>1, <3>1, <3>2, <3>3, <3>4 DEF Quiet
  <2>3. CASE joins[u].status # "pending"
    BY OverIsQuiet, <1>7, <2>1, <2>3 DEF DecideLock
  <2> QED
    BY <2>2, <2>3
<1>8. CASE FillRead(r)
  <2> DEFINE u == reqs[r].user
             c == reqs[r].company
             seen == Filled(companies[c], joins[u].input, c)
             q == [reqs[r] EXCEPT !.pc = "approve", !.seen = seen]
  <2>1. reqs[r].pc = "fill" /\ ~CompanyLocked(c) /\ UNCHANGED tables
          /\ reqs' = [reqs EXCEPT ![r] = q]
    BY <1>8 DEF FillRead, tables
  <2>2. u \in Users /\ joins[u] # Null /\ c = joins[u].company /\ c \in Exists
    BY <1>1, <2>1 DEF Knows, IInv, AccountsKnown
  <2>3. companies[c] \in Company /\ joins[u].input \in Input
    BY <1>1, <2>2 DEF TypeOK, Exists, Join
  <2>4. /\ seen \in Company
        /\ seen.contact = IF companies[c].contact = Null THEN "signup"
                          ELSE companies[c].contact
        /\ \/ seen.pib = companies[c].pib
           \/ companies[c].pib = Null /\ seen.pib = joins[u].input.pib
    BY <2>3 DEF Filled, Company, Input
  <2>5. q \in Request /\ q.pc = "approve" /\ q.user = u /\ q.company = c
          /\ q.seen = seen
    BY <1>1, <2>4 DEF Request, Pc
  <2>6. joins[u].status = "pending"
    BY <2>1 DEF IInv, LocksKeep, Kept
  <2>7. Knows(q) /\ Kept(q)
    BY <1>1, <2>1, <2>2, <2>4, <2>5, <2>6 DEF Knows, Kept, FillsIn
  <2>8. \A o \in Requests \ {r} : Apart(q, reqs[o])
    BY <2>1, <2>5 DEF CompanyLocked, At, Apart, IInv, LocksExclude
  <2> QED
    BY <2>1, <2>5, <2>7, <2>8 DEF Quiet
<1>9. ASSUME NEW pc \in {"edit", "open", "move"}, NEW c \in Exists,
             NEW u \in Users \cup {Null}, Begin(r, pc, c, u),
             pc # "edit" => u \in Users,
             pc = "move" => memberOf[u] # Null
      PROVE  \E q : Quiet(r, q)
  <2> DEFINE q == [Idle EXCEPT !.pc = pc, !.company = c, !.user = u]
  <2>1. q \in Request /\ q.pc = pc /\ q.user = u /\ q.company = c
    BY <1>1 DEF Idle, Request, Pc
  <2> QED
    BY <1>2, <1>9, <2>1 DEF Begin, tables, Knows
<1>10. CASE EditRead(r) \/ OpenRead(r) \/ MoveRead(r)
  BY <1>9, <1>10 DEF EditRead, OpenRead, MoveRead
<1>11. CASE Abort(r)
  BY OverIsQuiet, <1>11 DEF Abort, tables
<1> QED
  BY <1>3, <1>4, <1>5, <1>7, <1>8, <1>10, <1>11

-----------------------------------------------------------------------------
(* Steps that write a table.                                               *)

\* Rows are never taken away, and a join request stays with its company.
Grows ==
  /\ Exists \subseteq Exists'
  /\ \A u \in Users :
       /\ joins[u] # Null
            => /\ joins'[u] # Null
               /\ joins'[u].company = joins[u].company
               /\ joins'[u].input = joins[u].input
       /\ memberOf[u] # Null => memberOf'[u] # Null

\* A step after which request r is over.
Ends(r) ==
  /\ reqs' \in [Requests -> Request]
  /\ reqs'[r].pc = "idle"
  /\ \A o \in Requests \ {r} : reqs'[o] = reqs[o]

\* It keeps the invariant if it keeps what is said of the tables, and what
\* the locks of the other requests protect.
LEMMA EndKeeps ==
  ASSUME IInv, NEW r \in Requests, Ends(r), Grows,
         \A o \in Requests \ {r} : \A q : q = reqs[o] => Kept(q)',
         TypeOK', AccountsKnown', DecidedOnce', MembersAreVetted',
         SignupsShareACompany'
  PROVE  IInv'
<1>1. RequestKnows'
  <2> SUFFICES ASSUME NEW o \in Requests PROVE Knows(reqs[o])'
      BY DEF RequestKnows
  <2>1. CASE o = r
    BY <2>1 DEF Ends, Knows
  <2>2. CASE o # r
    <3>1. reqs'[o] = reqs[o] /\ Knows(reqs[o])
      BY <2>2 DEF Ends, IInv, RequestKnows
    <3> QED
      BY <3>1 DEF Knows, Grows
  <2> QED
    BY <2>1, <2>2
<1>2. LocksKeep'
  <2> SUFFICES ASSUME NEW o \in Requests PROVE Kept(reqs[o])'
      BY DEF LocksKeep
  <2>1. CASE o = r
    BY <2>1 DEF Ends, Kept, Deciding
  <2>2. CASE o # r
    BY <2>2 DEF Ends, Kept
  <2> QED
    BY <2>1, <2>2
<1>3. LocksExclude'
  BY DEF IInv, LocksExclude, Apart, Ends, Deciding
<1> QED
  BY <1>1, <1>2, <1>3 DEF IInv

\* Where a request that writes stands before and after.
LEMMA DoneEnds ==
  ASSUME IInv, NEW r \in Requests, Done(r)
  PROVE  Ends(r)
<1>1. Idle \in Request /\ Idle.pc = "idle"
  BY DEF Idle, Request, Pc
<1> QED
  BY <1>1 DEF IInv, TypeOK, Done, Ends

\* A signed-up company is new: sign-ups hold the advisory lock.
LEMMA SignupRegisterKeeps ==
  ASSUME IInv, NEW r \in Requests, SignupRegister(r)
  PROVE  IInv'
<1> DEFINE u == reqs[r].user
           i == reqs[r].input
           c == reqs[r].company
<1>1. TypeOK /\ AccountsKnown /\ DecidedOnce /\ MembersAreVetted
        /\ SignupsShareACompany /\ Knows(reqs[r]) /\ Kept(reqs[r])
  BY DEF IInv, RequestKnows, LocksKeep
<1>2. reqs[r].pc = "register" /\ Done(r) /\ events' = events
  BY DEF SignupRegister
<1>3. u \in Users /\ i \in Input /\ c \in Exists \cup {Null}
        /\ Exists \subseteq CompanyIds
  BY <1>1, <1>2 DEF Knows, Exists
<1>4. Ends(r)
  BY <1>2, DoneEnds
<1>5. \A o \in Requests \ {r} :
        /\ Knows(reqs[o]) /\ Kept(reqs[o])
        /\ reqs[o].pc # "register"
  BY <1>2 DEF IInv, RequestKnows, LocksKeep, LocksExclude, Apart
<1>6. ASSUME u \notin account
      PROVE  /\ joins[u] = Null /\ memberOf[u] = Null
             /\ \A o \in Requests \ {r} :
                  reqs[o].pc \in Deciding => reqs[o].user # u
  BY <1>1, <1>3, <1>5, <1>6 DEF AccountsKnown, Knows, Deciding
<1>7. CASE u \in account \/ (c = Null /\ PibTaken(i.pib, Null))
  <2>1. UNCHANGED tables
    BY <1>7, <1>2 DEF SignupRegister, tables
  <2> QED
    BY <1>2, <2>1, OverIsQuiet, QuietKeeps
<1>8. CASE u \notin account /\ c = Null /\ ~PibTaken(i.pib, Null)
  <2> DEFINE row == [name |-> i.name, pib |-> i.pib, contact |-> "signup",
                     selfSignup |-> TRUE, edited |-> FALSE]
  <2>1. PICK d \in CompanyIds \ Exists : companies' = [companies EXCEPT ![d] = row]
    BY <1>8 DEF SignupRegister, Insert
  <2>2. row \in Company /\ row # Null
    <3>1. i.name \in Names /\ i.pib \in Pibs \cup {Null}
      BY <1>3 DEF Input
    <3>2. row \in Company
      BY <3>1 DEF Company
    <3> QED
      BY <3>2, NullIsNoRow
  <2>3. /\ Exists' = Exists \cup {d} /\ companies'[d] = row
        /\ \A e \in Exists : companies'[e] = companies[e]
        /\ companies' \in [CompanyIds -> Company \cup {Null}]
    BY <2>1, <2>2, <1>1 DEF TypeOK, Exists
  <2>4. /\ account' = account \cup {u} /\ joins' = joins
        /\ \E e \in CompanyIds \ Exists : memberOf' = [memberOf EXCEPT ![u] = e]
    BY <1>8 DEF SignupRegister
  <2>5. PICK e \in CompanyIds : memberOf' = [memberOf EXCEPT ![u] = e]
    BY <2>4
  <2>6. memberOf' \in [Users -> CompanyIds \cup {Null}]
          /\ memberOf'[u] = e
          /\ \A v \in Users \ {u} : memberOf'[v] = memberOf[v]
    BY <1>1, <1>3, <2>5 DEF TypeOK
  <2>7. TypeOK'
    BY <1>1, <1>2, <1>3, <1>4, <2>3, <2>4, <2>6 DEF TypeOK, Ends
  <2>8. Grows
    BY <1>6, <1>8, <2>3, <2>4, <2>6 DEF Grows
  <2>9. AccountsKnown' /\ DecidedOnce' /\ MembersAreVetted'
    BY <1>1, <1>2, <1>3, <1>6, <1>8, <2>3, <2>4, <2>6
       DEF AccountsKnown, DecidedOnce, MembersAreVetted
  <2>10. SignupsShareACompany'
    BY <1>1, <1>2, <1>8, <2>3 DEF SignupsShareACompany, Kept
  <2>11. ASSUME NEW o \in Requests \ {r}, NEW q, q = reqs[o] PROVE Kept(q)'
    <3>1. q.pc \in Deciding => q.user \in Users /\ q.company \in Exists
      BY <1>1, <1>5, <2>11 DEF Knows, Deciding, AccountsKnown
    <3> QED
      BY <1>5, <2>3, <2>4, <2>11, <3>1 DEF Kept, FillsIn, Deciding
  <2> QED
    BY <1>4, <2>7, <2>8, <2>9, <2>10, <2>11, EndKeeps
<1>9. CASE u \notin account /\ c # Null
  <2> DEFINE row == [company |-> c, input |-> i, status |-> "pending"]
  <2>1. /\ account' = account \cup {u} /\ joins' = [joins EXCEPT ![u] = row]
        /\ companies' = companies /\ memberOf' = memberOf
    BY <1>9 DEF SignupRegister
  <2>2. row \in Join /\ row # Null /\ row.status = "pending" /\ row.company = c
    BY <1>3, <1>9, NullIsNoRow DEF Join
  <2>3. /\ joins' \in [Users -> Join \cup {Null}] /\ joins'[u] = row
        /\ \A v \in Users \ {u} : joins'[v] = joins[v]
        /\ Exists' = Exists
    BY <1>1, <1>3, <2>1, <2>2 DEF TypeOK, Exists
  <2>4. TypeOK'
    BY <1>1, <1>2, <1>3, <1>4, <2>1, <2>3 DEF TypeOK, Ends
  <2>5. Grows
    BY <1>6, <1>9, <2>1, <2>3 DEF Grows
  <2>6. AccountsKnown' /\ DecidedOnce' /\ MembersAreVetted'
    BY <1>1, <1>2, <1>3, <1>6, <1>9, <2>1, <2>2, <2>3
       DEF AccountsKnown, DecidedOnce, MembersAreVetted
  <2>7. SignupsShareACompany'
    BY <1>1, <2>1, <2>3 DEF SignupsShareACompany
  <2>8. ASSUME NEW o \in Requests \ {r}, NEW q, q = reqs[o] PROVE Kept(q)'
    <3>1. q.pc \in Deciding => q.user \in Users \ {u}
      BY <1>5, <1>6, <1>9, <2>8 DEF Knows, Deciding
    <3> QED
      BY <1>5, <2>1, <2>3, <2>8, <3>1 DEF Kept, FillsIn, Deciding
  <2> QED
    BY <1>4, <2>4, <2>5, <2>6, <2>7, <2>8, EndKeeps
<1> QED
  BY <1>7, <1>8, <1>9, <1>3

\* The outcome of a join request that was pending for the one who decides.
LEMMA SettleKeeps ==
  ASSUME IInv, NEW r \in Requests, NEW d \in Decision, Settle(r, d),
         reqs[r].pc \in Deciding
  PROVE  LET u == reqs[r].user IN
         /\ u \in Users /\ joins[u] # Null /\ u \in account
         /\ reqs[r].company = joins[u].company /\ reqs[r].company \in Exists
         /\ joins' \in [Users -> Join \cup {Null}]
         /\ events' \in [Users -> Seq(Decision)]
         /\ joins'[u] # Null /\ joins'[u].company = joins[u].company
         /\ joins'[u].input = joins[u].input /\ joins'[u].status = d
         /\ \A v \in Users \ {u} : joins'[v] = joins[v]
         /\ DecidedOnce'
         /\ \A o \in Requests \ {r} :
              /\ Knows(reqs[o]) /\ Kept(reqs[o])
              /\ reqs[o].pc \in Deciding
                   => /\ reqs[o].user \in Users \ {u}
                      /\ reqs[o].company \in Exists
                      /\ reqs[r].pc = "approve" /\ reqs[o].pc = "approve"
                           => reqs[o].company # reqs[r].company
<1> DEFINE u == reqs[r].user
<1>1. TypeOK /\ AccountsKnown /\ DecidedOnce /\ Knows(reqs[r]) /\ Kept(reqs[r])
  BY DEF IInv, RequestKnows, LocksKeep
<1>2. u \in Users /\ joins[u] # Null /\ u \in account
        /\ reqs[r].company = joins[u].company /\ reqs[r].company \in Exists
  BY <1>1 DEF Knows, Deciding, AccountsKnown
<1>3. joins[u] \in Join /\ joins[u].status = "pending" /\ events[u] = <<>>
  BY <1>1, <1>2 DEF TypeOK, Kept, DecidedOnce
<1>4. /\ joins' = [joins EXCEPT ![u] = [joins[u] EXCEPT !.status = d]]
      /\ events' = [events EXCEPT ![u] = Append(events[u], d)]
  BY <1>1, <1>2 DEF Settle, TypeOK
<1>5. [joins[u] EXCEPT !.status = d] \in Join
        /\ [joins[u] EXCEPT !.status = d].status = d
        /\ [joins[u] EXCEPT !.status = d].company = joins[u].company
        /\ [joins[u] EXCEPT !.status = d].input = joins[u].input
  BY <1>3 DEF Join
<1>6. /\ joins' \in [Users -> Join \cup {Null}]
      /\ joins'[u] # Null /\ joins'[u].company = joins[u].company
      /\ joins'[u].input = joins[u].input /\ joins'[u].status = d
      /\ \A v \in Users \ {u} : joins'[v] = joins[v]
  BY <1>1, <1>2, <1>4, <1>5, NullIsNoRow DEF TypeOK
<1>7. Append(events[u], d) = <<d>> /\ Append(events[u], d) \in Seq(Decision)
  BY <1>3
<1>8. /\ events' \in [Users -> Seq(Decision)] /\ events'[u] = <<d>>
      /\ \A v \in Users \ {u} : events'[v] = events[v]
  BY <1>1, <1>2, <1>4, <1>7 DEF TypeOK
<1>9. DecidedOnce'
  BY <1>1, <1>2, <1>6, <1>8 DEF DecidedOnce, Decision
<1>10. ASSUME NEW o \in Requests \ {r}
       PROVE  /\ Knows(reqs[o]) /\ Kept(reqs[o])
              /\ reqs[o].pc \in Deciding
                   => /\ reqs[o].user \in Users \ {u}
                      /\ reqs[o].company \in Exists
                      /\ reqs[r].pc = "approve" /\ reqs[o].pc = "approve"
                           => reqs[o].company # reqs[r].company
  <2>1. Knows(reqs[o]) /\ Kept(reqs[o]) /\ Apart(reqs[r], reqs[o])
    BY DEF IInv, RequestKnows, LocksKeep, LocksExclude
  <2> QED
    BY <1>1, <2>1 DEF Knows, Apart, Deciding, AccountsKnown
<1> QED
  BY <1>2, <1>6, <1>8, <1>9, <1>10

\* A rejection settles a pending request and links nobody.
LEMMA RejectKeeps ==
  ASSUME IInv, NEW r \in Requests, Reject(r)
  PROVE  IInv'
<1> DEFINE u == reqs[r].user
<1>1. TypeOK /\ AccountsKnown /\ MembersAreVetted /\ SignupsShareACompany
  BY DEF IInv
<1>2. reqs[r].pc = "fill" /\ Settle(r, "rejected") /\ Done(r)
        /\ companies' = companies /\ account' = account
        /\ memberOf' = memberOf /\ Exists' = Exists
  BY DEF Reject, Exists
<1>3. Ends(r)
  BY <1>2, DoneEnds
<1>4. "rejected" \in Decision /\ reqs[r].pc \in Deciding
  BY <1>2 DEF Decision, Deciding
<1>5. /\ u \in Users /\ joins[u] # Null
      /\ joins' \in [Users -> Join \cup {Null}]
      /\ events' \in [Users -> Seq(Decision)]
      /\ joins'[u] # Null /\ joins'[u].company = joins[u].company
      /\ joins'[u].input = joins[u].input
      /\ \A v \in Users \ {u} : joins'[v] = joins[v]
      /\ DecidedOnce'
  BY <1>2, <1>4, SettleKeeps
<1>6. joins[u].status = "pending"
  BY <1>4 DEF IInv, LocksKeep, Kept
<1>7. TypeOK'
  BY <1>1, <1>2, <1>3, <1>5 DEF TypeOK, Ends
<1>8. Grows
  BY <1>2, <1>5 DEF Grows
<1>9. AccountsKnown' /\ MembersAreVetted' /\ SignupsShareACompany'
  BY <1>1, <1>2, <1>5, <1>6
     DEF AccountsKnown, MembersAreVetted, SignupsShareACompany
<1>10. ASSUME NEW o \in Requests \ {r}, NEW q, q = reqs[o] PROVE Kept(q)'
  <2>1. Kept(q) /\ (q.pc \in Deciding => q.user \in Users \ {u})
    BY <1>2, <1>4, <1>10, SettleKeeps
  <2> QED
    BY <1>2, <1>5, <2>1 DEF Kept, FillsIn, Deciding
<1> QED
  BY <1>3, <1>5, <1>7, <1>8, <1>9, <1>10, EndKeeps

\* A decision that fills in its company leaves what staff entered: the
\* company's row is locked since it was read.
LEMMA ApproveKeeps ==
  ASSUME IInv, NEW r \in Requests, Approve(r)
  PROVE  /\ IInv'
         /\ \A e \in Exists : companies[e].contact = "staff"
                                => companies'[e].contact # "signup"
<1> DEFINE u == reqs[r].user
           c == reqs[r].company
           new == reqs[r].seen
<1>1. TypeOK /\ AccountsKnown /\ MembersAreVetted /\ SignupsShareACompany
        /\ Knows(reqs[r]) /\ Kept(reqs[r]) /\ Exists \subseteq CompanyIds
  BY DEF IInv, RequestKnows, LocksKeep, Exists
<1>2. reqs[r].pc = "approve" /\ Done(r) /\ account' = account
  BY DEF Approve
<1>3. Ends(r)
  BY <1>2, DoneEnds
<1>4. CASE new.pib # companies[c].pib /\ PibTaken(new.pib, c)
  <2>1. UNCHANGED tables
    BY <1>2, <1>4 DEF Approve, tables
  <2>2. IInv'
    BY <1>2, <2>1, OverIsQuiet, QuietKeeps
  <2> QED
    BY <2>1, <2>2 DEF tables
<1>5. CASE ~(new.pib # companies[c].pib /\ PibTaken(new.pib, c))
  <2> DEFINE row == [companies[c] EXCEPT !.pib = new.pib, !.contact = new.contact]
  <2>1. Settle(r, "approved") /\ memberOf' = [memberOf EXCEPT ![u] = c]
          /\ companies' = [companies EXCEPT ![c].pib = new.pib,
                                            ![c].contact = new.contact]
    BY <1>5 DEF Approve
  <2>2. "approved" \in Decision /\ reqs[r].pc \in Deciding
    BY <1>2 DEF Decision, Deciding
  <2>3. /\ u \in Users /\ joins[u] # Null /\ u \in account /\ c \in Exists
        /\ joins' \in [Users -> Join \cup {Null}]
        /\ events' \in [Users -> Seq(Decision)]
        /\ joins'[u] # Null /\ joins'[u].company = joins[u].company
        /\ joins'[u].input = joins[u].input /\ joins'[u].status = "approved"
        /\ \A v \in Users \ {u} : joins'[v] = joins[v]
        /\ DecidedOnce'
    BY <2>1, <2>2, SettleKeeps
  <2>4. new \in Company /\ companies[c] \in Company
    BY <1>1, <1>2, <2>3 DEF Knows, TypeOK, Exists
  <2>5. row \in Company /\ row # Null /\ row.contact = new.contact
          /\ row.name = companies[c].name /\ row.edited = companies[c].edited
          /\ row.selfSignup = companies[c].selfSignup
    <3>1. new.pib \in Pibs \cup {Null} /\ new.contact \in {"staff", "signup", Null}
      BY <2>4 DEF Company
    <3> QED
      BY <2>4, <3>1, NullIsNoRow DEF Company
  <2>6. companies' = [companies EXCEPT ![c] = row]
    BY <1>1, <2>1, <2>3 DEF TypeOK
  <2>7. /\ companies' \in [CompanyIds -> Company \cup {Null}]
        /\ companies'[c] = row /\ Exists' = Exists
        /\ \A e \in Exists \ {c} : companies'[e] = companies[e]
    BY <1>1, <2>3, <2>5, <2>6 DEF TypeOK, Exists
  <2>8. /\ memberOf' \in [Users -> CompanyIds \cup {Null}] /\ memberOf'[u] = c
        /\ \A v \in Users \ {u} : memberOf'[v] = memberOf[v]
    BY <1>1, <2>1, <2>3 DEF TypeOK
  <2>9. TypeOK'
    BY <1>1, <1>2, <1>3, <2>3, <2>7, <2>8 DEF TypeOK, Ends
  <2>10. Grows
    BY <1>1, <2>3, <2>7, <2>8, CompaniesAssumptions DEF Grows
  <2>11. AccountsKnown' /\ MembersAreVetted'
    BY <1>1, <1>2, <2>3, <2>7, <2>8 DEF AccountsKnown, MembersAreVetted
  <2>12. \A e \in Exists :
           /\ companies'[e].name = companies[e].name
           /\ companies'[e].edited = companies[e].edited
           /\ companies'[e].selfSignup = companies[e].selfSignup
    BY <2>5, <2>7
  <2>13. SignupsShareACompany'
    BY <1>1, <2>7, <2>12 DEF SignupsShareACompany
  <2>14. ASSUME NEW o \in Requests \ {r}, NEW q, q = reqs[o] PROVE Kept(q)'
    <3>1. Kept(q) /\ (q.pc \in Deciding =>
                        /\ q.user \in Users \ {u} /\ q.company \in Exists
                        /\ q.pc = "approve" => q.company # c)
      BY <1>2, <2>1, <2>2, <2>14, SettleKeeps
    <3>2. q.pc \in Deciding => joins'[q.user].status = "pending"
      BY <2>3, <3>1 DEF Kept
    <3>3. q.pc = "approve" => FillsIn(q)'
      BY <2>3, <2>7, <3>1 DEF Kept, FillsIn, Deciding
    <3>4. q.pc = "register" /\ q.company = Null =>
            \A e \in Exists' : companies'[e].selfSignup /\ ~companies'[e].edited
                                 => companies'[e].name # q.input.name
      BY <2>7, <2>12, <3>1 DEF Kept
    <3> QED
      BY <3>2, <3>3, <3>4 DEF Kept
  <2>15. IInv'
    BY <1>3, <2>3, <2>9, <2>10, <2>11, <2>13, <2>14, EndKeeps
  <2>16. companies[c].contact = "staff" => companies'[c].contact # "signup"
    BY <1>1, <1>2, <2>5, <2>7, CompaniesAssumptions DEF Kept, FillsIn
  <2> QED
    BY <2>7, <2>15, <2>16
<1> QED
  BY <1>4, <1>5

\* The staff member's new company is nobody's sign-up.
LEMMA CreateLeadKeeps ==
  ASSUME IInv, NEW r \in Requests, CreateLead(r)
  PROVE  /\ IInv'
         /\ \A e \in Exists : companies'[e] = companies[e]
<1>1. TypeOK /\ AccountsKnown /\ DecidedOnce /\ MembersAreVetted
        /\ SignupsShareACompany
  BY DEF IInv
<1>2. reqs[r].pc = "idle" /\ account' = account /\ memberOf' = memberOf
        /\ joins' = joins /\ events' = events /\ reqs' = reqs
  BY DEF CreateLead
<1>3. Ends(r)
  BY <1>1, <1>2 DEF Ends, TypeOK
<1>4. PICK i \in Input, contact \in {"staff", Null} : Insert(i, contact, FALSE)
  BY DEF CreateLead
<1> DEFINE row == [name |-> i.name, pib |-> i.pib, contact |-> contact,
                   selfSignup |-> FALSE, edited |-> FALSE]
<1>5. PICK d \in CompanyIds \ Exists : companies' = [companies EXCEPT ![d] = row]
  BY <1>4 DEF Insert
<1>6. row \in Company /\ row # Null /\ ~row.selfSignup
  <2>1. i.name \in Names /\ i.pib \in Pibs \cup {Null}
    BY DEF Input
  <2>2. row \in Company
    BY <2>1 DEF Company
  <2> QED
    BY <2>2, NullIsNoRow
<1>7. /\ Exists' = Exists \cup {d} /\ ~companies'[d].selfSignup
      /\ \A e \in Exists : companies'[e] = companies[e]
      /\ companies' \in [CompanyIds -> Company \cup {Null}]
  BY <1>1, <1>5, <1>6 DEF TypeOK, Exists
<1>8. TypeOK' /\ Grows
  BY <1>1, <1>2, <1>7 DEF TypeOK, Grows
<1>9. AccountsKnown' /\ DecidedOnce' /\ MembersAreVetted'
  BY <1>1, <1>2, <1>7 DEF AccountsKnown, DecidedOnce, MembersAreVetted
<1>10. SignupsShareACompany'
  BY <1>1, <1>7 DEF SignupsShareACompany
<1>11. ASSUME NEW o \in Requests \ {r}, NEW q, q = reqs[o] PROVE Kept(q)'
  <2>1. Kept(q) /\ (q.pc \in Deciding => q.company \in Exists)
    BY <1>1, <1>11 DEF IInv, LocksKeep, RequestKnows, Knows, Deciding,
                       AccountsKnown
  <2> QED
    BY <1>2, <1>7, <2>1 DEF Kept, FillsIn, Deciding
<1> QED
  BY <1>3, <1>7, <1>8, <1>9, <1>10, <1>11, EndKeeps

\* An edit waits for the decision that fills in its company.
LEMMA EditWriteKeeps ==
  ASSUME IInv, NEW r \in Requests, EditWrite(r)
  PROVE  /\ IInv'
         /\ \A e \in Exists : companies[e].contact = "staff"
                                => companies'[e].contact # "signup"
<1> DEFINE c == reqs[r].company
<1>1. TypeOK /\ AccountsKnown /\ DecidedOnce /\ MembersAreVetted
        /\ SignupsShareACompany /\ Exists \subseteq CompanyIds
  BY DEF IInv, Exists
<1>2. reqs[r].pc = "edit" /\ ~CompanyLocked(c) /\ Done(r)
        /\ account' = account /\ memberOf' = memberOf
        /\ joins' = joins /\ events' = events
  BY DEF EditWrite
<1>3. Ends(r)
  BY <1>2, DoneEnds
<1>4. c \in Exists /\ companies[c] \in Company
  BY <1>1, <1>2 DEF IInv, RequestKnows, Knows, TypeOK, Exists
<1>5. CASE UNCHANGED companies
  <2>1. UNCHANGED tables
    BY <1>2, <1>5 DEF tables
  <2> QED
    BY <1>2, <1>5, <2>1, OverIsQuiet, QuietKeeps
<1>6. ASSUME NEW row \in Company, companies' = [companies EXCEPT ![c] = row],
             companies[c].contact = "staff" => row.contact # "signup",
             \/ row.edited
             \/ /\ row.name = companies[c].name
                /\ row.edited = companies[c].edited
                /\ row.selfSignup = companies[c].selfSignup
      PROVE  /\ IInv'
             /\ \A e \in Exists : companies[e].contact = "staff"
                                    => companies'[e].contact # "signup"
  <2>1. /\ companies' \in [CompanyIds -> Company \cup {Null}]
        /\ companies'[c] = row /\ Exists' = Exists
        /\ \A e \in Exists \ {c} : companies'[e] = companies[e]
    BY <1>1, <1>4, <1>6, NullIsNoRow DEF TypeOK, Exists
  <2>2. TypeOK' /\ Grows
    BY <1>1, <1>2, <1>3, <2>1 DEF TypeOK, Ends, Grows
  <2>3. AccountsKnown' /\ DecidedOnce' /\ MembersAreVetted'
    BY <1>1, <1>2, <2>1 DEF AccountsKnown, DecidedOnce, MembersAreVetted
  <2>4. \A e \in Exists :
          \/ companies'[e].edited
          \/ /\ companies'[e].name = companies[e].name
             /\ companies'[e].edited = companies[e].edited
             /\ companies'[e].selfSignup = companies[e].selfSignup
    BY <1>6, <2>1
  <2>5. SignupsShareACompany'
    BY <1>1, <2>1, <2>4 DEF SignupsShareACompany
  <2>6. ASSUME NEW o \in Requests \ {r}, NEW q, q = reqs[o] PROVE Kept(q)'
    <3>1. Kept(q) /\ (q.pc \in Deciding => q.company \in Exists)
      BY <1>1, <2>6 DEF IInv, LocksKeep, RequestKnows, Knows, Deciding,
                        AccountsKnown
    <3>2. q.pc = "approve" => q.company # c
      BY <1>2, <2>6 DEF CompanyLocked, At
    <3>3. q.pc = "approve" => FillsIn(q)'
      BY <1>2, <2>1, <3>1, <3>2 DEF Kept, FillsIn, Deciding
    <3>4. q.pc = "register" /\ q.company = Null =>
            \A e \in Exists' : companies'[e].selfSignup /\ ~companies'[e].edited
                                 => companies'[e].name # q.input.name
      BY <2>1, <2>4, <3>1 DEF Kept
    <3> QED
      BY <1>2, <3>1, <3>3, <3>4 DEF Kept
  <2> QED
    BY <1>3, <1>6, <2>1, <2>2, <2>3, <2>5, <2>6, EndKeeps
<1>7. ASSUME NEW contact \in {"staff", Null},
             companies' = [companies EXCEPT ![c].contact = contact]
      PROVE  /\ IInv'
             /\ \A e \in Exists : companies[e].contact = "staff"
                                    => companies'[e].contact # "signup"
  <2> DEFINE row == [companies[c] EXCEPT !.contact = contact]
  <2>0. contact # "signup"
    BY CompaniesAssumptions
  <2>1. row \in Company /\ row.contact # "signup"
          /\ row.name = companies[c].name /\ row.edited = companies[c].edited
          /\ row.selfSignup = companies[c].selfSignup
    BY <1>4, <2>0 DEF Company
  <2>2. companies' = [companies EXCEPT ![c] = row]
    BY <1>1, <1>4, <1>7 DEF TypeOK
  <2> QED
    BY <1>6, <2>1, <2>2
<1>8. CASE \E i \in Input :
             companies' = [companies EXCEPT ![c].name = i.name,
                             ![c].pib = i.pib, ![c].edited = TRUE]
  <2>1. PICK i \in Input :
          companies' = [companies EXCEPT ![c].name = i.name,
                          ![c].pib = i.pib, ![c].edited = TRUE]
    BY <1>8
  <2> DEFINE row == [companies[c] EXCEPT !.name = i.name, !.pib = i.pib,
                                         !.edited = TRUE]
  <2>2. i.name \in Names /\ i.pib \in Pibs \cup {Null}
    BY DEF Input
  <2>3. row \in Company /\ row.edited /\ row.contact = companies[c].contact
    BY <1>4, <2>2 DEF Company
  <2>4. companies' = [companies EXCEPT ![c] = row]
    BY <1>1, <1>4, <2>1 DEF TypeOK
  <2> QED
    BY <1>6, <2>3, <2>4
<1> QED
  BY <1>5, <1>7, <1>8 DEF EditWrite

\* Someone without an account, or a member, gets a company.
LEMMA LinkKeeps ==
  ASSUME IInv, NEW r \in Requests, OpenAccount(r) \/ Move(r)
  PROVE  IInv' /\ companies' = companies
<1> DEFINE u == reqs[r].user
           c == reqs[r].company
<1>1. TypeOK /\ AccountsKnown /\ DecidedOnce /\ MembersAreVetted
        /\ SignupsShareACompany /\ Knows(reqs[r])
  BY DEF IInv, RequestKnows
<1>2. reqs[r].pc \in {"open", "move"} /\ Done(r) /\ companies' = companies
        /\ joins' = joins /\ events' = events /\ Exists' = Exists
  BY DEF OpenAccount, Move, Exists
<1>3. Ends(r)
  BY <1>2, DoneEnds
<1>4. u \in Users /\ c \in Exists /\ c \in CompanyIds /\ c # Null
  BY <1>1, <1>2, CompaniesAssumptions DEF Knows, Exists
<1>5. CASE UNCHANGED <<account, memberOf>>
  <2>1. UNCHANGED tables
    BY <1>2, <1>5 DEF tables
  <2> QED
    BY <1>2, <2>1, OverIsQuiet, QuietKeeps
<1>6. CASE memberOf' = [memberOf EXCEPT ![u] = c] /\ account' = account \cup {u}
             /\ (joins[u] # Null => joins[u].status = "approved")
  <2>1. /\ memberOf' \in [Users -> CompanyIds \cup {Null}] /\ memberOf'[u] = c
        /\ \A v \in Users \ {u} : memberOf'[v] = memberOf[v]
    BY <1>1, <1>4, <1>6 DEF TypeOK
  <2>2. TypeOK' /\ Grows
    BY <1>1, <1>2, <1>3, <1>4, <1>6, <2>1 DEF TypeOK, Ends, Grows
  <2>3. AccountsKnown' /\ DecidedOnce' /\ MembersAreVetted'
          /\ SignupsShareACompany'
    BY <1>1, <1>2, <1>4, <1>6, <2>1
       DEF AccountsKnown, DecidedOnce, MembersAreVetted, SignupsShareACompany
  <2>4. ASSUME NEW o \in Requests \ {r}, NEW q, q = reqs[o] PROVE Kept(q)'
    BY <1>2, <2>4 DEF Kept, FillsIn, IInv, LocksKeep
  <2> QED
    BY <1>2, <1>3, <2>2, <2>3, <2>4, EndKeeps
<1>7. CASE OpenAccount(r)
  <2>1. u \notin account => joins[u] = Null
    BY <1>1, <1>4 DEF AccountsKnown
  <2> QED
    BY <1>5, <1>6, <1>7, <2>1 DEF OpenAccount
<1>8. CASE Move(r)
  <2>1. memberOf[u] # Null /\ account' = account
          /\ memberOf' = [memberOf EXCEPT ![u] = c]
    BY <1>1, <1>8 DEF Knows, Move
  <2>2. u \in account /\ (joins[u] # Null => joins[u].status = "approved")
    BY <1>1, <1>4, <2>1 DEF AccountsKnown, MembersAreVetted
  <2>3. account \cup {u} = account
    BY <2>2
  <2> QED
    BY <1>6, <2>1, <2>2, <2>3
<1> QED
  BY <1>7, <1>8

-----------------------------------------------------------------------------
(* The theorems.                                                           *)

\* The invariant is inductive, and no step clears what staff entered.
LEMMA Inductive ==
  ASSUME IInv, [Next]_vars
  PROVE  /\ IInv'
         /\ \A c \in Exists : companies[c].contact = "staff"
                                => companies'[c].contact # "signup"
<1>1. CASE UNCHANGED vars
  BY <1>1 DEF vars, IInv, TypeOK, AccountsKnown, RequestKnows, Knows, LocksKeep,
              Kept, FillsIn, LocksExclude, Apart, DecidedOnce, MembersAreVetted,
              SignupsShareACompany, Exists
<1>2. ASSUME NEW r \in Requests,
             \/ SignupBegin(r) \/ SignupMatch(r) \/ DecideBegin(r)
             \/ DecideLock(r) \/ FillRead(r) \/ EditRead(r) \/ OpenRead(r)
             \/ MoveRead(r) \/ Abort(r)
      PROVE  IInv' /\ companies' = companies
  BY <1>2, QuietSteps, QuietKeeps DEF Quiet, tables
<1>3. ASSUME NEW r \in Requests, SignupRegister(r)
      PROVE  \A c \in Exists : companies'[c] = companies[c]
  <2>1. companies \in [CompanyIds -> Company \cup {Null}]
    BY DEF IInv, TypeOK
  <2> QED
    BY <1>3, <2>1 DEF SignupRegister, Insert, Exists
<1>4. ASSUME NEW r \in Requests, Reject(r)
      PROVE  companies' = companies
  BY <1>4 DEF Reject
<1>5. CASE Next
  <2>1. PICK r \in Requests :
          \/ SignupBegin(r) \/ SignupMatch(r) \/ SignupRegister(r)
          \/ DecideBegin(r) \/ DecideLock(r) \/ Reject(r) \/ FillRead(r)
          \/ Approve(r)
          \/ CreateLead(r) \/ EditRead(r) \/ EditWrite(r)
          \/ OpenRead(r) \/ OpenAccount(r) \/ MoveRead(r) \/ Move(r)
          \/ Abort(r)
    BY <1>5 DEF Next
  <2>2. CASE SignupRegister(r)
    BY <1>3, <2>2, SignupRegisterKeeps
  <2>3. CASE Reject(r)
    BY <1>4, <2>3, RejectKeeps
  <2>4. CASE Approve(r)
    BY <2>4, ApproveKeeps
  <2>5. CASE CreateLead(r)
    BY <2>5, CreateLeadKeeps
  <2>6. CASE EditWrite(r)
    BY <2>6, EditWriteKeeps
  <2>7. CASE OpenAccount(r) \/ Move(r)
    BY <2>7, LinkKeeps
  <2> QED
    BY <1>2, <2>1, <2>2, <2>3, <2>4, <2>5, <2>6, <2>7
<1> QED
  BY <1>1, <1>5

\* The invariant holds in every state.
LEMMA Invariant == Spec => []IInv
<1>1. IInv /\ [Next]_vars => IInv'
  BY Inductive
<1> QED
  BY InitIInv, <1>1, PTL DEF Spec

\* Every variable keeps its type.
THEOREM TypeCorrect == Spec => []TypeOK
<1>1. IInv => TypeOK
  BY DEF IInv
<1> QED
  BY Invariant, <1>1, PTL

\* However many staff decide at once, a join request has one outcome and one
\* event that tells it.
THEOREM DecidedOnceHolds == Spec => []DecidedOnce
<1>1. IInv => DecidedOnce
  BY DEF IInv
<1> QED
  BY Invariant, <1>1, PTL

\* A person whose join request is pending or was rejected is in no company.
THEOREM MembersAreVettedHolds == Spec => []MembersAreVetted
<1>1. IInv => MembersAreVetted
  BY DEF IInv
<1> QED
  BY Invariant, <1>1, PTL

\* Concurrent sign-ups of one company end in one company.
THEOREM SignupsShareACompanyHolds == Spec => []SignupsShareACompany
<1>1. IInv => SignupsShareACompany
  BY DEF IInv
<1> QED
  BY Invariant, <1>1, PTL

\* Approving a join request never overwrites what staff entered.
THEOREM FillsOnlyEmptyHolds == Spec => FillsOnlyEmpty
<1> DEFINE A == \A c \in Exists : companies[c].contact = "staff"
                                 => companies'[c].contact # "signup"
<1>1. IInv /\ [Next]_vars => [A]_vars
  BY Inductive
<1>2. FillsOnlyEmpty <=> [][A]_vars
  BY DEF FillsOnlyEmpty
<1> QED
  BY Invariant, <1>1, <1>2, PTL DEF Spec
-----------------------------------------------------------------------------
(* Companies implements CompanyRegister: a step that commits is the step   *)
(* of the register, any other leaves the register alone.                   *)

\* Both speak of the same rows.
LEMMA SameViews ==
  /\ Register!Exists = Exists /\ Register!Input = Input
  /\ Register!register = tables
  /\ \A p, c : Register!Unused(p, c) <=> ~PibTaken(p, c)
BY DEF Register!Exists, Exists, Register!Input, Input, Register!register,
       tables, Register!Unused, PibTaken

\* A new row, of a sign-up or a lead.
LEMMA InsertEnters ==
  ASSUME NEW i, NEW contact, NEW self, Insert(i, contact, self),
         ~PibTaken(i.pib, Null), Null \notin CompanyIds
  PROVE  \E c \in CompanyIds \ Exists :
           /\ Register!Enter(c, i, contact, self)
           /\ companies' = [companies EXCEPT ![c] =
                [name |-> i.name, pib |-> i.pib, contact |-> contact,
                 selfSignup |-> self, edited |-> FALSE]]
<1>1. PICK c \in CompanyIds \ Exists :
        companies' = [companies EXCEPT ![c] =
          [name |-> i.name, pib |-> i.pib, contact |-> contact,
           selfSignup |-> self, edited |-> FALSE]]
  BY DEF Insert
<1>2. ~PibTaken(i.pib, c)
  BY DEF PibTaken, Exists
<1>3. Register!Enter(c, i, contact, self)
  BY <1>1, <1>2, SameViews DEF Register!Enter
<1> QED
  BY <1>1, <1>3

\* A sign-up founds a company, asks to join one, or fails.
LEMMA SignupRegisters ==
  ASSUME IInv, NEW r \in Requests, SignupRegister(r)
  PROVE  Register!Next \/ UNCHANGED tables
<1> DEFINE u == reqs[r].user
           i == reqs[r].input
           c == reqs[r].company
<1>1. TypeOK /\ Knows(reqs[r]) /\ Kept(reqs[r]) /\ Null \notin CompanyIds
  BY CompaniesAssumptions DEF IInv, RequestKnows, LocksKeep
<1>2. reqs[r].pc = "register" /\ events' = events
  BY DEF SignupRegister
<1>3. u \in Users /\ i \in Input /\ c \in Exists \cup {Null}
  BY <1>1, <1>2 DEF Knows
<1>4. CASE u \in account \/ (c = Null /\ PibTaken(i.pib, Null))
  BY <1>4, <1>2 DEF SignupRegister, tables
<1>5. CASE u \notin account /\ c = Null /\ ~PibTaken(i.pib, Null)
  <2>1. Insert(i, "signup", TRUE)
    BY <1>5 DEF SignupRegister
  <2>2. PICK d \in CompanyIds \ Exists :
          /\ Register!Enter(d, i, "signup", TRUE)
          /\ companies' = [companies EXCEPT ![d] =
               [name |-> i.name, pib |-> i.pib, contact |-> "signup",
                selfSignup |-> TRUE, edited |-> FALSE]]
    BY <1>1, <1>5, <2>1, InsertEnters
  <2>3. /\ account' = account \cup {u} /\ joins' = joins
        /\ \E e \in CompanyIds \ Exists :
             companies'[e] # Null /\ memberOf' = [memberOf EXCEPT ![u] = e]
    BY <1>5 DEF SignupRegister
  <2>4. \A e \in CompanyIds \ Exists : companies'[e] # Null => e = d
    BY <1>1, <2>2 DEF TypeOK, Exists
  <2>5. Register!Link(u, d)
    BY <2>3, <2>4 DEF Register!Link
  <2>6. \A e \in Exists : companies[e].selfSignup /\ ~companies[e].edited
                            => companies[e].name # i.name
    BY <1>1, <1>2, <1>5 DEF Kept
  <2>7. Register!Found(u, d, i)
    BY <1>2, <1>5, <2>2, <2>3, <2>5, <2>6, SameViews
       DEF Register!Found, Register!Welcome
  <2> QED
    BY <1>3, <2>7, SameViews DEF Register!Next
<1>6. CASE u \notin account /\ c # Null
  <2>1. Register!Ask(u, c, i)
    BY <1>2, <1>6 DEF SignupRegister, Register!Ask, Register!Welcome
  <2> QED
    BY <1>3, <1>6, <2>1, SameViews DEF Register!Next
<1> QED
  BY <1>3, <1>4, <1>5, <1>6

\* The one who decides holds the join request, which is still pending.
LEMMA SettleSettles ==
  ASSUME IInv, NEW r \in Requests, NEW d, Settle(r, d), reqs[r].pc \in Deciding
  PROVE  Register!Settle(reqs[r].user, d)
<1>1. TypeOK /\ Knows(reqs[r]) /\ Kept(reqs[r])
  BY DEF IInv, RequestKnows, LocksKeep
<1>2. reqs[r].user \in Users /\ joins[reqs[r].user] # Null
        /\ joins[reqs[r].user].status = "pending"
  BY <1>1 DEF Knows, Kept, Deciding
<1>3. events' = [events EXCEPT ![reqs[r].user]
                   = Append(events[reqs[r].user], d)]
  BY <1>1, <1>2 DEF Settle, TypeOK
<1> QED
  BY <1>2, <1>3 DEF Settle, Register!Settle

\* A rejection.
LEMMA RejectRegisters ==
  ASSUME IInv, NEW r \in Requests, Reject(r)
  PROVE  Register!Next
<1>1. reqs[r].pc = "fill" /\ Settle(r, "rejected")
        /\ UNCHANGED <<companies, account, memberOf>>
  BY DEF Reject
<1>2. Register!Settle(reqs[r].user, "rejected")
  BY <1>1, SettleSettles DEF Deciding
<1>3. reqs[r].user \in Users
  BY <1>1 DEF IInv, RequestKnows, Knows
<1> QED
  BY <1>1, <1>2, <1>3 DEF Register!Reject, Register!Next

\* An approval fills in the row as it is now, though it was read before.
LEMMA ApproveRegisters ==
  ASSUME IInv, NEW r \in Requests, Approve(r)
  PROVE  Register!Next \/ UNCHANGED tables
<1> DEFINE u == reqs[r].user
           c == reqs[r].company
           new == reqs[r].seen
           row == companies[c]
<1>1. reqs[r].pc = "approve" /\ account' = account
  BY DEF Approve
<1>2. TypeOK /\ Knows(reqs[r]) /\ FillsIn(reqs[r])
  BY <1>1 DEF IInv, RequestKnows, LocksKeep, Kept
<1>3. u \in Users /\ c = joins[u].company
  BY <1>1, <1>2 DEF Knows
<1>4. CASE new.pib # row.pib /\ PibTaken(new.pib, c)
  BY <1>1, <1>4 DEF Approve, tables
<1>5. CASE ~(new.pib # row.pib /\ PibTaken(new.pib, c))
  <2>1. /\ companies' = [companies EXCEPT ![c].pib = new.pib,
                                          ![c].contact = new.contact]
        /\ memberOf' = [memberOf EXCEPT ![u] = c]
        /\ Settle(r, "approved")
    BY <1>5 DEF Approve
  <2>2. Register!Settle(u, "approved")
    BY <1>1, <2>1, SettleSettles DEF Deciding
  <2>3. Register!Link(u, joins[u].company)
    BY <1>3, <2>1 DEF Register!Link
  <2>4. Register!Fill(c, new.pib)
    <3>1. companies' = [companies EXCEPT
            ![c].pib = new.pib,
            ![c].contact = IF row.contact = Null THEN "signup" ELSE row.contact]
      BY <1>2, <2>1 DEF FillsIn
    <3>2. new.pib = row.pib \/ (row.pib = Null /\ Register!Unused(new.pib, c))
      BY <1>2, <1>5, SameViews DEF FillsIn
    <3> QED
      BY <3>1, <3>2 DEF Register!Fill
  <2>5. new.pib = row.pib \/ new.pib = joins[u].input.pib
    BY <1>2 DEF FillsIn
  <2>6. \/ Register!Fill(joins[u].company, joins[u].input.pib)
        \/ Register!Fill(joins[u].company, companies[joins[u].company].pib)
    BY <1>3, <2>4, <2>5
  <2>7. Register!Approve(u)
    BY <1>1, <2>2, <2>3, <2>6 DEF Register!Approve
  <2> QED
    BY <1>3, <2>7 DEF Register!Next
<1> QED
  BY <1>4, <1>5

\* A lead of staff.
LEMMA CreateLeadRegisters ==
  ASSUME NEW r \in Requests, CreateLead(r)
  PROVE  Register!Next
<1>1. PICK i \in Input, contact \in {"staff", Null} :
        ~PibTaken(i.pib, Null) /\ Insert(i, contact, FALSE)
  BY DEF CreateLead
<1>2. PICK c \in CompanyIds \ Exists : Register!Enter(c, i, contact, FALSE)
  BY <1>1, InsertEnters, CompaniesAssumptions
<1>3. Register!Lead(c, i, contact)
  BY <1>2 DEF CreateLead, Register!Lead
<1> QED
  BY <1>3, SameViews DEF Register!Next

\* An edit of staff.
LEMMA EditRegisters ==
  ASSUME IInv, NEW r \in Requests, EditWrite(r)
  PROVE  Register!Next \/ UNCHANGED tables
<1> DEFINE c == reqs[r].company
<1>1. reqs[r].pc = "edit" /\ UNCHANGED <<account, memberOf, joins, events>>
  BY DEF EditWrite
<1>2. c \in Exists
  BY <1>1 DEF IInv, RequestKnows, Knows
<1>3. CASE \E contact \in {"staff", Null} :
             companies' = [companies EXCEPT ![c].contact = contact]
  <2>1. \A i : Register!Edit(c, i)
    BY <1>1, <1>3 DEF Register!Edit
  <2>2. Input # {}
    <3>1. companies[c] \in Company
      BY <1>2 DEF IInv, TypeOK, Exists
    <3>2. [name |-> companies[c].name, pib |-> Null] \in Input
      BY <3>1 DEF Company, Input
    <3> QED
      BY <3>2
  <2> QED
    BY <1>2, <2>1, <2>2, SameViews DEF Register!Next
<1>4. ASSUME NEW i \in Input, ~PibTaken(i.pib, c),
             companies' = [companies EXCEPT ![c].name = i.name,
                             ![c].pib = i.pib, ![c].edited = TRUE]
      PROVE  Register!Next
  <2>1. Register!Edit(c, i)
    BY <1>1, <1>4, SameViews DEF Register!Edit
  <2> QED
    BY <1>2, <2>1, SameViews DEF Register!Next
<1>5. CASE UNCHANGED companies
  BY <1>1, <1>5 DEF tables
<1> QED
  BY <1>3, <1>4, <1>5 DEF EditWrite

\* An account staff open, and a move.
LEMMA LinkRegisters ==
  ASSUME IInv, NEW r \in Requests, OpenAccount(r) \/ Move(r)
  PROVE  Register!Next \/ UNCHANGED tables
<1> DEFINE u == reqs[r].user
           c == reqs[r].company
<1>1. Knows(reqs[r]) /\ reqs[r].pc \in {"open", "move"}
  BY DEF IInv, RequestKnows, OpenAccount, Move
<1>2. c \in Register!Exists /\ u \in Users
  BY <1>1, SameViews DEF Knows
<1>3. CASE OpenAccount(r) /\ u \in account
  BY <1>3 DEF OpenAccount, tables
<1>4. CASE OpenAccount(r) /\ u \notin account
  <2>1. Register!Open(u, c)
    BY <1>4 DEF OpenAccount, Register!Open, Register!Welcome, Register!Link
  <2> QED
    BY <1>2, <2>1 DEF Register!Next
<1>5. CASE Move(r)
  <2>1. memberOf[u] # Null
    BY <1>1, <1>5 DEF Move, Knows
  <2>2. Register!Move(u, c)
    BY <1>5, <2>1 DEF Move, Register!Move, Register!Link
  <2> QED
    BY <1>2, <2>2 DEF Register!Next
<1> QED
  BY <1>3, <1>4, <1>5

\* Every step is a step of the register, or leaves it alone.
LEMMA RegisterStep == IInv /\ [Next]_vars => [Register!Next]_tables
<1> SUFFICES ASSUME IInv, [Next]_vars PROVE Register!Next \/ UNCHANGED tables
    OBVIOUS
<1>1. CASE UNCHANGED vars
  BY <1>1 DEF vars, tables
<1>2. ASSUME NEW r \in Requests,
             \/ SignupBegin(r) \/ SignupMatch(r) \/ DecideBegin(r)
             \/ DecideLock(r) \/ FillRead(r) \/ EditRead(r) \/ OpenRead(r)
             \/ MoveRead(r) \/ Abort(r)
      PROVE  UNCHANGED tables
  BY <1>2, QuietSteps DEF Quiet
<1>3. CASE Next
  BY <1>2, <1>3, SignupRegisters, RejectRegisters, ApproveRegisters,
     CreateLeadRegisters, EditRegisters, LinkRegisters DEF Next
<1> QED
  BY <1>1, <1>3

\* For any number of people, companies and requests: however they overlap,
\* die and wait for each other, what is committed is what a register that
\* serves one request at a time would hold.
THEOREM ImplementsRegister == Spec => RegisterSpec
<1>1. Init => Register!Init
  BY DEF Init, Register!Init
<1>2. IInv /\ [Next]_vars => [Register!Next]_tables
  BY RegisterStep
<1>3. Register!register = tables
  BY SameViews
<1> QED
  BY <1>1, <1>2, Invariant, PTL
     DEF Spec, RegisterSpec, Register!Spec, Register!register, tables
=============================================================================
