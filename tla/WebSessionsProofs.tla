-------------------------- MODULE WebSessionsProofs --------------------------
(***************************************************************************)
(* Proofs about Accounts and WebSessions, for any number of users, links,  *)
(* requests and versions.                                                  *)
(*                                                                         *)
(* The inductive invariant has two halves.  Links: whoever consumes a link *)
(* holds its row, alone, and the link is unused.  Sessions: every refresh  *)
(* token, and every row a login has read, either is older than the row of  *)
(* its user or agrees with it; and every cookie is of its kind.  The last  *)
(* section shows that the two modules implement AccountAccess.             *)
(***************************************************************************)
EXTENDS WebSessions, Integers, TLAPS

-----------------------------------------------------------------------------
(* Links.                                                                  *)

RowsTypeOK ==
  /\ users \in [Users -> User]
  /\ tokens \in [TokenIds -> Token \cup {Null}]
  /\ signed \subseteq Session
  /\ reqs \in [Requests -> Request]

Of(rows, u, p) ==
  {t \in TokenIds : /\ rows[t] # Null /\ rows[t].user = u
                    /\ rows[t].purpose = p}

\* What a request q needs of its first step is there: the links there were
\* when it began, and among them, used or seen, every one there was.
Knows(q, rows, sessions) ==
  /\ q.pc \in {"issue", "insert"} =>
       /\ q.user \in Users /\ q.purpose \in Purpose
       /\ q.known \subseteq Of(rows, q.user, q.purpose)
  /\ q.pc = "insert" =>
       /\ q.seen \subseteq Of(rows, q.user, q.purpose)
       /\ \A t \in q.known : rows[t].used \/ t \in q.seen
  /\ q.pc = "verify" => /\ q.user \in Users /\ q.row \in User
                        /\ q.row.password # 0
  /\ q.pc = "refresh" => q.session \in sessions

RequestKnows == \A r \in Requests : Knows(reqs[r], tokens, signed)

\* A link being consumed is unused, and one request consumes it.
ConsumerHolds ==
  \A r \in Requests :
    reqs[r].pc = "apply" =>
      /\ reqs[r].token \in Issued
      /\ ~tokens[reqs[r].token].used
      /\ \A q \in Requests :
           reqs[q].pc = "apply" /\ reqs[q].token = reqs[r].token => q = r

\* A link that has worked is used; older links are known and used.
LinksAreSpent ==
  \A t \in Issued :
    /\ tokens[t].uses <= 1
    /\ tokens[t].uses # 0 => tokens[t].used
    /\ tokens[t].known \subseteq Issued
    /\ \A o \in tokens[t].known : tokens[o].used

PasswordsBounded ==
  \A u \in Users : users[u].password <= users[u].tokenVersion + 1

LinkInv == RowsTypeOK /\ RequestKnows /\ ConsumerHolds /\ LinksAreSpent
             /\ PasswordsBounded

\* Links are neither taken back nor given to others, and stay used.
LinksKept(rows, new) ==
  \A t \in TokenIds : rows[t] # Null =>
    /\ new[t] # Null
    /\ new[t].user = rows[t].user /\ new[t].purpose = rows[t].purpose
    /\ rows[t].used => new[t].used

\* Then what a request knows stays so.
LEMMA KnowsStays ==
  ASSUME NEW q, NEW rows, NEW new, NEW sessions, NEW more,
         Knows(q, rows, sessions), LinksKept(rows, new),
         sessions \subseteq more
  PROVE  Knows(q, new, more)
<1>1. \A u, p : Of(rows, u, p) \subseteq Of(new, u, p)
  BY DEF LinksKept, Of
<1>2. \A t \in Of(rows, q.user, q.purpose) : rows[t].used => new[t].used
  BY DEF LinksKept, Of
<1> HIDE DEF Of
<1> QED
  BY <1>1, <1>2 DEF Knows

\* ... of every request but one that is done.
LEMMA RequestsStillKnow ==
  ASSUME LinkInv, NEW r \in Requests, NEW q, q.pc = "idle",
         reqs' = [reqs EXCEPT ![r] = q] \/ reqs' = reqs,
         LinksKept(tokens, tokens'), signed \subseteq signed'
  PROVE  RequestKnows'
<1> SUFFICES ASSUME NEW o \in Requests
             PROVE  Knows(reqs'[o], tokens', signed')
    BY DEF RequestKnows
<1>1. reqs'[o] = reqs[o] \/ reqs'[o] = q
  BY DEF LinkInv, RowsTypeOK
<1>2. CASE reqs'[o] = q
  BY <1>2 DEF Knows
<1>3. CASE reqs'[o] = reqs[o]
  BY <1>3, KnowsStays DEF LinkInv, RequestKnows
<1> QED
  BY <1>1, <1>2, <1>3

\* The initial states satisfy the invariant of the links.
LEMMA InitLinkInv == Init => LinkInv
<1> SUFFICES ASSUME Init PROVE LinkInv
    OBVIOUS
<1>1. Idle \in Request /\ Idle.pc = "idle"
  BY DEF Idle, Request, Pc
<1> DEFINE NewUser == [role : FirstRoles, password : {0, 1},
                       tokenVersion : {0}, verified : {FALSE}]
<1>2. users \in [Users -> User] /\ PasswordsBounded
  <2>1. users \in [Users -> NewUser]
    BY DEF Init, AccountsInit
  <2>2. ASSUME NEW x \in NewUser
        PROVE  x \in User /\ x.password <= x.tokenVersion + 1
    <3>1. /\ x.password \in 0..(MaxVersion + 1) /\ x.tokenVersion \in Versions
          /\ x.password <= x.tokenVersion + 1
      BY AccountsAssumptions DEF Versions
    <3>2. x.role \in Role /\ x.verified \in BOOLEAN
      BY AccountsAssumptions
    <3>3. x = [role |-> x.role, password |-> x.password,
               tokenVersion |-> x.tokenVersion, verified |-> x.verified]
      OBVIOUS
    <3> QED
      BY <3>1, <3>2, <3>3 DEF User
  <2> QED
    BY <2>1, <2>2 DEF PasswordsBounded
<1>3. /\ reqs = [r \in Requests |-> Idle]
      /\ tokens = [t \in TokenIds |-> Null] /\ signed = {}
  BY DEF Init, AccountsInit
<1>4. RowsTypeOK
  BY <1>1, <1>2, <1>3 DEF RowsTypeOK
<1>5. RequestKnows /\ ConsumerHolds
  BY <1>1, <1>3 DEF RequestKnows, Knows, ConsumerHolds
<1>6. LinksAreSpent
  BY <1>3 DEF LinksAreSpent, Issued
<1> QED
  BY <1>2, <1>4, <1>5, <1>6 DEF LinkInv

\* The state of one request changes, the tables do not, and what the request
\* will need is there.
Quiet(r, q) ==
  /\ reqs' = [reqs EXCEPT ![r] = q]
  /\ UNCHANGED <<users, tokens, signed>>
  /\ q \in Request
  /\ Knows(q, tokens, signed)
  /\ q.pc = "apply" => /\ q.token \in Issued \ Consuming
                       /\ ~tokens[q.token].used

\* Such a change keeps the invariant.
LEMMA QuietKeeps ==
  ASSUME LinkInv, NEW r \in Requests, NEW q, Quiet(r, q)
  PROVE  LinkInv'
<1>1. /\ reqs' = [reqs EXCEPT ![r] = q]
      /\ users' = users /\ tokens' = tokens /\ signed' = signed
      /\ q \in Request /\ Issued' = Issued
  BY DEF Quiet, Issued
<1>2. RowsTypeOK'
  BY <1>1 DEF LinkInv, RowsTypeOK
<1>3. RequestKnows'
  BY <1>1 DEF LinkInv, RowsTypeOK, RequestKnows, Quiet
<1>4. ConsumerHolds'
  BY <1>1 DEF LinkInv, RowsTypeOK, ConsumerHolds, Quiet, Consuming, At
<1>5. LinksAreSpent' /\ PasswordsBounded'
  BY <1>1 DEF LinkInv, LinksAreSpent, PasswordsBounded
<1> QED
  BY <1>2, <1>3, <1>4, <1>5 DEF LinkInv

\* What an issue finds, and what it takes for granted.
LEMMA LinksOfRows ==
  ASSUME NEW u, NEW p
  PROVE  LinksOf(u, p) = Of(tokens, u, p) /\ Of(tokens, u, p) \subseteq TokenIds
BY DEF LinksOf, Of, Issued

\* Every first step of a request is quiet.
LEMMA BeginsAreQuiet ==
  ASSUME LinkInv, NEW r \in Requests
  PROVE  /\ AskReset(r) \/ AskVerification(r) \/ AskInvite(r)
              => \E q : Quiet(r, q)
         /\ IssueVoid(r) => \E q : Quiet(r, q)
         /\ ConsumeLock(r) => \E q : Quiet(r, q)
         /\ Abort(r) => \E q : Quiet(r, q)
         /\ \A roles : LoginRead(r, roles) => \E q : Quiet(r, q)
         /\ \A s \in signed : Refresh(r, s) => \E q : Quiet(r, q)
<1>1. ASSUME NEW u \in Users, NEW p \in Purpose, Ask(r, u, p)
      PROVE  \E q : Quiet(r, q)
  <2> DEFINE q == [Idle EXCEPT !.pc = "issue", !.user = u, !.purpose = p,
                               !.known = LinksOf(u, p)]
  <2>1. /\ q \in Request /\ q.pc = "issue" /\ q.user = u /\ q.purpose = p
        /\ q.known = LinksOf(u, p)
    BY LinksOfRows DEF Idle, Request, Pc
  <2>2. reqs' = [reqs EXCEPT ![r] = q] /\ UNCHANGED <<users, tokens, signed>>
    BY <1>1 DEF Ask, Begin
  <2> QED
    BY <2>1, <2>2, LinksOfRows DEF Quiet, Knows
<1>2. AskReset(r) \/ AskVerification(r) \/ AskInvite(r) => \E q : Quiet(r, q)
  BY <1>1 DEF AskReset, AskVerification, AskInvite, Purpose
<1>3. ASSUME IssueVoid(r) PROVE \E q : Quiet(r, q)
  <2> DEFINE seen == Unused(reqs[r].user, reqs[r].purpose)
             q == [reqs[r] EXCEPT !.pc = "insert", !.seen = seen]
  <2>1. seen \subseteq Of(tokens, reqs[r].user, reqs[r].purpose)
          /\ seen \subseteq TokenIds
    BY LinksOfRows DEF Unused
  <2>2. reqs[r] \in Request
    BY DEF LinkInv, RowsTypeOK
  <2>3. q \in Request /\ q.pc = "insert" /\ q.user = reqs[r].user
          /\ q.purpose = reqs[r].purpose /\ q.seen = seen
          /\ q.known = reqs[r].known
    BY <2>1, <2>2 DEF Request, Pc
  <2>4. /\ reqs[r].user \in Users /\ reqs[r].purpose \in Purpose
        /\ reqs[r].known \subseteq Of(tokens, reqs[r].user, reqs[r].purpose)
    BY <1>3 DEF IssueVoid, LinkInv, RequestKnows, Knows
  <2>5. reqs' = [reqs EXCEPT ![r] = q] /\ UNCHANGED <<users, tokens, signed>>
    BY <1>3 DEF IssueVoid, LinkInv, RowsTypeOK
  <2>6. \A t \in reqs[r].known : tokens[t].used \/ t \in seen
    BY <2>4, LinksOfRows DEF Unused
  <2> HIDE DEF q, seen
  <2>7. Knows(q, tokens, signed)
    BY <2>1, <2>3, <2>4, <2>6 DEF Knows
  <2> QED
    BY <2>3, <2>5, <2>7 DEF Quiet
<1>4. ASSUME ConsumeLock(r) PROVE \E q : Quiet(r, q)
  <2>1. PICK t \in Issued \ Consuming :
          Works(t) /\ Begin(r, [Idle EXCEPT !.pc = "apply", !.token = t])
    BY <1>4 DEF ConsumeLock
  <2> DEFINE q == [Idle EXCEPT !.pc = "apply", !.token = t]
  <2>2. q \in Request /\ q.pc = "apply" /\ q.token = t
    BY <2>1 DEF Idle, Request, Pc, Issued
  <2>3. reqs' = [reqs EXCEPT ![r] = q] /\ UNCHANGED <<users, tokens, signed>>
    BY <1>4, <2>1 DEF ConsumeLock, Begin
  <2> QED
    BY <2>1, <2>2, <2>3 DEF Quiet, Works, Knows
<1>5. ASSUME Abort(r) PROVE \E q : Quiet(r, q)
  <2>1. Idle \in Request /\ Idle.pc = "idle"
    BY DEF Idle, Request, Pc
  <2> QED
    BY <1>5, <2>1 DEF Abort, Done, Quiet, Knows
<1>6. ASSUME NEW roles, LoginRead(r, roles) PROVE \E q : Quiet(r, q)
  <2>1. PICK u \in Users :
          /\ users[u].password # 0
          /\ Begin(r, [Idle EXCEPT !.pc = "verify", !.user = u, !.row = users[u]])
    BY <1>6 DEF LoginRead
  <2> DEFINE q == [Idle EXCEPT !.pc = "verify", !.user = u, !.row = users[u]]
  <2>2. users[u] \in User
    BY DEF LinkInv, RowsTypeOK
  <2>3. q \in Request /\ q.pc = "verify" /\ q.user = u /\ q.row = users[u]
    BY <2>2 DEF Idle, Request, Pc
  <2>4. reqs' = [reqs EXCEPT ![r] = q] /\ UNCHANGED <<users, tokens, signed>>
    BY <1>6, <2>1 DEF LoginRead, Begin
  <2> QED
    BY <2>1, <2>2, <2>3, <2>4 DEF Quiet, Knows
<1>7. ASSUME NEW s \in signed, Refresh(r, s) PROVE \E q : Quiet(r, q)
  <2> DEFINE q == [Idle EXCEPT !.pc = "refresh", !.session = s]
  <2>1. s \in Session
    BY DEF LinkInv, RowsTypeOK
  <2>2. q \in Request /\ q.pc = "refresh" /\ q.session = s
    BY <2>1 DEF Idle, Request, Pc
  <2>3. reqs' = [reqs EXCEPT ![r] = q] /\ UNCHANGED <<users, tokens, signed>>
    BY <1>7 DEF Refresh, Begin
  <2> QED
    BY <2>2, <2>3 DEF Quiet, Knows
<1> QED
  BY <1>2, <1>3, <1>4, <1>5, <1>6, <1>7

\* The new link is not one of those it voids.
LEMMA IssueInsertKeeps ==
  ASSUME LinkInv, NEW r \in Requests, IssueInsert(r)
  PROVE  LinkInv'
<1> DEFINE seen == reqs[r].seen
           known == reqs[r].known
           new == [user |-> reqs[r].user, purpose |-> reqs[r].purpose,
                   used |-> FALSE, expired |-> FALSE, uses |-> 0,
                   known |-> known]
<1>1. PICK t \in TokenIds \ Issued :
        tokens' = [s \in TokenIds |->
                     IF s = t THEN new
                     ELSE IF s \in seen THEN [tokens[s] EXCEPT !.used = TRUE]
                     ELSE tokens[s]]
  BY DEF IssueInsert
<1>2. /\ reqs' = [reqs EXCEPT ![r] = Idle]
      /\ users' = users /\ signed' = signed
      /\ reqs[r].pc = "insert" /\ seen \cap Consuming = {}
  BY DEF IssueInsert, Done
<1>3. Idle \in Request /\ Idle.pc = "idle"
  BY DEF Idle, Request, Pc
<1>4. /\ seen \subseteq Issued /\ Issued \subseteq TokenIds
      /\ known \subseteq Issued
      /\ \A o \in known : tokens[o].used \/ o \in seen
      /\ reqs[r].user \in Users /\ reqs[r].purpose \in Purpose
  BY <1>2 DEF LinkInv, RequestKnows, Knows, Of, Issued
<1>5. new \in Token
  BY <1>4 DEF Token
<1>6. ASSUME NEW s \in Issued
      PROVE  /\ tokens'[s] \in Token /\ tokens'[s].used \in BOOLEAN
             /\ tokens[s].used => tokens'[s].used
             /\ s \in seen => tokens'[s].used
             /\ s \notin seen => tokens'[s] = tokens[s]
             /\ tokens'[s].uses = tokens[s].uses
             /\ tokens'[s].known = tokens[s].known
             /\ tokens'[s].user = tokens[s].user
             /\ tokens'[s].purpose = tokens[s].purpose
  <2>1. tokens[s] \in Token /\ s # t /\ s \in TokenIds
    BY <1>1 DEF LinkInv, RowsTypeOK, Issued
  <2> QED
    BY <1>1, <2>1 DEF Token
<1>7. tokens'[t] = new
  BY <1>1
<1>8. Issued' = Issued \cup {t}
  <2>1. ASSUME NEW s \in TokenIds, s \notin Issued, s # t
        PROVE  tokens'[s] = Null
    BY <1>1, <1>4, <2>1 DEF Issued
  <2> QED
    BY <1>1, <1>5, <1>6, <1>7, <2>1, NullIsNoToken DEF Issued
<1>9. RowsTypeOK'
  <2>1. tokens' \in [TokenIds -> Token \cup {Null}]
    BY <1>1, <1>4, <1>5, <1>6, <1>7, <1>8 DEF Issued
  <2> QED
    BY <1>2, <1>3, <2>1 DEF LinkInv, RowsTypeOK
<1>10. RequestKnows'
  <2>1. LinksKept(tokens, tokens')
    BY <1>6, <1>8 DEF LinksKept, Issued
  <2> QED
    BY <1>2, <1>3, <2>1, RequestsStillKnow
<1>11. ConsumerHolds'
  <2> SUFFICES ASSUME NEW q \in Requests, reqs'[q].pc = "apply"
               PROVE  /\ reqs'[q].token \in Issued'
                      /\ ~tokens'[reqs'[q].token].used
                      /\ \A p \in Requests :
                           reqs'[p].pc = "apply"
                             /\ reqs'[p].token = reqs'[q].token => p = q
    BY DEF ConsumerHolds
  <2>1. reqs'[q] = reqs[q] /\ q # r
    BY <1>2, <1>3 DEF LinkInv, RowsTypeOK
  <2>2. reqs[q].token \in Issued \ seen
    BY <1>2, <2>1 DEF LinkInv, ConsumerHolds, Consuming, At
  <2>3. \A p \in Requests : reqs'[p].pc = "apply" => reqs'[p] = reqs[p]
    BY <1>2, <1>3 DEF LinkInv, RowsTypeOK
  <2> QED
    BY <1>6, <1>8, <2>1, <2>2, <2>3 DEF LinkInv, ConsumerHolds
<1>12. LinksAreSpent'
  <2>1. new.uses = 0 /\ new.known = known
    OBVIOUS
  <2> QED
    BY <1>4, <1>6, <1>7, <1>8, <2>1 DEF LinkInv, LinksAreSpent
<1> QED
  BY <1>2, <1>9, <1>10, <1>11, <1>12 DEF LinkInv, PasswordsBounded

\* A link that is consumed has not worked before.
LEMMA ApplyKeeps ==
  ASSUME LinkInv, NEW r \in Requests, NEW row \in User, Apply(r, row),
         row.password <= row.tokenVersion + 1
  PROVE  LinkInv'
<1> DEFINE t == reqs[r].token
           u == tokens[t].user
<1>1. /\ reqs[r].pc = "apply"
      /\ tokens' = [tokens EXCEPT ![t].used = TRUE, ![t].uses = @ + 1]
      /\ users' = [users EXCEPT ![u] = row]
      /\ reqs' = [reqs EXCEPT ![r] = Idle]
      /\ signed' = signed
  BY DEF Apply, Done
<1>2. Idle \in Request /\ Idle.pc = "idle"
  BY DEF Idle, Request, Pc
<1>3. t \in Issued /\ ~tokens[t].used /\ t \in TokenIds /\ tokens[t] \in Token
  BY <1>1 DEF LinkInv, ConsumerHolds, RowsTypeOK, Issued
<1>4. tokens[t].uses = 0
  BY <1>3 DEF LinkInv, LinksAreSpent
<1>5. /\ tokens'[t] \in Token /\ tokens'[t].used /\ tokens'[t].uses = 1
      /\ tokens'[t].known = tokens[t].known
      /\ tokens'[t].user = tokens[t].user
      /\ tokens'[t].purpose = tokens[t].purpose
  BY <1>1, <1>3, <1>4 DEF LinkInv, RowsTypeOK, Token
<1>6. \A s \in TokenIds : s # t => tokens'[s] = tokens[s]
  BY <1>1 DEF LinkInv, RowsTypeOK
<1>7. Issued' = Issued
  BY <1>3, <1>5, <1>6, NullIsNoToken DEF Issued
<1>8. RowsTypeOK'
  <2>1. tokens' \in [TokenIds -> Token \cup {Null}]
    BY <1>1, <1>3, <1>5, <1>6 DEF LinkInv, RowsTypeOK
  <2>2. users' \in [Users -> User]
    BY <1>1 DEF LinkInv, RowsTypeOK
  <2> QED
    BY <1>1, <1>2, <2>1, <2>2 DEF LinkInv, RowsTypeOK
<1>9. RequestKnows'
  <2>1. LinksKept(tokens, tokens')
    BY <1>5, <1>6, NullIsNoToken DEF LinksKept
  <2> QED
    BY <1>1, <1>2, <2>1, RequestsStillKnow
<1>10. ConsumerHolds'
  <2>1. \A q \in Requests : reqs'[q].pc = "apply"
          => reqs'[q] = reqs[q] /\ reqs[q].token # t
    BY <1>1, <1>2 DEF LinkInv, RowsTypeOK, ConsumerHolds
  <2>2. \A q \in Requests :
          reqs[q].pc = "apply" => reqs[q].token \in TokenIds
    BY DEF LinkInv, ConsumerHolds, Issued
  <2> QED
    BY <1>6, <1>7, <2>1, <2>2 DEF LinkInv, ConsumerHolds
<1>11. LinksAreSpent'
  <2>1. Issued \subseteq TokenIds
    BY DEF Issued
  <2>2. \A s \in Issued : s # t => tokens'[s] = tokens[s]
    BY <1>6, <2>1
  <2>3. \A s \in Issued : tokens[s].used => tokens'[s].used
    BY <1>5, <2>2
  <2> QED
    BY <1>3, <1>5, <1>7, <2>2, <2>3 DEF LinkInv, LinksAreSpent
<1>12. PasswordsBounded'
  BY <1>1 DEF LinkInv, RowsTypeOK, PasswordsBounded
<1> QED
  BY <1>8, <1>9, <1>10, <1>11, <1>12 DEF LinkInv

\* A token that is signed belongs to nobody's request yet.
LEMMA SignKeeps ==
  ASSUME LinkInv, NEW r \in Requests, NEW s \in Session, Sign(r, s)
  PROVE  LinkInv'
<1>1. /\ reqs' = [reqs EXCEPT ![r] = Idle] /\ signed' = signed \cup {s}
      /\ users' = users /\ tokens' = tokens /\ Issued' = Issued
  BY DEF Sign, Done, Issued
<1>2. Idle \in Request /\ Idle.pc = "idle"
  BY DEF Idle, Request, Pc
<1>3. RowsTypeOK'
  BY <1>1, <1>2 DEF LinkInv, RowsTypeOK
<1>4. RequestKnows'
  BY <1>1, <1>2, RequestsStillKnow DEF LinksKept
<1>5. ConsumerHolds'
  BY <1>1, <1>2 DEF LinkInv, RowsTypeOK, ConsumerHolds
<1>6. LinksAreSpent' /\ PasswordsBounded'
  BY <1>1 DEF LinkInv, LinksAreSpent, PasswordsBounded
<1> QED
  BY <1>3, <1>4, <1>5, <1>6 DEF LinkInv

\* What the request has read is a session.
LEMMA LoginSignsSession ==
  ASSUME LinkInv, NEW r \in Requests, reqs[r].pc = "verify"
  PROVE  LET row == reqs[r].row IN
         [user |-> reqs[r].user, role |-> row.role,
          tokenVersion |-> row.tokenVersion, password |-> row.password]
           \in Session
<1>1. reqs[r].user \in Users /\ reqs[r].row \in User
  BY DEF LinkInv, RequestKnows, Knows
<1> QED
  BY <1>1 DEF Session, User

\* Marking a link as expired, and a role change, touch nothing of it.
LEMMA ExpireKeeps ==
  ASSUME LinkInv, NEW t \in TokenIds, Expire(t)
  PROVE  LinkInv'
<1>1. /\ tokens' = [tokens EXCEPT ![t].expired = TRUE] /\ t \in Issued
      /\ users' = users /\ signed' = signed /\ reqs' = reqs
  BY DEF Expire
<1>2. tokens[t] \in Token
  BY <1>1 DEF LinkInv, RowsTypeOK, Issued
<1>3. /\ tokens'[t] \in Token /\ tokens'[t].used = tokens[t].used
      /\ tokens'[t].uses = tokens[t].uses /\ tokens'[t].known = tokens[t].known
      /\ tokens'[t].user = tokens[t].user
      /\ tokens'[t].purpose = tokens[t].purpose
  BY <1>1, <1>2 DEF LinkInv, RowsTypeOK, Token
<1>4. \A s \in TokenIds : s # t => tokens'[s] = tokens[s]
  BY <1>1 DEF LinkInv, RowsTypeOK
<1>5. Issued' = Issued /\ Issued \subseteq TokenIds
  BY <1>1, <1>3, <1>4, NullIsNoToken DEF Issued
<1>6. \A s \in Issued : /\ tokens'[s].used = tokens[s].used
                        /\ tokens'[s].uses = tokens[s].uses
                        /\ tokens'[s].known = tokens[s].known
                        /\ tokens'[s].user = tokens[s].user
                        /\ tokens'[s].purpose = tokens[s].purpose
  BY <1>3, <1>4, <1>5
<1>7. RowsTypeOK'
  BY <1>1, <1>3, <1>4 DEF LinkInv, RowsTypeOK
<1>8. RequestKnows' /\ PasswordsBounded'
  <2>1. LinksKept(tokens, tokens')
    BY <1>5, <1>6 DEF LinksKept, Issued
  <2>2. RequestKnows'
    BY <1>1, <2>1, KnowsStays DEF LinkInv, RequestKnows
  <2> QED
    BY <1>1, <2>2 DEF LinkInv, PasswordsBounded
<1>9. ConsumerHolds'
  BY <1>1, <1>5, <1>6 DEF LinkInv, ConsumerHolds
<1>10. LinksAreSpent'
  BY <1>5, <1>6 DEF LinkInv, LinksAreSpent
<1> QED
  BY <1>7, <1>8, <1>9, <1>10 DEF LinkInv

\* A patch of a user by an admin keeps what is known of the links.
LEMMA PatchUserKeeps ==
  ASSUME LinkInv, PatchUser
  PROVE  LinkInv'
<1>1. PICK u \in Users, role \in Role :
        /\ users[u].tokenVersion < MaxVersion
        /\ users' = [users EXCEPT ![u].role = role, ![u].tokenVersion = @ + 1]
  BY AccountsAssumptions DEF PatchUser
<1>2. tokens' = tokens /\ signed' = signed /\ reqs' = reqs /\ Issued' = Issued
  BY DEF PatchUser, Issued
<1>3. users[u] \in User
  BY DEF LinkInv, RowsTypeOK
<1>4. /\ users'[u] \in User
      /\ users'[u].tokenVersion = users[u].tokenVersion + 1
      /\ users'[u].password = users[u].password
  BY <1>1, <1>3, AccountsAssumptions DEF LinkInv, RowsTypeOK, User, Versions
<1>5. \A w \in Users : w # u => users'[w] = users[w]
  BY <1>1 DEF LinkInv, RowsTypeOK
<1>6. RowsTypeOK'
  BY <1>1, <1>2, <1>4, <1>5 DEF LinkInv, RowsTypeOK
<1>7. PasswordsBounded'
  <2>1. users[u].password \in Nat /\ users[u].tokenVersion \in Nat
    BY <1>3, AccountsAssumptions DEF User, Versions
  <2> QED
    BY <1>4, <1>5, <2>1 DEF LinkInv, PasswordsBounded
<1>8. RequestKnows' /\ ConsumerHolds' /\ LinksAreSpent'
  BY <1>2 DEF LinkInv, RequestKnows, ConsumerHolds, LinksAreSpent
<1> QED
  BY <1>6, <1>7, <1>8 DEF LinkInv

\* What following a link makes of its user.
LEMMA LinkEffects ==
  ASSUME LinkInv, NEW r \in Requests, VerifyEmail(r) \/ SetPasswordFromLink(r)
  PROVE  \E row \in User :
           /\ Apply(r, row)
           /\ row.password <= row.tokenVersion + 1
           /\ LET u == users[OwnerOf(r)] IN
              \/ /\ row.tokenVersion = u.tokenVersion
                 /\ row.password = u.password /\ row.role = u.role
              \/ row.tokenVersion = u.tokenVersion + 1
<1> DEFINE u == users[OwnerOf(r)]
<1>1. reqs[r].pc = "apply" /\ OwnerOf(r) \in Users /\ u \in User
  BY DEF VerifyEmail, SetPasswordFromLink, LinkInv, ConsumerHolds, RowsTypeOK,
         Issued, Token, OwnerOf
<1>2. u.password <= u.tokenVersion + 1 /\ u.tokenVersion \in 0..MaxVersion
        /\ u.password \in Nat
  BY <1>1, AccountsAssumptions DEF LinkInv, PasswordsBounded, User, Versions
<1>3. CASE VerifyEmail(r)
  <2> DEFINE row == [u EXCEPT !.verified = TRUE]
  <2>1. row \in User /\ row.tokenVersion = u.tokenVersion
          /\ row.password = u.password /\ row.role = u.role
    BY <1>1 DEF User
  <2>2. Apply(r, row)
    BY <1>3 DEF VerifyEmail
  <2> QED
    BY <1>2, <2>1, <2>2
<1>4. CASE SetPasswordFromLink(r)
  <2> DEFINE row == [u EXCEPT !.password = @ + 1, !.tokenVersion = @ + 1,
                              !.verified = TRUE]
  <2>1. u.tokenVersion < MaxVersion /\ Apply(r, row)
    BY <1>4 DEF SetPasswordFromLink
  <2>2. /\ row.tokenVersion = u.tokenVersion + 1
        /\ row.password = u.password + 1
    BY <1>1 DEF User
  <2>3. u.tokenVersion + 1 \in Versions /\ u.password + 1 \in 0..(MaxVersion + 1)
    BY <1>2, <2>1, AccountsAssumptions DEF Versions
  <2>4. row \in User
    BY <1>1, <2>3 DEF User
  <2>5. row.password <= row.tokenVersion + 1
    BY <1>2, <2>2, AccountsAssumptions
  <2> QED
    BY <2>1, <2>2, <2>4, <2>5
<1> QED
  BY <1>3, <1>4

-----------------------------------------------------------------------------
(* Sessions.                                                               *)

\* What was read of a user, s, is older than the row u or agrees with it.
Current(s, u) ==
  /\ s.tokenVersion <= u.tokenVersion
  /\ s.tokenVersion = u.tokenVersion
       => s.password = u.password /\ s.role = u.role

SessionsCurrent ==
  /\ \A s \in signed : Current(s, users[s.user])
  /\ \A r \in Requests :
       reqs[r].pc = "verify" => Current(reqs[r].row, users[reqs[r].user])

\* s is a session for cookies of kind k; those of candidates hold any.
ForKind(s, k) ==
  s \in signed /\ (k # "candidate" => s.role \in RolesOf(k))

\* What the browser waits for, p, what the API is doing for it, q, and what it
\* answered, a, fit together.
Fits(p, q, a) ==
  /\ p.pc = "idle" => q.pc \notin {"verify", "refresh"}
  /\ p.pc # "idle" => p.kind \in Kinds
  /\ p.pc = "logout" => q.pc = "idle"
  /\ p.pc = "login" => /\ q.pc \in {"idle", "verify"}
                       /\ q.pc = "verify" => q.row.role \in RolesOf(p.kind)
                       /\ a # Null => ForKind(a, p.kind)
  /\ p.pc \in {"page", "rotate"} =>
       /\ q.pc \in {"idle", "refresh"}
       /\ q.pc = "refresh" => ForKind(q.session, p.kind)
       /\ a \notin {Null, Refused} => ForKind(a, p.kind)

CookiesOfKind == \A k \in Kinds : jar[k] # Null => ForKind(jar[k], k)
PagesFit == \A r \in Requests : Fits(page[r], reqs[r], answer[r])

WebTypeOK ==
  /\ answer \in [Requests -> Session \cup {Refused, Null}]
  /\ jar \in [Kinds -> Session \cup {Null}]
  /\ page \in [Requests -> Page]

SessionInv == SessionsCurrent /\ CookiesOfKind /\ PagesFit /\ WebTypeOK

IInv == LinkInv /\ SessionInv

\* The initial states satisfy it.
LEMMA InitSessionInv == Init => SessionInv
<1> SUFFICES ASSUME Init PROVE SessionInv
    OBVIOUS
<1>1. /\ reqs = [r \in Requests |-> Idle] /\ signed = {}
      /\ answer = [r \in Requests |-> Null]
      /\ page = [r \in Requests |-> NoPage]
      /\ jar = [k \in Kinds |-> Null]
  BY DEF Init, AccountsInit
<1>2. Idle.pc = "idle" /\ NoPage.pc = "idle" /\ NoPage \in Page
  BY DEF Idle, NoPage, Page
<1>3. SessionsCurrent
  BY <1>1, <1>2 DEF SessionsCurrent
<1>4. CookiesOfKind /\ PagesFit
  BY <1>1, <1>2 DEF CookiesOfKind, PagesFit, Fits
<1>5. WebTypeOK
  BY <1>1, <1>2 DEF WebTypeOK
<1> QED
  BY <1>3, <1>4, <1>5 DEF SessionInv

\* One request, its page and its answer change, and the cookies stay of their
\* kind.
WebStep(r) ==
  /\ \A o \in Requests \ {r} :
       page'[o] = page[o] /\ reqs'[o] = reqs[o] /\ answer'[o] = answer[o]
  /\ Fits(page[r], reqs[r], answer[r])'
  /\ signed \subseteq signed'
  /\ CookiesOfKind'
  /\ WebTypeOK'

\* What a page needs, when one request goes a step further.
LEMMA WebStepKeeps ==
  ASSUME PagesFit, NEW r \in Requests, WebStep(r)
  PROVE  PagesFit' /\ CookiesOfKind' /\ WebTypeOK'
<1> SUFFICES ASSUME NEW o \in Requests, o # r
             PROVE  Fits(page[o], reqs[o], answer[o])'
  BY DEF WebStep, PagesFit
<1>1. Fits(page[o], reqs[o], answer[o])
  BY DEF PagesFit
<1>2. page'[o] = page[o] /\ reqs'[o] = reqs[o] /\ answer'[o] = answer[o]
        /\ signed \subseteq signed'
  BY DEF WebStep
<1> QED
  BY <1>1, <1>2 DEF Fits, ForKind

\* A step of the API for r: the browser's state stays, and what the request
\* holds and was answered still fits.
LEMMA ServeFits ==
  ASSUME SessionInv, NEW r \in Requests,
         \A o \in Requests \ {r} : reqs'[o] = reqs[o] /\ answer'[o] = answer[o],
         answer' \in [Requests -> Session \cup {Refused, Null}],
         UNCHANGED webVars, signed \subseteq signed',
         Fits(page[r], reqs[r], answer[r])'
  PROVE  PagesFit' /\ CookiesOfKind' /\ WebTypeOK'
<1>1. \A o \in Requests \ {r} :
        page'[o] = page[o] /\ reqs'[o] = reqs[o] /\ answer'[o] = answer[o]
  BY DEF webVars
<1>2. CookiesOfKind'
  BY DEF SessionInv, CookiesOfKind, ForKind, webVars
<1>3. WebTypeOK'
  BY DEF SessionInv, WebTypeOK, webVars
<1> QED
  BY <1>1, <1>2, <1>3, WebStepKeeps DEF WebStep, SessionInv

\* Steps of the API that sign nothing and answer nothing but 401.
LEMMA QuietServe ==
  ASSUME LinkInv, SessionInv, NEW r \in Requests, UNCHANGED webVars,
         page[r].pc = "idle" \/ reqs[r].pc # "idle",
         \/ AskReset(r) \/ AskVerification(r) \/ AskInvite(r)
         \/ IssueVoid(r) \/ IssueInsert(r) \/ ConsumeLock(r)
         \/ VerifyEmail(r) \/ SetPasswordFromLink(r) \/ Abort(r)
  PROVE  PagesFit' /\ CookiesOfKind' /\ WebTypeOK'
<1> USE DEF LinkInv, RowsTypeOK, SessionInv, WebTypeOK
<1>1. Fits(page[r], reqs[r], answer[r])
  BY DEF PagesFit
<1>2. signed' = signed /\ page' = page
  BY DEF AskReset, AskVerification, AskInvite, Ask, IssueVoid, IssueInsert,
         ConsumeLock, VerifyEmail, SetPasswordFromLink, Apply, Abort, webVars
<1>3. CASE AskReset(r) \/ AskVerification(r) \/ AskInvite(r) \/ ConsumeLock(r)
  <2>1. ASSUME NEW q, Begin(r, q), q.pc \in {"issue", "apply"}
        PROVE  PagesFit' /\ CookiesOfKind' /\ WebTypeOK'
    <3>1. reqs[r].pc = "idle" /\ reqs' = [reqs EXCEPT ![r] = q]
            /\ answer' = [answer EXCEPT ![r] = Null]
      BY <2>1 DEF Begin
    <3>2. page[r].pc = "idle" /\ reqs'[r] = q
      BY <3>1
    <3>3. Fits(page[r], reqs[r], answer[r])'
      BY <1>2, <2>1, <3>2 DEF Fits
    <3>4. /\ answer' \in [Requests -> Session \cup {Refused, Null}]
          /\ \A o \in Requests \ {r} :
               reqs'[o] = reqs[o] /\ answer'[o] = answer[o]
      BY <3>1
    <3> QED
      BY <1>2, <3>3, <3>4, ServeFits
  <2>2. ASSUME NEW u \in Users, NEW p \in Purpose, Ask(r, u, p)
        PROVE  PagesFit' /\ CookiesOfKind' /\ WebTypeOK'
    <3> DEFINE q == [Idle EXCEPT !.pc = "issue", !.user = u, !.purpose = p,
                                 !.known = LinksOf(u, p)]
    <3>1. q.pc = "issue" /\ Begin(r, q)
      BY <2>2 DEF Ask, Idle
    <3> QED
      BY <2>1, <3>1
  <2>3. ASSUME NEW t, Begin(r, [Idle EXCEPT !.pc = "apply", !.token = t])
        PROVE  PagesFit' /\ CookiesOfKind' /\ WebTypeOK'
    <3> DEFINE q == [Idle EXCEPT !.pc = "apply", !.token = t]
    <3>1. q.pc = "apply"
      BY DEF Idle
    <3> QED
      BY <2>1, <2>3, <3>1
  <2> QED
    BY <1>3, <2>2, <2>3
       DEF AskReset, AskVerification, AskInvite, ConsumeLock, Purpose
<1>4. CASE IssueVoid(r) \/ IssueInsert(r) \/ VerifyEmail(r)
             \/ SetPasswordFromLink(r)
  <2>1. /\ reqs[r].pc \in {"issue", "insert", "apply"} /\ answer' = answer
        /\ \E q : reqs' = [reqs EXCEPT ![r] = q]
                    /\ q.pc \in {"insert", "idle"}
    <3> DEFINE next == [reqs[r] EXCEPT !.pc = "insert",
                          !.seen = Unused(reqs[r].user, reqs[r].purpose)]
    <3>1. Idle.pc = "idle" /\ next.pc = "insert"
      BY DEF Idle, Request
    <3>2. ASSUME IssueVoid(r)
          PROVE  /\ reqs[r].pc = "issue" /\ answer' = answer
                 /\ reqs' = [reqs EXCEPT ![r] = next]
      BY <3>2 DEF IssueVoid
    <3>3. ASSUME IssueInsert(r) \/ VerifyEmail(r) \/ SetPasswordFromLink(r)
          PROVE  /\ reqs[r].pc \in {"insert", "apply"} /\ answer' = answer
                 /\ reqs' = [reqs EXCEPT ![r] = Idle]
      BY <3>3 DEF IssueInsert, VerifyEmail, SetPasswordFromLink, Apply, Done
    <3> QED
      BY <1>4, <3>1, <3>2, <3>3
  <2>2. page[r].pc = "idle"
    <3>1. page[r].pc \in {"idle", "login", "page", "rotate", "logout"}
      BY DEF Page
    <3>2. reqs[r].pc \notin {"idle", "verify", "refresh"}
      BY <2>1
    <3> QED
      BY <1>1, <3>1, <3>2 DEF Fits
  <2>3. reqs'[r].pc \in {"insert", "idle"}
          /\ \A o \in Requests \ {r} :
               reqs'[o] = reqs[o] /\ answer'[o] = answer[o]
    BY <2>1
  <2>4. Fits(page[r], reqs[r], answer[r])'
    BY <1>2, <2>2, <2>3 DEF Fits
  <2> QED
    BY <1>2, <2>1, <2>3, <2>4, ServeFits
<1>5. CASE Abort(r)
  <2>1. reqs' = [reqs EXCEPT ![r] = Idle] /\ answer' = answer /\ Idle.pc = "idle"
    BY <1>5 DEF Abort, Done, Idle
  <2> QED
    BY <1>1, <1>2, <2>1, ServeFits DEF Fits, ForKind
<1> QED
  BY <1>3, <1>4, <1>5

\* Signing a session that is current, for a page of its kind.
LEMMA SignServe ==
  ASSUME LinkInv, SessionInv, NEW r \in Requests, NEW s, Sign(r, s),
         s \in Session, UNCHANGED webVars, Current(s, users[s.user]),
         page[r].pc \in {"login", "page", "rotate"},
         page[r].kind # "candidate" => s.role \in RolesOf(page[r].kind)
  PROVE  SessionInv'
<1> USE DEF LinkInv, RowsTypeOK, SessionInv, WebTypeOK
<1>1. /\ signed' = signed \cup {s} /\ answer' = [answer EXCEPT ![r] = s]
      /\ reqs' = [reqs EXCEPT ![r] = Idle] /\ Idle.pc = "idle"
      /\ users' = users /\ page' = page
  BY DEF Sign, Done, Idle, webVars
<1>2. Fits(page[r], reqs[r], answer[r])
  BY DEF PagesFit
<1>3. reqs'[r].pc = "idle" /\ answer'[r] = s
  BY <1>1
<1>4. Fits(page[r], reqs[r], answer[r])'
  BY <1>1, <1>2, <1>3 DEF Fits, ForKind
<1>5. PagesFit' /\ CookiesOfKind' /\ WebTypeOK'
  BY <1>1, <1>4, ServeFits
<1>6. SessionsCurrent'
  BY <1>1 DEF SessionsCurrent
<1> QED
  BY <1>5, <1>6

\* A login signs for the row it read, if that row is current.
LEMMA LoginSignServe ==
  ASSUME LinkInv, SessionInv, NEW r \in Requests, LoginSign(r),
         UNCHANGED webVars
  PROVE  SessionInv'
<1> DEFINE row == reqs[r].row
           s == [user |-> reqs[r].user, role |-> row.role,
                 tokenVersion |-> row.tokenVersion, password |-> row.password]
<1>1. reqs[r].pc = "verify" /\ Sign(r, s)
  BY DEF LoginSign
<1>2. s \in Session
  BY <1>1, LoginSignsSession
<1>3. Current(s, users[s.user])
  BY <1>1 DEF SessionInv, SessionsCurrent, Current
<1>4. page[r].pc = "login" /\ row.role \in RolesOf(page[r].kind)
  <2>1. Fits(page[r], reqs[r], answer[r]) /\ page[r] \in Page
    BY DEF SessionInv, PagesFit, WebTypeOK
  <2> QED
    BY <1>1, <2>1 DEF Fits, Page
<1> QED
  BY <1>1, <1>2, <1>3, <1>4, SignServe

\* A refresh answers for a session that is current.
LEMMA RefreshServe ==
  ASSUME LinkInv, SessionInv, NEW r \in Requests, RefreshAnswer(r),
         UNCHANGED webVars
  PROVE  SessionInv' /\ LinkInv'
<1> DEFINE s == reqs[r].session
<1>1. reqs[r].pc = "refresh" /\ s \in signed /\ s \in Session
  BY DEF RefreshAnswer, LinkInv, RequestKnows, Knows, RowsTypeOK
<1>2. Current(s, users[s.user])
  BY <1>1 DEF SessionInv, SessionsCurrent
<1>3. Fits(page[r], reqs[r], answer[r]) /\ page[r] \in Page
  BY DEF SessionInv, PagesFit, WebTypeOK
<1>4. /\ page[r].pc \in {"page", "rotate"}
      /\ page[r].kind # "candidate" => s.role \in RolesOf(page[r].kind)
  BY <1>1, <1>3 DEF Fits, Page, ForKind
<1>5. CASE Sign(r, s)
  BY <1>1, <1>2, <1>4, <1>5, SignServe, SignKeeps
<1>6. CASE /\ answer' = [answer EXCEPT ![r] = Refused]
           /\ reqs' = [reqs EXCEPT ![r] = Idle]
           /\ UNCHANGED <<users, tokens, signed>>
  <2>1. Idle \in Request /\ Idle.pc = "idle"
    BY DEF Idle, Request, Pc
  <2>2. LinkInv'
    BY <1>6, <2>1, QuietKeeps DEF Quiet, Knows
  <2>3. /\ reqs'[r].pc = "idle" /\ answer'[r] = Refused /\ page' = page
        /\ \A o \in Requests \ {r} :
             reqs'[o] = reqs[o] /\ answer'[o] = answer[o]
        /\ answer' \in [Requests -> Session \cup {Refused, Null}]
    BY <1>6, <2>1 DEF LinkInv, RowsTypeOK, SessionInv, WebTypeOK, webVars
  <2>4. Fits(page[r], reqs[r], answer[r])'
    BY <1>3, <1>4, <2>3 DEF Fits
  <2>5. PagesFit' /\ CookiesOfKind' /\ WebTypeOK'
    BY <1>6, <2>3, <2>4, ServeFits
  <2>6. SessionsCurrent'
    BY <1>6, <2>3 DEF SessionInv, SessionsCurrent
  <2> QED
    BY <2>2, <2>5, <2>6 DEF SessionInv
<1> QED
  BY <1>5, <1>6 DEF RefreshAnswer, Done

\* A user's row changes; its password and role only with its version.
LEMMA CurrentKept ==
  ASSUME LinkInv, SessionsCurrent, signed' = signed,
         \A r \in Requests : reqs'[r].pc = "verify" => reqs'[r] = reqs[r],
         \A w \in Users :
           \/ /\ users'[w].tokenVersion = users[w].tokenVersion
              /\ users'[w].password = users[w].password
              /\ users'[w].role = users[w].role
           \/ users'[w].tokenVersion = users[w].tokenVersion + 1
  PROVE  SessionsCurrent'
<1>1. \A w \in Users : users[w].tokenVersion \in Int
  BY AccountsAssumptions DEF LinkInv, RowsTypeOK, User, Versions
<1>2. ASSUME NEW s, NEW w \in Users, Current(s, users[w]),
             s.tokenVersion \in Int
      PROVE  Current(s, users'[w])
  BY <1>1, <1>2 DEF Current
<1>3. \A s \in signed : s.user \in Users /\ s.tokenVersion \in Int
  BY AccountsAssumptions DEF LinkInv, RowsTypeOK, Session, Versions
<1>4. \A r \in Requests : reqs[r].pc = "verify" =>
        reqs[r].user \in Users /\ reqs[r].row.tokenVersion \in Int
  BY AccountsAssumptions DEF LinkInv, RequestKnows, Knows, User, Versions
<1> QED
  BY <1>2, <1>3, <1>4 DEF SessionsCurrent

-----------------------------------------------------------------------------
(* Steps of the browser.                                                   *)

\* A request that is sent knows its kind, and has no answer yet.
LEMMA LoginIsSent ==
  ASSUME LinkInv, SessionInv, NEW r \in Requests, NEW k \in Kinds, Login(r, k)
  PROVE  LinkInv' /\ SessionInv'
<1>1. LoginRead(r, RolesOf(k)) /\ Send(r, "login", k)
  BY DEF Login
<1>2. LinkInv'
  BY <1>1, BeginsAreQuiet, QuietKeeps
<1>3. PICK u \in Users : /\ users[u].role \in RolesOf(k)
                         /\ Begin(r, [Idle EXCEPT !.pc = "verify", !.user = u,
                                                  !.row = users[u]])
  BY <1>1 DEF LoginRead
<1> DEFINE q == [Idle EXCEPT !.pc = "verify", !.user = u, !.row = users[u]]
<1>4. q.pc = "verify" /\ q.user = u /\ q.row = users[u]
  BY DEF Idle
<1>5. /\ reqs' = [reqs EXCEPT ![r] = q]
      /\ answer' = [answer EXCEPT ![r] = Null]
      /\ page' = [page EXCEPT ![r] = [pc |-> "login", kind |-> k]]
      /\ jar' = jar /\ signed' = signed /\ users' = users
  BY <1>1, <1>3 DEF Begin, Send, LoginRead
<1> USE DEF LinkInv, RowsTypeOK, SessionInv, WebTypeOK
<1>6. reqs'[r] = q /\ answer'[r] = Null /\ page'[r] = [pc |-> "login", kind |-> k]
  BY <1>5
<1>7. Fits(page[r], reqs[r], answer[r])'
  BY <1>3, <1>4, <1>6 DEF Fits
<1>8. WebTypeOK'
  BY <1>5 DEF Page
<1>9. CookiesOfKind'
  BY <1>5 DEF CookiesOfKind, ForKind
<1>10. WebStep(r)
  BY <1>5, <1>7, <1>8, <1>9 DEF WebStep
<1>11. SessionsCurrent'
  <2>1. users[u].tokenVersion \in Int
    BY AccountsAssumptions DEF User, Versions
  <2>2. Current(users[u], users[u])
    BY <2>1 DEF Current
  <2>3. \A o \in Requests \ {r} : reqs'[o] = reqs[o]
    BY <1>5
  <2> QED
    BY <1>4, <1>5, <1>6, <2>2, <2>3 DEF SessionsCurrent
<1> QED
  BY <1>2, <1>10, <1>11, WebStepKeeps

\* A refresh is sent with a session for its kind of cookies.
LEMMA SessionIsSent ==
  ASSUME LinkInv, SessionInv, NEW r \in Requests, NEW k \in Kinds,
         NEW pc \in {"page", "rotate"}, NEW s, ForKind(s, k),
         Refresh(r, s), Send(r, pc, k)
  PROVE  LinkInv' /\ SessionInv'
<1> DEFINE q == [Idle EXCEPT !.pc = "refresh", !.session = s]
<1>2. ForKind(s, k) /\ s \in signed
  BY DEF ForKind
<1>3. LinkInv'
  BY <1>2, BeginsAreQuiet, QuietKeeps
<1>4. q.pc = "refresh" /\ q.session = s
  BY DEF Idle
<1>5. /\ reqs' = [reqs EXCEPT ![r] = q]
      /\ answer' = [answer EXCEPT ![r] = Null]
      /\ page' = [page EXCEPT ![r] = [pc |-> pc, kind |-> k]]
      /\ jar' = jar /\ signed' = signed /\ users' = users
  BY DEF Begin, Send, Refresh
<1> USE DEF LinkInv, RowsTypeOK, SessionInv, WebTypeOK
<1>6. reqs'[r] = q /\ answer'[r] = Null /\ page'[r] = [pc |-> pc, kind |-> k]
  BY <1>5
<1>7. Fits(page[r], reqs[r], answer[r])'
  BY <1>2, <1>4, <1>5, <1>6 DEF Fits, ForKind
<1>8. WebTypeOK'
  BY <1>5 DEF Page
<1>9. CookiesOfKind'
  BY <1>5 DEF CookiesOfKind, ForKind
<1>10. WebStep(r)
  BY <1>5, <1>7, <1>8, <1>9 DEF WebStep
<1>11. SessionsCurrent'
  BY <1>4, <1>5, <1>6 DEF SessionsCurrent
<1> QED
  BY <1>3, <1>10, <1>11, WebStepKeeps

\* A page or a rotation sends the cookie of its kind, that of candidates any.
LEMMA RefreshIsSent ==
  ASSUME LinkInv, SessionInv, NEW r \in Requests,
         \/ \E k \in Kinds : Renew(r, k) \/ Rotate(r, k)
         \/ CandidateRotate(r)
  PROVE  LinkInv' /\ SessionInv'
<1>1. ASSUME NEW k \in Kinds, Renew(r, k) \/ Rotate(r, k)
      PROVE  LinkInv' /\ SessionInv'
  <2>1. ForKind(jar[k], k)
    BY <1>1 DEF Renew, Rotate, SessionInv, CookiesOfKind
  <2> QED
    BY <1>1, <2>1, SessionIsSent DEF Renew, Rotate
<1>2. CASE CandidateRotate(r)
  BY <1>2, SessionIsSent DEF CandidateRotate, ForKind, Kinds
<1> QED
  BY <1>1, <1>2

\* Logging out sends no session.
LEMMA LogoutIsSent ==
  ASSUME LinkInv, SessionInv, NEW r \in Requests, Logout(r)
  PROVE  LinkInv' /\ SessionInv'
<1>1. PICK k \in Kinds : Send(r, "logout", k)
  BY DEF Logout
<1>2. /\ page' = [page EXCEPT ![r] = [pc |-> "logout", kind |-> k]]
      /\ reqs[r].pc = "idle" /\ jar' = jar
      /\ users' = users /\ tokens' = tokens /\ signed' = signed
      /\ reqs' = reqs /\ answer' = answer
  BY <1>1 DEF Logout, Send, accountVars
<1>3. LinkInv'
  BY <1>2 DEF LinkInv, RowsTypeOK, RequestKnows, ConsumerHolds, LinksAreSpent,
              PasswordsBounded, Issued
<1> USE DEF SessionInv, WebTypeOK
<1>4. page'[r] = [pc |-> "logout", kind |-> k]
  BY <1>2
<1>5. Fits(page[r], reqs[r], answer[r])'
  BY <1>2, <1>4 DEF Fits
<1>6. WebTypeOK' /\ CookiesOfKind'
  BY <1>2 DEF Page, CookiesOfKind, ForKind
<1>7. WebStep(r)
  BY <1>2, <1>5, <1>6 DEF WebStep
<1>8. SessionsCurrent'
  BY <1>2 DEF SessionsCurrent
<1> QED
  BY <1>3, <1>7, <1>8, WebStepKeeps

\* What arrives is of its kind, or clears cookies.
LEMMA ArrivalKeeps ==
  ASSUME LinkInv, SessionInv, NEW r \in Requests,
         LoginArrives(r) \/ PageArrives(r) \/ RotateArrives(r)
           \/ LogoutArrives(r)
  PROVE  LinkInv' /\ SessionInv'
<1> DEFINE k == page[r].kind
<1>1. PICK pc \in {"login", "page", "rotate", "logout"} : Arrive(r, pc)
  BY DEF LoginArrives, PageArrives, RotateArrives, LogoutArrives
<1>2. /\ page[r].pc = pc /\ reqs[r].pc = "idle"
      /\ page' = [page EXCEPT ![r] = NoPage]
      /\ answer' = [answer EXCEPT ![r] = Null]
      /\ users' = users /\ tokens' = tokens /\ signed' = signed
      /\ reqs' = reqs
  BY <1>1 DEF Arrive
<1>3. LinkInv'
  BY <1>2 DEF LinkInv, RowsTypeOK, RequestKnows, ConsumerHolds, LinksAreSpent,
              PasswordsBounded, Issued
<1>4. Fits(page[r], reqs[r], answer[r]) /\ k \in Kinds
  BY <1>2 DEF SessionInv, PagesFit, Fits
<1> USE DEF SessionInv, WebTypeOK
<1>5. /\ jar' \in [Kinds -> Session \cup {Null}]
      /\ \A j \in Kinds : jar'[j] \in {jar[j], Null}
                            \/ (j = k /\ ForKind(jar'[j], j))
  <2>1. ASSUME NEW s, ForKind(s, k) PROVE s \in Session
    BY <2>1 DEF ForKind, LinkInv, RowsTypeOK
  <2>2. CASE LoginArrives(r)
    <3>1. pc = "login"
      BY <1>2, <2>2 DEF LoginArrives, Arrive
    <3>2. answer[r] # Null => ForKind(answer[r], k)
      BY <1>2, <1>4, <3>1 DEF Fits
    <3> QED
      BY <1>4, <2>1, <2>2, <3>2 DEF LoginArrives
  <2>3. CASE PageArrives(r)
    <3>1. pc = "page"
      BY <1>2, <2>3 DEF PageArrives, Arrive
    <3>2. answer[r] \notin {Null, Refused} => ForKind(answer[r], k)
      BY <1>2, <1>4, <3>1 DEF Fits
    <3> QED
      BY <1>4, <2>1, <2>3, <3>2 DEF PageArrives, Keep, Drop
  <2>4. CASE RotateArrives(r)
    <3>1. pc = "rotate"
      BY <1>2, <2>4 DEF RotateArrives, Arrive
    <3>2. answer[r] \notin {Null, Refused} => ForKind(answer[r], k)
      BY <1>2, <1>4, <3>1 DEF Fits
    <3> QED
      BY <1>4, <2>1, <2>4, <3>2 DEF RotateArrives, Keep
  <2>5. CASE LogoutArrives(r)
    BY <1>4, <2>5 DEF LogoutArrives, Drop
  <2> QED
    BY <2>2, <2>3, <2>4, <2>5
<1>6. CookiesOfKind'
  BY <1>2, <1>5 DEF CookiesOfKind, ForKind
<1>7. NoPage \in Page /\ NoPage.pc = "idle"
  BY DEF NoPage, Page
<1>8. WebTypeOK'
  BY <1>2, <1>5, <1>7
<1>9. page'[r] = NoPage
  BY <1>2
<1>10. Fits(page[r], reqs[r], answer[r])'
  BY <1>2, <1>7, <1>9 DEF Fits
<1>11. WebStep(r)
  BY <1>2, <1>6, <1>8, <1>10 DEF WebStep
<1>12. SessionsCurrent'
  BY <1>2 DEF SessionsCurrent
<1> QED
  BY <1>3, <1>11, <1>12, WebStepKeeps

-----------------------------------------------------------------------------
(* Every step.                                                             *)

\* A step of the API.
LEMMA ServeKeeps ==
  ASSUME LinkInv, SessionInv, NEW r \in Requests,
         page[r].pc = "idle" \/ reqs[r].pc # "idle",
         Serve(r), UNCHANGED webVars
  PROVE  LinkInv' /\ SessionInv'
<1>1. CASE LoginSign(r)
  BY <1>1, LoginSignServe, LoginSignsSession, SignKeeps DEF LoginSign
<1>2. CASE RefreshAnswer(r)
  BY <1>2, RefreshServe
<1>3. CASE \/ AskReset(r) \/ AskVerification(r) \/ AskInvite(r)
           \/ IssueVoid(r) \/ ConsumeLock(r) \/ Abort(r)
  <2>1. PICK q : Quiet(r, q)
    BY <1>3, BeginsAreQuiet
  <2>2. SessionsCurrent'
    <3>1. /\ reqs' = [reqs EXCEPT ![r] = q]
          /\ users' = users /\ signed' = signed
      BY <2>1 DEF Quiet
    <3>2. q.pc # "verify"
      <4>1. reqs'[r] = q
        BY <3>1 DEF LinkInv, RowsTypeOK
      <4>2. ASSUME NEW x, Begin(r, x), x.pc # "verify"
            PROVE  reqs'[r].pc # "verify"
        BY <4>2 DEF Begin, LinkInv, RowsTypeOK
      <4>3. ASSUME NEW u, NEW p, Ask(r, u, p)
            PROVE  reqs'[r].pc # "verify"
        <5>1. [Idle EXCEPT !.pc = "issue", !.user = u, !.purpose = p,
                           !.known = LinksOf(u, p)].pc # "verify"
          BY DEF Idle
        <5> QED
          BY <4>2, <4>3, <5>1 DEF Ask
      <4>4. ASSUME ConsumeLock(r)
            PROVE  reqs'[r].pc # "verify"
        <5>1. PICK t : Begin(r, [Idle EXCEPT !.pc = "apply", !.token = t])
          BY <4>4 DEF ConsumeLock
        <5>2. [Idle EXCEPT !.pc = "apply", !.token = t].pc # "verify"
          BY DEF Idle
        <5> QED
          BY <4>2, <5>1, <5>2
      <4>5. ASSUME IssueVoid(r)
            PROVE  reqs'[r].pc # "verify"
        <5>1. reqs[r] \in Request
          BY DEF LinkInv, RowsTypeOK
        <5> QED
          BY <4>5, <5>1 DEF IssueVoid, LinkInv, RowsTypeOK, Request
      <4>6. ASSUME Abort(r)
            PROVE  reqs'[r].pc # "verify"
        BY <4>6 DEF Abort, Done, Idle, LinkInv, RowsTypeOK
      <4> QED
        BY <1>3, <4>1, <4>3, <4>4, <4>5, <4>6
           DEF AskReset, AskVerification, AskInvite
    <3> QED
      BY <3>1, <3>2 DEF SessionInv, SessionsCurrent, LinkInv, RowsTypeOK
  <2> QED
    BY <1>3, <2>1, <2>2, QuietKeeps, QuietServe DEF SessionInv
<1>4. CASE IssueInsert(r)
  <2>1. reqs' = [reqs EXCEPT ![r] = Idle] /\ users' = users /\ signed' = signed
    BY <1>4 DEF IssueInsert, Done
  <2>2. SessionsCurrent'
    BY <2>1 DEF Idle, SessionInv, SessionsCurrent, LinkInv, RowsTypeOK
  <2> QED
    BY <1>4, <2>2, IssueInsertKeeps, QuietServe DEF SessionInv
<1>5. CASE VerifyEmail(r) \/ SetPasswordFromLink(r)
  <2>1. PICK row \in User :
          /\ Apply(r, row)
          /\ row.password <= row.tokenVersion + 1
          /\ LET u == users[OwnerOf(r)] IN
             \/ /\ row.tokenVersion = u.tokenVersion
                /\ row.password = u.password /\ row.role = u.role
             \/ row.tokenVersion = u.tokenVersion + 1
    BY <1>5, LinkEffects
  <2>2. /\ users' = [users EXCEPT ![OwnerOf(r)] = row] /\ signed' = signed
        /\ reqs' = [reqs EXCEPT ![r] = Idle]
    BY <2>1 DEF Apply, Done, OwnerOf
  <2>3. \A q \in Requests : reqs'[q].pc = "verify" => reqs'[q] = reqs[q]
    BY <2>2 DEF Idle, LinkInv, RowsTypeOK
  <2>4. \A w \in Users :
          \/ /\ users'[w].tokenVersion = users[w].tokenVersion
             /\ users'[w].password = users[w].password
             /\ users'[w].role = users[w].role
          \/ users'[w].tokenVersion = users[w].tokenVersion + 1
    BY <2>1, <2>2 DEF LinkInv, RowsTypeOK
  <2>5. SessionsCurrent'
    BY <2>2, <2>3, <2>4, CurrentKept DEF SessionInv
  <2> QED
    BY <1>5, <2>1, <2>5, ApplyKeeps, QuietServe DEF SessionInv
<1> QED
  BY <1>1, <1>2, <1>3, <1>4, <1>5 DEF Serve

\* A role change makes every session of its user older than the row.
LEMMA OtherStepsKeep ==
  ASSUME LinkInv, SessionInv,
         \/ PatchUser /\ UNCHANGED webVars
         \/ \E t \in TokenIds : Expire(t) /\ UNCHANGED webVars
         \/ UNCHANGED vars
  PROVE  LinkInv' /\ SessionInv'
<1>1. CASE PatchUser /\ UNCHANGED webVars
  <2>1. PICK u \in Users, role \in GivenRoles :
          users' = [users EXCEPT ![u].role = role, ![u].tokenVersion = @ + 1]
    BY <1>1 DEF PatchUser
  <2>2. signed' = signed /\ reqs' = reqs /\ answer' = answer
    BY <1>1 DEF PatchUser
  <2>3. users[u] \in User
    BY DEF LinkInv, RowsTypeOK
  <2>4. users'[u].tokenVersion = users[u].tokenVersion + 1
          /\ \A w \in Users : w # u => users'[w] = users[w]
    BY <2>1, <2>3 DEF LinkInv, RowsTypeOK, User
  <2>5. SessionsCurrent'
    BY <2>2, <2>4, CurrentKept DEF SessionInv
  <2> QED
    BY <1>1, <2>2, <2>5, PatchUserKeeps
       DEF SessionInv, CookiesOfKind, PagesFit, Fits, ForKind, WebTypeOK, webVars
<1>2. CASE \E t \in TokenIds : Expire(t) /\ UNCHANGED webVars
  <2>1. users' = users /\ signed' = signed /\ reqs' = reqs /\ answer' = answer
    BY <1>2 DEF Expire
  <2> QED
    BY <1>2, <2>1, ExpireKeeps
       DEF SessionInv, SessionsCurrent, CookiesOfKind, PagesFit, Fits, ForKind,
           WebTypeOK, webVars
<1>3. CASE UNCHANGED vars
  <2>1. /\ users' = users /\ tokens' = tokens /\ signed' = signed
        /\ reqs' = reqs /\ answer' = answer /\ jar' = jar /\ page' = page
    BY <1>3 DEF accountVars, vars
  <2> QED
    BY <2>1 DEF LinkInv, RowsTypeOK, RequestKnows, ConsumerHolds, LinksAreSpent,
                PasswordsBounded, Issued, SessionInv, SessionsCurrent,
                CookiesOfKind, PagesFit, Fits, ForKind, WebTypeOK
<1> QED
  BY <1>1, <1>2, <1>3

\* The two halves together are inductive.
LEMMA Inductive == Spec => []IInv
<1>1. Init => IInv
  BY InitLinkInv, InitSessionInv DEF IInv
<1>2. IInv /\ [Next]_vars => IInv'
  <2> SUFFICES ASSUME LinkInv, SessionInv, [Next]_vars
               PROVE  LinkInv' /\ SessionInv'
    BY DEF IInv
  <2>1. ASSUME NEW r \in Requests,
               page[r].pc = "idle" \/ reqs[r].pc # "idle",
               Serve(r), UNCHANGED webVars
        PROVE  LinkInv' /\ SessionInv'
    BY <2>1, ServeKeeps
  <2>2. ASSUME NEW r \in Requests,
               \/ LoginCandidate(r) \/ LoginEmployer(r) \/ LoginStaff(r)
               \/ CandidatePage(r) \/ EmployerPage(r) \/ StaffPage(r)
               \/ CandidateRotate(r) \/ EmployerRotate(r) \/ StaffRotate(r)
        PROVE  LinkInv' /\ SessionInv'
    BY <2>2, LoginIsSent, RefreshIsSent
       DEF LoginCandidate, LoginEmployer, LoginStaff, CandidatePage,
           EmployerPage, StaffPage, EmployerRotate, StaffRotate, Kinds
  <2>3. ASSUME NEW r \in Requests,
               \/ Logout(r) \/ LoginArrives(r) \/ PageArrives(r)
               \/ RotateArrives(r) \/ LogoutArrives(r)
        PROVE  LinkInv' /\ SessionInv'
    BY <2>3, LogoutIsSent, ArrivalKeeps
  <2> QED
    BY <2>1, <2>2, <2>3, OtherStepsKeep DEF Next
<1> QED
  BY <1>1, <1>2, PTL DEF Spec

-----------------------------------------------------------------------------
(* What follows.                                                           *)

\* Rows, requests, cookies and pages keep their types.
THEOREM TypeCorrect == Spec => []TypeOK
<1>1. IInv => TypeOK
  BY DEF IInv, LinkInv, RowsTypeOK, SessionInv, WebTypeOK, TypeOK,
         AccountsTypeOK
<1> QED
  BY <1>1, Inductive, PTL

\* A link works once (consumeAuthToken).
THEOREM LinkWorksOnceHolds == Spec => []LinkWorksOnce
<1>1. IInv => LinkWorksOnce
  BY DEF IInv, LinkInv, LinksAreSpent, LinkWorksOnce
<1> QED
  BY <1>1, Inductive, PTL

\* Two links of one user and purpose are unused together only if they were
\* asked for at overlapping times (issueAuthToken).
THEOREM NewLinkVoidsOlderHolds == Spec => []NewLinkVoidsOlder
<1>1. IInv => NewLinkVoidsOlder
  BY DEF IInv, LinkInv, LinksAreSpent, NewLinkVoidsOlder
<1> QED
  BY <1>1, Inductive, PTL

\* No session survives a reset or a role change (refreshTokens).
THEOREM AcceptedSessionsAreCurrentHolds == Spec => []AcceptedSessionsAreCurrent
<1>1. IInv => AcceptedSessionsAreCurrent
  BY DEF IInv, SessionInv, SessionsCurrent, Current, AcceptedSessionsAreCurrent
<1> QED
  BY <1>1, Inductive, PTL

\* Employer and staff cookies that can still be refreshed are of the role their
\* user has now (refreshTokens).
THEOREM CookiesFollowRoleHolds == Spec => []CookiesFollowRole
<1>1. IInv => CookiesFollowRole
  BY DEF IInv, SessionInv, SessionsCurrent, Current, CookiesOfKind, ForKind,
         CookiesFollowRole, Kinds
<1> QED
  BY <1>1, Inductive, PTL
-----------------------------------------------------------------------------
(* WebSessions implements AccountAccess: the step of a request that commits *)
(* is a step of the contract, every other leaves what it speaks of alone.  *)

view == <<AccountRows, OpenSessions, LinkRows>>

Link == [user : Users, purpose : Purpose, spent : BOOLEAN]
Person == [role : Role, password : Nat, verified : BOOLEAN]

\* Spending changes one field of a link.
LEMMA SpentLink ==
  ASSUME NEW link \in Link
  PROVE  [link EXCEPT !.spent = TRUE]
           = [user |-> link.user, purpose |-> link.purpose, spent |-> TRUE]
<1> DEFINE new == [link EXCEPT !.spent = TRUE]
<1>1. new \in Link
  BY DEF Link
<1>2. new.user = link.user /\ new.purpose = link.purpose /\ new.spent = TRUE
  BY DEF Link
<1> HIDE DEF new
<1>3. new = [user |-> new.user, purpose |-> new.purpose, spent |-> new.spent]
  BY <1>1 DEF Link
<1>4. new = [user |-> link.user, purpose |-> link.purpose, spent |-> TRUE]
  BY <1>2, <1>3
<1> QED
  BY <1>4 DEF new

\* A new password changes two fields of an account.
LEMMA NewPassword ==
  ASSUME NEW a \in Person
  PROVE  [a EXCEPT !.password = a.password + 1, !.verified = TRUE]
           = [role |-> a.role, password |-> a.password + 1, verified |-> TRUE]
<1> DEFINE new == [a EXCEPT !.password = a.password + 1, !.verified = TRUE]
<1>1. new \in Person
  <2>1. a.password + 1 \in Nat
    BY DEF Person
  <2> QED
    BY <2>1 DEF Person
<1>2. new.role = a.role /\ new.password = a.password + 1 /\ new.verified = TRUE
  BY DEF Person
<1> HIDE DEF new
<1>3. new = [role |-> new.role, password |-> new.password,
             verified |-> new.verified]
  BY <1>1 DEF Person
<1>4. new = [role |-> a.role, password |-> a.password + 1, verified |-> TRUE]
  BY <1>2, <1>3
<1> QED
  BY <1>4 DEF new

\* A step that writes no table.
LEMMA AccessQuiet ==
  ASSUME UNCHANGED <<users, tokens, signed>>
  PROVE  UNCHANGED view
BY DEF view, AccountRows, OpenSessions, Accepted, LinkRows

\* The rows of users, and the sessions, say nothing of links.
LEMMA LinksStay ==
  ASSUME UNCHANGED tokens
  PROVE  LinkRows' = LinkRows
BY DEF LinkRows

\* Rows that are shown as they were.
LEMMA SessionsStay ==
  ASSUME signed' = signed, \A s \in signed : s.user \in Users,
         \A u \in Users : users'[u].tokenVersion = users[u].tokenVersion
  PROVE  OpenSessions' = OpenSessions
<1>1. Accepted' = Accepted
  BY DEF Accepted
<1> QED
  BY <1>1 DEF OpenSessions

\* What is known of sessions and rows in every state.
LEMMA SessionFacts ==
  ASSUME IInv
  PROVE  /\ users \in [Users -> User]
         /\ \A u \in Users : users[u].tokenVersion \in Nat
         /\ \A s \in signed :
              /\ s.user \in Users /\ s.tokenVersion \in Nat
              /\ s.tokenVersion <= users[s.user].tokenVersion
<1>1. users \in [Users -> User] /\ signed \subseteq Session
        /\ \A s \in signed : Current(s, users[s.user])
  BY DEF IInv, LinkInv, RowsTypeOK, SessionInv, SessionsCurrent
<1>2. Versions \subseteq Nat
  BY AccountsAssumptions DEF Versions
<1>3. \A u \in Users : users[u].tokenVersion \in Nat
  BY <1>1, <1>2 DEF User
<1>4. \A s \in signed : s.user \in Users /\ s.tokenVersion \in Nat
  BY <1>1, <1>2 DEF Session
<1> QED
  BY <1>1, <1>3, <1>4 DEF Current

\* A new version closes the sessions of the user.
LEMMA NewVersionCloses ==
  ASSUME IInv, NEW u \in Users, NEW row, users' = [users EXCEPT ![u] = row],
         row.tokenVersion = users[u].tokenVersion + 1, signed' = signed
  PROVE  OpenSessions' = {s \in OpenSessions : s.user # u}
<1>1. /\ users \in [Users -> User]
      /\ \A w \in Users : users[w].tokenVersion \in Nat
      /\ \A s \in signed :
           /\ s.user \in Users /\ s.tokenVersion \in Nat
           /\ s.tokenVersion <= users[s.user].tokenVersion
  BY SessionFacts
<1>2. users'[u] = row /\ \A w \in Users \ {u} : users'[w] = users[w]
  BY <1>1
<1>3. Accepted' = {s \in Accepted : s.user # u}
  <2>1. ASSUME NEW s \in signed, s.user = u
        PROVE  s.tokenVersion # users'[u].tokenVersion
    BY <1>1, <1>2, <2>1
  <2> QED
    BY <1>1, <1>2, <2>1 DEF Accepted
<1>4. \A s : Shown(s).user = s.user
  BY DEF Shown
<1> QED
  BY <1>3, <1>4 DEF OpenSessions

\* A session that is signed opens with what its user has, or is never accepted.
LEMMA SignOpens ==
  ASSUME IInv, NEW r \in Requests, NEW s, Sign(r, s), s.user \in Users,
         Current(s, users[s.user]), s.password # 0
  PROVE  Access!Next \/ UNCHANGED view
<1> DEFINE u == s.user
<1>1. signed' = signed \cup {s} /\ users' = users /\ tokens' = tokens
  BY DEF Sign
<1>2. AccountRows' = AccountRows /\ LinkRows' = LinkRows
  BY <1>1 DEF AccountRows, LinkRows
<1>3. CASE s.tokenVersion # users[u].tokenVersion
  <2>1. Accepted' = Accepted
    BY <1>1, <1>3 DEF Accepted
  <2> QED
    BY <1>2, <2>1 DEF view, OpenSessions
<1>4. CASE s.tokenVersion = users[u].tokenVersion
  <2>1. Accepted' = Accepted \cup {s}
    BY <1>1, <1>4 DEF Accepted
  <2>2. OpenSessions' = OpenSessions \cup {Shown(s)}
    BY <2>1 DEF OpenSessions
  <2>3. /\ AccountRows[u].password = s.password
        /\ AccountRows[u].role = s.role
    BY <1>4 DEF Current, AccountRows
  <2>4. Shown(s) = Access!Credentials(u)
    BY <2>3 DEF Shown, Access!Credentials
  <2>5. Access!SignIn(u)
    BY <1>2, <2>2, <2>3, <2>4 DEF Access!SignIn
  <2> QED
    BY <2>5 DEF Access!Next
<1> QED
  BY <1>3, <1>4

\* A login signs what it read, which may be outdated by now; a refresh signs
\* a session again.
LEMMA SessionSteps ==
  ASSUME IInv, NEW r \in Requests, LoginSign(r) \/ RefreshAnswer(r)
  PROVE  Access!Next \/ UNCHANGED view
<1>1. CASE LoginSign(r)
  <2> DEFINE row == reqs[r].row
             s == [user |-> reqs[r].user, role |-> row.role,
                   tokenVersion |-> row.tokenVersion,
                   password |-> row.password]
  <2>1. reqs[r].pc = "verify" /\ Sign(r, s)
    BY <1>1 DEF LoginSign
  <2>2. reqs[r].user \in Users /\ row.password # 0
          /\ Current(row, users[reqs[r].user])
    BY <2>1 DEF IInv, LinkInv, RequestKnows, Knows, SessionInv, SessionsCurrent
  <2>3. s.user \in Users /\ s.password # 0 /\ Current(s, users[s.user])
    BY <2>2 DEF Current
  <2> HIDE DEF s
  <2> QED
    BY <2>1, <2>3, SignOpens
<1>2. CASE RefreshAnswer(r)
  <2>1. reqs[r].session \in signed
    BY <1>2 DEF RefreshAnswer, IInv, LinkInv, RequestKnows, Knows
  <2>2. signed' = signed /\ users' = users /\ tokens' = tokens
    BY <1>2, <2>1 DEF RefreshAnswer, Sign
  <2> QED
    BY <2>2, AccessQuiet
<1> QED
  BY <1>1, <1>2

\* The version of a user's row goes up with the role.
LEMMA PatchUserChangesRole ==
  ASSUME IInv, PatchUser
  PROVE  Access!Next
<1>1. PICK u \in Users, role \in Role :
        users' = [users EXCEPT ![u].role = role, ![u].tokenVersion = @ + 1]
  BY AccountsAssumptions DEF PatchUser
<1> DEFINE row == [users[u] EXCEPT !.role = role,
                                   !.tokenVersion = users[u].tokenVersion + 1]
<1>2. users \in [Users -> User] /\ users[u] \in User
  BY SessionFacts
<1>3. /\ users' = [users EXCEPT ![u] = row]
      /\ row.tokenVersion = users[u].tokenVersion + 1
      /\ row.role = role /\ row.password = users[u].password
      /\ row.verified = users[u].verified
  BY <1>1, <1>2 DEF User
<1>4. signed' = signed /\ LinkRows' = LinkRows
  BY LinksStay DEF PatchUser
<1> HIDE DEF row
<1>5. OpenSessions' = {s \in OpenSessions : s.user # u}
  BY <1>3, <1>4, NewVersionCloses
<1>6. AccountRows' = [AccountRows EXCEPT ![u].role = role]
  BY <1>2, <1>3 DEF AccountRows
<1>7. Access!ChangeRole(u)
  BY <1>4, <1>5, <1>6 DEF Access!ChangeRole, Access!CloseSessions
<1> QED
  BY <1>7 DEF Access!Next

\* Of the links an issue saw it spends those that are unspent by now.
LEMMA IssueIssues ==
  ASSUME IInv, NEW r \in Requests, IssueInsert(r)
  PROVE  Access!Next
<1> DEFINE seen == reqs[r].seen
           known == reqs[r].known
           u == reqs[r].user
           p == reqs[r].purpose
<1>1. reqs[r].pc = "insert" /\ users' = users /\ signed' = signed
  BY DEF IssueInsert
<1>2. PICK t \in TokenIds \ Issued :
        tokens' = [s \in TokenIds |->
          IF s = t
          THEN [user |-> u, purpose |-> p, used |-> FALSE, expired |-> FALSE,
                uses |-> 0, known |-> known]
          ELSE IF s \in seen THEN [tokens[s] EXCEPT !.used = TRUE]
          ELSE tokens[s]]
  BY DEF IssueInsert
<1>3. /\ u \in Users /\ p \in Purpose /\ seen \subseteq Issued
      /\ \A s \in seen : tokens[s].user = u /\ tokens[s].purpose = p
      /\ tokens \in [TokenIds -> Token \cup {Null}]
      /\ known \in SUBSET TokenIds
  BY <1>1 DEF IInv, LinkInv, RowsTypeOK, RequestKnows, Knows, Of, Issued
<1> DEFINE S == {s \in seen : ~tokens[s].used}
           new == [user |-> u, purpose |-> p, spent |-> FALSE]
<1>4. tokens[t] = Null /\ LinkRows[t] = Null
  BY <1>2 DEF Issued, LinkRows
<1>5. ASSUME NEW s \in Issued
      PROVE  /\ tokens[s] \in Token /\ tokens[s] # Null /\ s \in TokenIds
             /\ LinkRows[s] = [user |-> tokens[s].user,
                               purpose |-> tokens[s].purpose,
                               spent |-> tokens[s].used]
             /\ LinkRows[s] \in Link /\ LinkRows[s] # Null
             /\ LinkRows[s].user = tokens[s].user
             /\ LinkRows[s].purpose = tokens[s].purpose
             /\ LinkRows[s].spent = tokens[s].used
  <2>1. tokens[s] \in Token /\ tokens[s] # Null /\ s \in TokenIds
    BY <1>3 DEF Issued
  <2>2. LinkRows[s] = [user |-> tokens[s].user, purpose |-> tokens[s].purpose,
                       spent |-> tokens[s].used]
    BY <2>1 DEF LinkRows
  <2>3. LinkRows[s] \in Link
    BY <2>1, <2>2 DEF Token, Link
  <2> QED
    BY <2>1, <2>2, <2>3, NullIsNoLink DEF Link
<1>6. ASSUME NEW s \in TokenIds, tokens'[s] # Null
      PROVE  LinkRows'[s] = [user |-> tokens'[s].user,
                             purpose |-> tokens'[s].purpose,
                             spent |-> tokens'[s].used]
  BY <1>6 DEF LinkRows
<1>7. LinkRows'[t] = new /\ new # Null
  <2> DEFINE row == [user |-> u, purpose |-> p, used |-> FALSE,
                     expired |-> FALSE, uses |-> 0, known |-> known]
  <2>1. row \in Token
    BY <1>3 DEF Token, Issued
  <2>2. tokens'[t] = row /\ tokens'[t] # Null
    BY <1>2, <2>1, NullIsNoToken
  <2>3. tokens'[t].user = u /\ tokens'[t].purpose = p
          /\ tokens'[t].used = FALSE
    BY <2>2
  <2> HIDE DEF row
  <2>4. LinkRows'[t] = new
    BY <1>2, <1>6, <2>2, <2>3
  <2>5. new \in [user : Users, purpose : Purpose, spent : BOOLEAN]
    BY <1>3
  <2> QED
    BY <2>4, <2>5, NullIsNoLink
<1>8. ASSUME NEW s \in seen
      PROVE  LinkRows'[s] = [LinkRows[s] EXCEPT !.spent = TRUE]
  <2>1. s \in Issued /\ s # t /\ s \in TokenIds /\ tokens[s] \in Token
    BY <1>2, <1>3, <1>5 DEF Issued
  <2>2. tokens'[s] = [tokens[s] EXCEPT !.used = TRUE]
    BY <1>2, <2>1
  <2>3. /\ tokens'[s] \in Token /\ tokens'[s].user = tokens[s].user
        /\ tokens'[s].purpose = tokens[s].purpose /\ tokens'[s].used = TRUE
    BY <2>1, <2>2 DEF Token
  <2>4. LinkRows'[s] = [user |-> tokens[s].user, purpose |-> tokens[s].purpose,
                        spent |-> TRUE]
    BY <1>6, <2>1, <2>3, NullIsNoToken
  <2>5. LinkRows[s] \in Link /\ LinkRows[s].user = tokens[s].user
          /\ LinkRows[s].purpose = tokens[s].purpose
    BY <1>5, <2>1
  <2> QED
    BY <2>4, <2>5, SpentLink
<1>9. ASSUME NEW s \in seen, s \notin S PROVE LinkRows'[s] = LinkRows[s]
  <2>1. s \in Issued /\ tokens[s].used
    BY <1>3, <1>9
  <2>2. tokens[s].used = TRUE
    BY <1>5, <2>1 DEF Token
  <2>3. LinkRows[s] = [user |-> tokens[s].user, purpose |-> tokens[s].purpose,
                       spent |-> TRUE]
    BY <1>5, <2>1, <2>2
  <2> QED
    BY <1>8, <2>3
<1>10. ASSUME NEW s \in TokenIds \ seen, s # t
       PROVE  LinkRows'[s] = LinkRows[s]
  <2>1. tokens'[s] = tokens[s]
    BY <1>2, <1>10
  <2> QED
    BY <2>1 DEF LinkRows
<1>11. LinkRows' = [s \in TokenIds |->
         IF s = t THEN new
         ELSE IF s \in S THEN [LinkRows[s] EXCEPT !.spent = TRUE]
         ELSE LinkRows[s]]
  <2>1. \A s \in TokenIds : LinkRows'[s] =
          IF s = t THEN new
          ELSE IF s \in S THEN [LinkRows[s] EXCEPT !.spent = TRUE]
          ELSE LinkRows[s]
    BY <1>7, <1>8, <1>9, <1>10
  <2>2. LinkRows' = [s \in TokenIds |-> LinkRows'[s]]
    BY DEF LinkRows
  <2> QED
    BY <2>1, <2>2
<1>12. S \in SUBSET Access!Unspent(u, p)
  <2>1. ASSUME NEW s \in S
        PROVE  /\ s \in TokenIds /\ LinkRows[s] # Null /\ ~LinkRows[s].spent
               /\ LinkRows[s].user = u /\ LinkRows[s].purpose = p
    <3>1. s \in Issued /\ ~tokens[s].used /\ tokens[s].user = u
            /\ tokens[s].purpose = p
      BY <1>3
    <3>2. s \in TokenIds /\ LinkRows[s] # Null
            /\ LinkRows[s].spent = tokens[s].used
            /\ LinkRows[s].user = tokens[s].user
            /\ LinkRows[s].purpose = tokens[s].purpose
      BY <1>5, <3>1
    <3> QED
      BY <3>1, <3>2, Zenon
  <2> QED
    BY <2>1 DEF Access!Unspent
<1>13. AccountRows' = AccountRows /\ OpenSessions' = OpenSessions
  BY <1>1 DEF AccountRows, OpenSessions, Accepted
<1> HIDE DEF S
<1>14. Access!Issue(t)
  BY <1>3, <1>4, <1>7, <1>11, <1>12, <1>13 DEF Access!Issue
<1> QED
  BY <1>2, <1>14 DEF Access!Next

\* A link that is followed is unspent until its request commits.
LEMMA LinkIsFollowed ==
  ASSUME IInv, NEW r \in Requests, VerifyEmail(r) \/ SetPasswordFromLink(r)
  PROVE  Access!Next
<1> DEFINE t == reqs[r].token
           u == tokens[t].user
           row == users[u]
<1>1. reqs[r].pc = "apply"
  BY DEF VerifyEmail, SetPasswordFromLink
<1>2. /\ t \in Issued /\ ~tokens[t].used /\ tokens \in [TokenIds -> Token \cup {Null}]
      /\ users \in [Users -> User]
  BY <1>1 DEF IInv, LinkInv, ConsumerHolds, RowsTypeOK
<1>3. t \in TokenIds /\ tokens[t] \in Token /\ tokens[t] # Null
  BY <1>2 DEF Issued
<1>4. u \in Users /\ row \in User
  BY <1>2, <1>3 DEF Token
<1>5. tokens' = [tokens EXCEPT ![t].used = TRUE, ![t].uses = @ + 1]
        /\ signed' = signed
  BY DEF VerifyEmail, SetPasswordFromLink, Apply
<1>6. LinkRows[t] = [user |-> u, purpose |-> tokens[t].purpose,
                     spent |-> tokens[t].used]
        /\ LinkRows[t] \in Link /\ LinkRows[t] # Null
  <2>1. LinkRows[t] = [user |-> u, purpose |-> tokens[t].purpose,
                       spent |-> tokens[t].used]
    BY <1>3 DEF LinkRows
  <2>2. LinkRows[t] \in Link
    BY <1>3, <2>1 DEF Token, Link
  <2> QED
    BY <2>1, <2>2, NullIsNoLink DEF Link
<1>7. LinkRows' = [LinkRows EXCEPT ![t].spent = TRUE]
  <2>1. /\ tokens'[t].user = u /\ tokens'[t].purpose = tokens[t].purpose
        /\ tokens'[t].used = TRUE /\ tokens'[t] # Null
    <3>1. tokens[t].uses = 0
      BY <1>2, <1>3 DEF IInv, LinkInv, LinksAreSpent, Token
    <3>2. tokens'[t] \in Token /\ tokens'[t].user = u
            /\ tokens'[t].purpose = tokens[t].purpose /\ tokens'[t].used = TRUE
      BY <1>2, <1>3, <1>5, <3>1 DEF Token
    <3> QED
      BY <3>2, NullIsNoToken
  <2>2. \A s \in TokenIds \ {t} : tokens'[s] = tokens[s]
    BY <1>2, <1>5
  <2>3. LinkRows'[t] = [user |-> u, purpose |-> tokens[t].purpose,
                        spent |-> TRUE]
    BY <1>3, <2>1 DEF LinkRows
  <2>4. \A s \in TokenIds \ {t} : LinkRows'[s] = LinkRows[s]
    BY <2>2 DEF LinkRows
  <2>5. LinkRows'[t] = [LinkRows[t] EXCEPT !.spent = TRUE]
    BY <1>6, <2>3, SpentLink
  <2>6. LinkRows' = [s \in TokenIds |-> LinkRows'[s]]
          /\ LinkRows = [s \in TokenIds |-> LinkRows[s]]
    BY DEF LinkRows
  <2> QED
    BY <2>4, <2>5, <2>6
<1>8. CASE VerifyEmail(r)
  <2> DEFINE new == [row EXCEPT !.verified = TRUE]
  <2>1. tokens[t].purpose = "email_verify" /\ users' = [users EXCEPT ![u] = new]
    BY <1>8 DEF VerifyEmail, Apply, For, OwnerOf
  <2>2. /\ new.tokenVersion = row.tokenVersion /\ new.role = row.role
        /\ new.password = row.password /\ new.verified = TRUE
    BY <1>4 DEF User
  <2>3. \A w \in Users : users'[w].tokenVersion = users[w].tokenVersion
    BY <1>2, <1>4, <2>1, <2>2
  <2>4. OpenSessions' = OpenSessions
    BY <1>5, <2>3, SessionsStay, SessionFacts
  <2>5. AccountRows' = [AccountRows EXCEPT ![u].verified = TRUE]
    BY <1>2, <1>4, <2>1, <2>2 DEF AccountRows
  <2>6. Access!Follow(t)
    BY <1>2, <1>6, <1>7, <2>1, <2>4, <2>5 DEF Access!Follow
  <2> QED
    BY <1>3, <2>6 DEF Access!Next
<1>9. CASE SetPasswordFromLink(r)
  <2> DEFINE new == [row EXCEPT !.password = @ + 1, !.tokenVersion = @ + 1,
                                !.verified = TRUE]
  <2>1. tokens[t].purpose # "email_verify" /\ users' = [users EXCEPT ![u] = new]
    BY <1>9 DEF SetPasswordFromLink, Apply, For, OwnerOf
  <2>2. /\ new.tokenVersion = row.tokenVersion + 1 /\ new.role = row.role
        /\ new.password = row.password + 1 /\ new.verified = TRUE
    BY <1>4 DEF User
  <2> HIDE DEF new
  <2>3. OpenSessions' = {s \in OpenSessions : s.user # u}
    BY <1>4, <1>5, <2>1, <2>2, NewVersionCloses
  <2>4. AccountRows' = [AccountRows EXCEPT
                          ![u].password = AccountRows[u].password + 1,
                          ![u].verified = TRUE]
    <3>1. users'[u] = new /\ \A w \in Users \ {u} : users'[w] = users[w]
      BY <1>2, <1>4, <2>1
    <3>2. AccountRows'[u] = [role |-> row.role, password |-> row.password + 1,
                             verified |-> TRUE]
      BY <1>4, <2>2, <3>1 DEF AccountRows
    <3>3. /\ AccountRows[u] \in Person
          /\ AccountRows[u].role = row.role
          /\ AccountRows[u].password = row.password
      BY <1>4 DEF AccountRows, User, Person
    <3>4. \A w \in Users \ {u} : AccountRows'[w] = AccountRows[w]
      BY <3>1 DEF AccountRows
    <3>5. /\ AccountRows' = [w \in Users |-> AccountRows'[w]]
          /\ AccountRows = [w \in Users |-> AccountRows[w]]
      BY DEF AccountRows
    <3>6. AccountRows'[u] = [AccountRows[u] EXCEPT
                               !.password = AccountRows[u].password + 1,
                               !.verified = TRUE]
      BY <3>2, <3>3, NewPassword
    <3> QED
      BY <3>4, <3>5, <3>6
  <2>5. /\ LinkRows[t].user = u /\ LinkRows[t].purpose = tokens[t].purpose
        /\ LinkRows[t].spent = tokens[t].used
    BY <1>6
  <2> HIDE DEF t, u, row
  <2>6. LinkRows[t].purpose # "email_verify" /\ ~LinkRows[t].spent
    BY <1>2, <2>1, <2>5, Zenon
  <2>7. Access!Follow(t)
    BY <1>6, <1>7, <2>3, <2>4, <2>5, <2>6
       DEF Access!Follow, Access!CloseSessions
  <2> QED
    BY <1>3, <2>7 DEF Access!Next
<1> QED
  BY <1>8, <1>9

\* A link that expires is not spent.
LEMMA ExpireIsQuiet ==
  ASSUME IInv, NEW t \in TokenIds, Expire(t)
  PROVE  UNCHANGED view
<1>1. /\ tokens' = [tokens EXCEPT ![t].expired = TRUE]
      /\ users' = users /\ signed' = signed /\ t \in Issued
  BY DEF Expire
<1>2. tokens \in [TokenIds -> Token \cup {Null}] /\ tokens[t] \in Token
  BY <1>1 DEF IInv, LinkInv, RowsTypeOK, Issued
<1>3. tokens'[t] = [tokens[t] EXCEPT !.expired = TRUE]
        /\ \A s \in TokenIds \ {t} : tokens'[s] = tokens[s]
  BY <1>1, <1>2
<1>4. /\ tokens'[t] \in Token /\ tokens'[t].user = tokens[t].user
      /\ tokens'[t].purpose = tokens[t].purpose
      /\ tokens'[t].used = tokens[t].used
  BY <1>2, <1>3 DEF Token
<1>5. LinkRows' = LinkRows
  BY <1>2, <1>3, <1>4, NullIsNoToken DEF LinkRows
<1> QED
  BY <1>1, <1>5 DEF view, AccountRows, OpenSessions, Accepted

\* Every step is a step of the contract, or leaves it alone.
LEMMA AccessStep == IInv /\ [Next]_vars => [Access!Next]_view
<1> SUFFICES ASSUME IInv, [Next]_vars PROVE Access!Next \/ UNCHANGED view
    OBVIOUS
<1>1. ASSUME NEW r \in Requests, Serve(r)
      PROVE  Access!Next \/ UNCHANGED view
  <2>1. CASE \/ AskReset(r) \/ AskVerification(r) \/ AskInvite(r)
             \/ IssueVoid(r) \/ ConsumeLock(r) \/ Abort(r)
    BY <2>1, AccessQuiet DEF AskReset, AskVerification, AskInvite, Ask,
                             IssueVoid, ConsumeLock, Abort
  <2> QED
    BY <1>1, <2>1, SessionSteps, IssueIssues, LinkIsFollowed DEF Serve
<1>2. ASSUME NEW r \in Requests,
             \/ LoginCandidate(r) \/ LoginEmployer(r) \/ LoginStaff(r)
             \/ CandidatePage(r) \/ EmployerPage(r) \/ StaffPage(r)
             \/ CandidateRotate(r) \/ EmployerRotate(r) \/ StaffRotate(r)
             \/ Logout(r) \/ LoginArrives(r) \/ PageArrives(r)
             \/ RotateArrives(r) \/ LogoutArrives(r)
      PROVE  UNCHANGED <<users, tokens, signed>>
  BY <1>2 DEF LoginCandidate, LoginEmployer, LoginStaff, Login, LoginRead,
              CandidatePage, EmployerPage, StaffPage, Renew, Refresh,
              CandidateRotate, EmployerRotate, StaffRotate, Rotate, Logout,
              LoginArrives, PageArrives, RotateArrives, LogoutArrives, Arrive,
              accountVars
<1>3. CASE UNCHANGED vars
  BY <1>3, AccessQuiet DEF vars, accountVars
<1> QED
  BY <1>1, <1>2, <1>3, AccessQuiet, PatchUserChangesRole, ExpireIsQuiet DEF Next

\* For any number of users, links, requests and versions: however requests
\* overlap, what they commit is what accounts serving one at a time would do.
THEOREM ImplementsAccess == Spec => AccessSpec
<1>1. Init => Access!Init
  <2> SUFFICES ASSUME Init PROVE Access!Init
      OBVIOUS
  <2> DEFINE NewUser == [role : FirstRoles, password : {0, 1},
                         tokenVersion : {0}, verified : {FALSE}]
  <2>1. users \in [Users -> NewUser] /\ tokens = [t \in TokenIds |-> Null]
          /\ signed = {}
    BY DEF Init, AccountsInit
  <2>2. AccountRows \in [Users -> [role : Role, password : {0, 1},
                                   verified : {FALSE}]]
    <3>1. \A u \in Users : /\ users[u].role \in Role
                           /\ users[u].password \in {0, 1}
                           /\ users[u].verified \in {FALSE}
      BY <2>1, AccountsAssumptions
    <3> QED
      BY <3>1 DEF AccountRows
  <2>3. OpenSessions = {} /\ LinkRows = [t \in TokenIds |-> Null]
    BY <2>1 DEF OpenSessions, Accepted, LinkRows
  <2> QED
    BY <2>2, <2>3 DEF Access!Init
<1>2. IInv /\ [Next]_vars => [Access!Next]_view
  BY AccessStep
<1> QED
  BY <1>1, <1>2, Inductive, PTL DEF Spec, AccessSpec, Access!Spec, Access!access, view
=============================================================================
