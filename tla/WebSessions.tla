----------------------------- MODULE WebSessions -----------------------------
(***************************************************************************)
(* The sessions of one browser: the cookies the web application keeps for  *)
(* each kind of user, and the requests that change them.  A request reads  *)
(* the cookies when it is sent and changes them when its answer arrives;   *)
(* in between it asks the API (Accounts), and other requests come and go.  *)
(* One request of the browser is one request of the API, by the same name. *)
(* A sign-up ends as a login does: its answer sets the cookies of its kind *)
(* and clears the others; accounts are there at the start (Accounts).      *)
(***************************************************************************)
EXTENDS Accounts

VARIABLES
  jar,    \* the refresh cookie, by kind, Null: none
  page    \* requests of the browser: what they are and of which kind

vars == <<accountVars, jar, page>>
webVars == <<jar, page>>

Kinds == {"candidate", "employer", "staff"}
RolesOf(k) ==
  CASE k = "candidate" -> {"candidate"} [] k = "employer" -> {"employer"}
    [] k = "staff" -> {"moderator", "admin"}

NoPage == [pc |-> "idle", kind |-> Null]
Page == [pc : {"idle", "login", "page", "rotate", "logout"},
         kind : Kinds \cup {Null}]

TypeOK ==
  /\ AccountsTypeOK
  /\ jar \in [Kinds -> Session \cup {Null}]
  /\ page \in [Requests -> Page]

Init ==
  /\ AccountsInit
  /\ jar = [k \in Kinds |-> Null]
  /\ page = [r \in Requests |-> NoPage]

Send(r, pc, k) ==
  /\ page[r].pc = "idle"
  /\ page' = [page EXCEPT ![r] = [pc |-> pc, kind |-> k]]
  /\ UNCHANGED jar

-----------------------------------------------------------------------------
(* What the browser sends.                                                 *)

Login(r, k) == LoginRead(r, RolesOf(k)) /\ Send(r, "login", k)
LoginCandidate(r) == Login(r, "candidate")
LoginEmployer(r) == Login(r, "employer")
LoginStaff(r) == Login(r, "staff")

\* The middleware of a page: a refresh when there is a refresh cookie and the
\* access cookie is missing or about to expire, which it may be at any time.
Renew(r, k) == jar[k] # Null /\ Refresh(r, jar[k]) /\ Send(r, "page", k)
CandidatePage(r) == Renew(r, "candidate")
EmployerPage(r) == Renew(r, "employer")
StaffPage(r) == Renew(r, "staff")

\* The refresh routes.  That of candidates reads no cookie: it refreshes the
\* token it is sent, of whatever user and role.
Rotate(r, k) == jar[k] # Null /\ Refresh(r, jar[k]) /\ Send(r, "rotate", k)
CandidateRotate(r) ==
  \E s \in signed : Refresh(r, s) /\ Send(r, "rotate", "candidate")
EmployerRotate(r) == Rotate(r, "employer")
StaffRotate(r) == Rotate(r, "staff")

\* signOut
Logout(r) ==
  /\ reqs[r].pc = "idle"
  /\ \E k \in Kinds : Send(r, "logout", k)
  /\ UNCHANGED accountVars

-----------------------------------------------------------------------------
(* What arrives.                                                           *)

Arrive(r, pc) ==
  /\ page[r].pc = pc /\ reqs[r].pc = "idle"
  /\ page' = [page EXCEPT ![r] = NoPage]
  /\ answer' = [answer EXCEPT ![r] = Null]
  /\ UNCHANGED <<users, tokens, signed, reqs>>

Keep(k, s) == jar' = [jar EXCEPT ![k] = s]
Drop(k) == jar' = [jar EXCEPT ![k] = Null]

\* The answer sets the cookies of its kind and clears the others
\* (clearNonEmployerSessionCookies and the like).
LoginArrives(r) ==
  LET k == page[r].kind IN
  /\ Arrive(r, "login")
  /\ IF answer[r] # Null
     THEN jar' = [j \in Kinds |-> IF j = k THEN answer[r] ELSE Null]
     ELSE UNCHANGED jar

\* A refusal drops the cookies; no answer (the API is down) leaves them.
PageArrives(r) ==
  LET k == page[r].kind IN
  /\ Arrive(r, "page")
  /\ IF answer[r] = Null THEN UNCHANGED jar
     ELSE IF answer[r] = Refused THEN Drop(k) ELSE Keep(k, answer[r])

\* Here a refusal is passed on and the cookies stay.
RotateArrives(r) ==
  LET k == page[r].kind IN
  /\ Arrive(r, "rotate")
  /\ IF answer[r] \in {Null, Refused} THEN UNCHANGED jar
     ELSE Keep(k, answer[r])

LogoutArrives(r) == Arrive(r, "logout") /\ Drop(page[r].kind)

Next ==
  \/ \E r \in Requests :
       \/ /\ page[r].pc = "idle" \/ reqs[r].pc # "idle"
          /\ Serve(r) /\ UNCHANGED webVars
       \/ LoginCandidate(r) \/ LoginEmployer(r) \/ LoginStaff(r)
       \/ CandidatePage(r) \/ EmployerPage(r) \/ StaffPage(r)
       \/ CandidateRotate(r) \/ EmployerRotate(r) \/ StaffRotate(r)
       \/ Logout(r)
       \/ LoginArrives(r) \/ PageArrives(r) \/ RotateArrives(r)
       \/ LogoutArrives(r)
  \/ PatchUser /\ UNCHANGED webVars
  \/ \E t \in TokenIds : Expire(t) /\ UNCHANGED webVars

Spec == Init /\ [][Next]_vars

-----------------------------------------------------------------------------
(* Properties.                                                             *)

\* An employer's or staff session that can still be refreshed is of a user who
\* has that role now: the API has "one refresh endpoint for all roles" and
\* answers with the role of the row, so only the version stops the cookie of an
\* employer from turning into the session of a moderator after a change of
\* role.  Of the cookie of candidates it does not hold: CandidateRotate.
CookiesFollowRole ==
  \A k \in {"employer", "staff"} :
    LET s == jar[k] IN
    s # Null /\ s.tokenVersion = users[s.user].tokenVersion
      => users[s.user].role \in RolesOf(k)

Accepted == {s \in signed : s.tokenVersion = users[s.user].tokenVersion}
Shown(s) == [user |-> s.user, password |-> s.password, role |-> s.role]

AccountRows ==
  [u \in Users |-> [role |-> users[u].role, password |-> users[u].password,
                    verified |-> users[u].verified]]
OpenSessions == {Shown(s) : s \in Accepted}

\* TLC knows that Null is no record; the prover has to be told.
ASSUME NullIsNoLink ==
  Null \notin [user : Users, purpose : Purpose, spent : BOOLEAN]
LinkRows ==
  [t \in TokenIds |->
    IF tokens[t] = Null THEN Null
    ELSE [user |-> tokens[t].user, purpose |-> tokens[t].purpose,
          spent |-> tokens[t].used]]

\* However logins, refreshes, links, role changes and aborts overlap, passwords,
\* sessions and links change as AccountAccess changes them, one whole request
\* at a time (login, refreshTokens, issueAuthToken, consumeAuthToken and what
\* follows it, patchUser).
Access == INSTANCE AccountAccess WITH
  account <- AccountRows, open <- OpenSessions, links <- LinkRows
AccessSpec == Access!Spec
=============================================================================
