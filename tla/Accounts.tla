------------------------------- MODULE Accounts -------------------------------
(***************************************************************************)
(* Accounts: the links mailed to verify an address, reset a password and   *)
(* accept an invitation; login and refresh; an administrator who changes a *)
(* role.                                                                   *)
(*                                                                         *)
(* A request is a step per statement whose result it uses later.  Hashing  *)
(* and signing take no state.  A password is a number, 0: none.  A session *)
(* stands for a refresh token; its password and role are history: those of *)
(* the login it goes back to.  Access tokens live 15 minutes whatever      *)
(* happens and are left out, and so are mail delivery and rate limits.     *)
(***************************************************************************)
EXTENDS Naturals, FiniteSets

CONSTANTS
  Users,
  TokenIds,   \* bound on links
  Requests,   \* requests the API is serving
  MaxVersion, \* bound on token_version
  FirstRoles, \* those of the accounts there are at the start
  GivenRoles, \* those an administrator gives
  Refused,    \* the answer 401
  Null

Role == {"candidate", "employer", "moderator", "admin"}

ASSUME AccountsAssumptions ==
  /\ Null \notin Users \cup TokenIds \cup {Refused}
  /\ MaxVersion \in Nat
  /\ FirstRoles \cup GivenRoles \subseteq Role

VARIABLES
  users,   \* rows
  tokens,  \* auth_tokens, Null: not issued
  signed,  \* the refresh tokens there are
  reqs,
  answer   \* what a request was answered last

accountVars == <<users, tokens, signed, reqs, answer>>

Purpose == {"email_verify", "password_reset", "account_invite"}
Versions == 0..MaxVersion

User == [role : Role, password : 0..(MaxVersion + 1), tokenVersion : Versions,
         verified : BOOLEAN]
Session == [user : Users, tokenVersion : Versions,
            password : 0..(MaxVersion + 1), role : Role]
\* known (history): those of its user and purpose there were when it was asked
\* for.
Token == [user : Users, purpose : Purpose, used : BOOLEAN, expired : BOOLEAN,
          uses : 0..2, known : SUBSET TokenIds]

ASSUME NullIsNoToken == Null \notin Token

Pc == {"idle", "issue", "insert", "apply", "verify", "refresh"}
Request == [pc : Pc, user : Users \cup {Null}, purpose : Purpose \cup {Null},
            token : TokenIds \cup {Null}, known : SUBSET TokenIds,
            seen : SUBSET TokenIds, row : User \cup {Null},
            session : Session \cup {Null}]
Idle == [pc |-> "idle", user |-> Null, purpose |-> Null, token |-> Null,
         known |-> {}, seen |-> {}, row |-> Null, session |-> Null]

AccountsTypeOK ==
  /\ users \in [Users -> User]
  /\ tokens \in [TokenIds -> Token \cup {Null}]
  /\ signed \subseteq Session
  /\ reqs \in [Requests -> Request]
  /\ answer \in [Requests -> Session \cup {Refused, Null}]

\* Accounts as sign-up (a password) and staff (none yet) leave them.
AccountsInit ==
  /\ users \in [Users -> [role : FirstRoles, password : {0, 1},
                          tokenVersion : {0}, verified : {FALSE}]]
  /\ tokens = [t \in TokenIds |-> Null]
  /\ signed = {}
  /\ reqs = [r \in Requests |-> Idle]
  /\ answer = [r \in Requests |-> Null]

Issued == {t \in TokenIds : tokens[t] # Null}
At(pc) == {r \in Requests : reqs[r].pc = pc}
Begin(r, req) ==
  /\ reqs[r].pc = "idle"
  /\ reqs' = [reqs EXCEPT ![r] = req]
  /\ answer' = [answer EXCEPT ![r] = Null]
Done(r) == reqs' = [reqs EXCEPT ![r] = Idle]

-----------------------------------------------------------------------------
(* Asking for a link.                                                      *)

LinksOf(u, p) == {t \in Issued : tokens[t].user = u /\ tokens[t].purpose = p}

Ask(r, u, p) ==
  /\ Begin(r, [Idle EXCEPT !.pc = "issue", !.user = u, !.purpose = p,
                           !.known = LinksOf(u, p)])
  /\ UNCHANGED <<users, tokens, signed>>

\* requestPasswordReset; for a sign-up, sendVerification.
AskReset(r) == \E u \in Users : Ask(r, u, "password_reset")

\* resendVerification
AskVerification(r) ==
  \E u \in Users : ~users[u].verified /\ Ask(r, u, "email_verify")

\* StaffAccountsService.resendInvite: an account without a password.
AskInvite(r) ==
  \E u \in Users : users[u].password = 0 /\ Ask(r, u, "account_invite")

Unused(u, p) == {t \in LinksOf(u, p) : ~tokens[t].used}

\* Rows locked by requests that are consuming them.
Consuming == {reqs[r].token : r \in At("apply")}

\* Mutant: links being consumed are passed over (SKIP LOCKED).
IssueVoidSkipsLocked(r) ==
  /\ reqs[r].pc = "issue"
  /\ reqs' = [reqs EXCEPT ![r].pc = "insert",
       ![r].seen = Unused(reqs[r].user, reqs[r].purpose) \ Consuming]
  /\ UNCHANGED <<users, tokens, signed, answer>>

\* issueAuthToken: the UPDATE that voids older links finds them when it starts.
IssueVoid(r) ==
  /\ reqs[r].pc = "issue"
  /\ reqs' = [reqs EXCEPT ![r].pc = "insert",
                ![r].seen = Unused(reqs[r].user, reqs[r].purpose)]
  /\ UNCHANGED <<users, tokens, signed, answer>>

\* ... waits for those being consumed, and commits with the new one.
IssueInsert(r) ==
  /\ reqs[r].pc = "insert" /\ reqs[r].seen \cap Consuming = {}
  /\ \E t \in TokenIds \ Issued :
       tokens' = [s \in TokenIds |->
         IF s = t
         THEN [user |-> reqs[r].user, purpose |-> reqs[r].purpose,
               used |-> FALSE, expired |-> FALSE, uses |-> 0,
               known |-> reqs[r].known]
         ELSE IF s \in reqs[r].seen THEN [tokens[s] EXCEPT !.used = TRUE]
         ELSE tokens[s]]
  /\ Done(r)
  /\ UNCHANGED <<users, signed, answer>>

\* Of a used link it makes no difference.
Expire(t) ==
  /\ t \in Issued /\ ~tokens[t].used /\ ~tokens[t].expired
  /\ tokens' = [tokens EXCEPT ![t].expired = TRUE]
  /\ UNCHANGED <<users, signed, reqs, answer>>

-----------------------------------------------------------------------------
(* Following a link: verifyEmail, resetPassword, acceptInvite.             *)

Works(t) == ~tokens[t].used /\ ~tokens[t].expired

\* Mutant: the row is read without a lock.
ConsumeLockNotHeld(r) ==
  /\ \E t \in Issued :
       Works(t) /\ Begin(r, [Idle EXCEPT !.pc = "apply", !.token = t])
  /\ UNCHANGED <<users, tokens, signed>>

\* consumeAuthToken: SELECT FOR UPDATE waits for whoever consumes the link;
\* one that is used or expired is refused and nothing changes.
ConsumeLock(r) ==
  /\ \E t \in Issued \ Consuming :
       Works(t) /\ Begin(r, [Idle EXCEPT !.pc = "apply", !.token = t])
  /\ UNCHANGED <<users, tokens, signed>>

\* Marks the token used and commits with what the link is for.
Apply(r, effect) ==
  LET t == reqs[r].token  u == tokens[t].user IN
  /\ reqs[r].pc = "apply"
  /\ tokens' = [tokens EXCEPT ![t].used = TRUE, ![t].uses = @ + 1]
  /\ users' = [users EXCEPT ![u] = effect]
  /\ Done(r)
  /\ UNCHANGED <<signed, answer>>

For(r) == tokens[reqs[r].token].purpose
OwnerOf(r) == tokens[reqs[r].token].user

VerifyEmail(r) ==
  /\ reqs[r].pc = "apply" /\ For(r) = "email_verify"
  /\ Apply(r, [users[OwnerOf(r)] EXCEPT !.verified = TRUE])

\* A new password, every session signed out, the mailbox proved.
SetPasswordFromLink(r) ==
  LET u == users[OwnerOf(r)] IN
  /\ reqs[r].pc = "apply" /\ For(r) # "email_verify"
  /\ u.tokenVersion < MaxVersion
  /\ Apply(r, [u EXCEPT !.password = @ + 1, !.tokenVersion = @ + 1,
                        !.verified = TRUE])

-----------------------------------------------------------------------------
(* Sessions.                                                               *)

\* One SELECT for role, hash and version; roles: those the route is for.
LoginRead(r, roles) ==
  /\ \E u \in Users :
       /\ users[u].role \in roles /\ users[u].password # 0
       /\ Begin(r, [Idle EXCEPT !.pc = "verify", !.user = u,
                                !.row = users[u]])
  /\ UNCHANGED <<users, tokens, signed>>

Sign(r, s) ==
  /\ signed' = signed \cup {s}
  /\ answer' = [answer EXCEPT ![r] = s]
  /\ Done(r)
  /\ UNCHANGED <<users, tokens>>

\* Mutant: the version is read again when the token is signed.
LoginSignAfresh(r) ==
  LET row == reqs[r].row IN
  /\ reqs[r].pc = "verify"
  /\ Sign(r, [user |-> reqs[r].user, role |-> row.role,
              tokenVersion |-> users[reqs[r].user].tokenVersion,
              password |-> row.password])

\* verifyPassword against the hash that was read, then the token.  A wrong
\* password only gets an answer.
LoginSign(r) ==
  LET row == reqs[r].row IN
  /\ reqs[r].pc = "verify"
  /\ Sign(r, [user |-> reqs[r].user, role |-> row.role,
              tokenVersion |-> row.tokenVersion, password |-> row.password])

\* refreshTokens: the version of the token must be that of the row; the new
\* token carries the version of the row that was read, the same.
Refresh(r, s) ==
  /\ Begin(r, [Idle EXCEPT !.pc = "refresh", !.session = s])
  /\ UNCHANGED <<users, tokens, signed>>

RefreshAnswer(r) ==
  LET s == reqs[r].session IN
  /\ reqs[r].pc = "refresh"
  /\ IF users[s.user].tokenVersion = s.tokenVersion
     THEN Sign(r, s)
     ELSE /\ answer' = [answer EXCEPT ![r] = Refused]
          /\ Done(r)
          /\ UNCHANGED <<users, tokens, signed>>

-----------------------------------------------------------------------------
(* AdminService.patchUser: by another user, who is an administrator.       *)

\* Mutant: a role change leaves the sessions there are.
PatchUserKeepsSessions ==
  /\ \E u \in Users, role \in GivenRoles : users' = [users EXCEPT ![u].role = role]
  /\ UNCHANGED <<tokens, signed, reqs, answer>>

\* What it read before decides on the audit entry, and on a refusal to demote
\* the last administrator.
PatchUser ==
  /\ \E u \in Users, role \in GivenRoles :
       /\ users[u].tokenVersion < MaxVersion
       /\ users' = [users EXCEPT ![u].role = role, ![u].tokenVersion = @ + 1]
  /\ UNCHANGED <<tokens, signed, reqs, answer>>

\* The API dies: nothing uncommitted stays.
Abort(r) ==
  /\ reqs[r].pc # "idle"
  /\ Done(r)
  /\ UNCHANGED <<users, tokens, signed, answer>>

Serve(r) ==
  \/ AskReset(r) \/ AskVerification(r) \/ AskInvite(r)
  \/ IssueVoid(r) \/ IssueInsert(r)
  \/ ConsumeLock(r) \/ VerifyEmail(r) \/ SetPasswordFromLink(r)
  \/ LoginSign(r) \/ RefreshAnswer(r)
  \/ Abort(r)

-----------------------------------------------------------------------------
(* Properties.                                                             *)

\* A link works once, followed twice at the same time included ("Row-locked
\* so it works exactly once", auth-tokens.ts).
LinkWorksOnce == \A t \in Issued : tokens[t].uses <= 1

\* A link is void as soon as a later one is sent: two of one user and purpose
\* are unused together only if they were asked for at overlapping times, even
\* while a link is followed and the request that follows it fails
\* (issueAuthToken).
NewLinkVoidsOlder ==
  \A t \in Issued : \A o \in tokens[t].known : tokens[o].used

\* A session that can still be refreshed goes back to a login with the current
\* password, in the current role: a reset and a role change sign out every
\* session, those being signed or refreshed meanwhile included.
AcceptedSessionsAreCurrent ==
  \A s \in signed :
    LET u == users[s.user] IN
    s.tokenVersion = u.tokenVersion
      => s.password = u.password /\ s.role = u.role
=============================================================================
