---------------------------- MODULE AccountAccess ----------------------------
(***************************************************************************)
(* What accounts promise, one whole request at a time: a session opens     *)
(* with the password and the role there are, and a new password or role    *)
(* closes every session of its user; a link does what it is for once, and  *)
(* issuing one spends only links of the same person and purpose.           *)
(***************************************************************************)
EXTENDS Naturals

CONSTANTS Users, TokenIds, Role, Purpose, Null

VARIABLES
  account, \* role, password (0: none) and whether the address is verified
  open,    \* sessions that can be refreshed, with what they were opened with
  links    \* whose, what for and whether spent, Null: not issued

access == <<account, open, links>>

Init ==
  /\ account \in [Users -> [role : Role, password : {0, 1}, verified : {FALSE}]]
  /\ open = {}
  /\ links = [t \in TokenIds |-> Null]

Credentials(u) ==
  [user |-> u, password |-> account[u].password, role |-> account[u].role]
CloseSessions(u) == open' = {s \in open : s.user # u}

SignIn(u) ==
  /\ UNCHANGED <<account, links>>
  /\ account[u].password # 0
  /\ open' = open \cup {Credentials(u)}

ChangeRole(u) ==
  /\ UNCHANGED links
  /\ CloseSessions(u)
  /\ \E role \in Role : account' = [account EXCEPT ![u].role = role]

Unspent(u, p) ==
  {t \in TokenIds : /\ links[t] # Null /\ ~links[t].spent
                    /\ links[t].user = u /\ links[t].purpose = p}

\* One asked for at the same time may stay unspent.
Issue(t) ==
  /\ links[t] = Null /\ links'[t] # Null
  /\ \E u \in Users, p \in Purpose : \E S \in SUBSET Unspent(u, p) :
       links' = [s \in TokenIds |->
         IF s = t THEN [user |-> u, purpose |-> p, spent |-> FALSE]
         ELSE IF s \in S THEN [links[s] EXCEPT !.spent = TRUE]
         ELSE links[s]]
  /\ UNCHANGED <<account, open>>

Follow(t) ==
  LET u == links[t].user IN
  /\ links[t] # Null /\ ~links[t].spent
  /\ links' = [links EXCEPT ![t].spent = TRUE]
  /\ IF links[t].purpose = "email_verify"
     THEN /\ account' = [account EXCEPT ![u].verified = TRUE]
          /\ UNCHANGED open
     ELSE /\ account' = [account EXCEPT ![u].password = @ + 1,
                                        ![u].verified = TRUE]
          /\ CloseSessions(u)

Next ==
  \/ \E u \in Users : SignIn(u) \/ ChangeRole(u)
  \/ \E t \in TokenIds : Issue(t) \/ Follow(t)

Spec == Init /\ [][Next]_access
=============================================================================
