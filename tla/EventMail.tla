------------------------------ MODULE EventMail ------------------------------
(***************************************************************************)
(* What the outbox promises about mail: an event is committed, it is       *)
(* claimed once, and only then, and only if that is what it asks for, each *)
(* recipient of a notification may be mailed once, and its billing mail    *)
(* may be sent once.  Nothing is taken back.                               *)
(***************************************************************************)
EXTENDS Naturals

CONSTANTS Events, Kinds, Recipients

VARIABLES
  stage,       \* none, pending, processed
  kind,        \* what the event asks for
  mails,       \* notification mails by event and recipient
  billingMails \* billing mails by event

mailVars == <<stage, kind, mails, billingMails>>

Init ==
  /\ stage = [e \in Events |-> "none"]
  /\ kind \in [Events -> Kinds]
  /\ mails = [m \in Events \X Recipients |-> 0]
  /\ billingMails = [e \in Events |-> 0]

Commit(e) ==
  /\ stage[e] = "none"
  /\ stage' = [stage EXCEPT ![e] = "pending"]
  /\ UNCHANGED <<kind, mails, billingMails>>

Process(e) ==
  /\ stage[e] = "pending"
  /\ stage' = [stage EXCEPT ![e] = "processed"]
  /\ UNCHANGED <<kind, mails, billingMails>>

Mail(e, r) ==
  /\ stage[e] = "processed" /\ kind[e] = "notification"
  /\ mails[<<e, r>>] = 0
  /\ mails' = [mails EXCEPT ![<<e, r>>] = 1]
  /\ UNCHANGED <<stage, kind, billingMails>>

MailBilling(e) ==
  /\ stage[e] = "processed" /\ kind[e] = "billing"
  /\ billingMails[e] = 0
  /\ billingMails' = [billingMails EXCEPT ![e] = 1]
  /\ UNCHANGED <<stage, kind, mails>>

Next ==
  \E e \in Events :
    \/ Commit(e) \/ Process(e) \/ MailBilling(e)
    \/ \E r \in Recipients : Mail(e, r)

Spec == Init /\ [][Next]_mailVars
=============================================================================
