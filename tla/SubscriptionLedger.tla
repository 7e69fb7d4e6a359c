------------------------- MODULE SubscriptionLedger -------------------------
(***************************************************************************)
(* What the locks of billing are to buy: purchases, payments and           *)
(* cancellations look as if they were made one after the other, each at    *)
(* once and whole.  A book lists the subscriptions its documents are for;  *)
(* the number of a document is its place in the book, so every document    *)
(* is the next one, and none is ever removed, replaced or skipped.         *)
(***************************************************************************)
EXTENDS Sequences, Integers, FiniteSets

CONSTANTS Subs, Enterprise, Companies, Promos, Price, MaxRedemptions,
          MaxPerCompany, Null

VARIABLES status, company, redemptions, isActive, proformas, invoices

ledger == <<status, company, redemptions, isActive, proformas, invoices>>

Init ==
  /\ status = [s \in Subs |-> IF s \in Enterprise THEN "pending_payment"
                                                  ELSE "absent"]
  /\ company \in [Subs -> Companies \cup {Null}]
  /\ redemptions = {}
  /\ isActive \in [Promos -> BOOLEAN]
  /\ proformas = << >> /\ invoices = << >>

Listed(s, book) == \E n \in DOMAIN book : book[n] = s

\* Company c may use promo p now.
Usable(p, c) ==
  /\ isActive[p]
  /\ MaxRedemptions[p] # Null =>
       Cardinality({r \in redemptions : r[1] = p}) < MaxRedemptions[p]
  /\ MaxPerCompany[p] # Null =>
       Cardinality({r \in redemptions : r[1] = p /\ r[2] = c})
         < MaxPerCompany[p]

\* A promo may make the purchase free; otherwise a proforma asks for money.
Purchase(s, c, p) ==
  /\ status[s] = "absent"
  /\ company' = [company EXCEPT ![s] = c]
  /\ p # Null => Usable(p, c)
  /\ redemptions' = IF p = Null THEN redemptions
                                ELSE redemptions \cup {<<p, c, s>>}
  /\ \/ /\ p # Null /\ Price[p] = 0
        /\ status' = [status EXCEPT ![s] = "active"]
        /\ UNCHANGED proformas
     \/ /\ p = Null \/ Price[p] # 0
        /\ status' = [status EXCEPT ![s] = "pending_payment"]
        /\ proformas' = Append(proformas, s)
  /\ UNCHANGED <<isActive, invoices>>

\* What is paid was asked for, or entered by hand, and is paid once.
Pay(s) ==
  /\ status[s] = "pending_payment"
  /\ s \in Enterprise \/ Listed(s, proformas)
  /\ ~Listed(s, invoices)
  /\ status' = [status EXCEPT ![s] = "active"]
  /\ invoices' = Append(invoices, s)
  /\ UNCHANGED <<company, redemptions, isActive, proformas>>

End(s, from, to) ==
  /\ status[s] \in from
  /\ status' = [status EXCEPT ![s] = to]
  /\ UNCHANGED <<company, redemptions, isActive, proformas, invoices>>

\* Purchases nobody paid for are given up, with the promos they used.
Abandon(S) ==
  /\ \A s \in S : status[s] = "pending_payment"
  /\ status' = [s \in Subs |-> IF s \in S THEN "cancelled" ELSE status[s]]
  /\ redemptions' = {r \in redemptions : r[3] \notin S}
  /\ UNCHANGED <<company, isActive, proformas, invoices>>

Toggle(p) ==
  /\ isActive' = [isActive EXCEPT ![p] = ~isActive[p]]
  /\ UNCHANGED <<status, company, redemptions, proformas, invoices>>

Next ==
  \/ \E s \in Subs :
       \/ \E c \in Companies, p \in Promos \cup {Null} : Purchase(s, c, p)
       \/ Pay(s)
       \/ End(s, {"active"}, "expired")
       \/ End(s, {"pending_payment", "active"}, "cancelled")
  \/ \E S \in SUBSET Subs : Abandon(S)
  \/ \E p \in Promos : Toggle(p)

Spec == Init /\ [][Next]_ledger
=============================================================================
