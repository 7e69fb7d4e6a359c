------------------------------- MODULE Billing -------------------------------
(***************************************************************************)
(* Subscriptions and money: purchase with promo codes and campaigns, mark  *)
(* paid, enterprise activation, cancellation, the two worker sweeps over   *)
(* subscriptions, and the numbering of proformas and invoices.             *)
(*                                                                         *)
(* Each operation is one READ COMMITTED transaction.  The long ones take   *)
(* row locks (SELECT ... FOR UPDATE) and the advisory lock of a number     *)
(* sequence one after the other; here a step per lock.  What such a        *)
(* transaction writes nobody sees before it commits, so its writes are     *)
(* made at the commit, and an abort only gives the locks back.  Years,     *)
(* amounts and PDFs are left out: one year, one price list.                *)
(***************************************************************************)
EXTENDS Integers, FiniteSets

CONSTANTS
  Subs,            \* ids of subscriptions
  Enterprise,      \* the GAZDA ones, entered by hand without a proforma
  Companies,
  Codes,           \* promo codes a buyer types
  Campaigns,       \* promo codes that apply by themselves
  Price,           \* what a purchase costs with a promo
  MaxRedemptions,  \* per promo, or Null
  MaxPerCompany,   \* per promo, or Null
  Requests,        \* API requests
  Sweepers,        \* workers running cancelAbandonedUnpaidSubscriptions
  BatchSize,       \* subscriptions one sweep takes
  Null

Promos == Codes \cup Campaigns
Transactions == Requests \cup Sweepers

ASSUME BillingAssumptions ==
  /\ Enterprise \subseteq Subs /\ IsFiniteSet(Subs)
  /\ Codes \cap Campaigns = {} /\ Requests \cap Sweepers = {}
  /\ Price \in [Promos -> Nat]
  /\ MaxRedemptions \in [Promos -> Nat \cup {Null}]
  /\ MaxPerCompany \in [Promos -> Nat \cup {Null}]
  /\ BatchSize \in Nat
  /\ Null \notin Nat \cup Subs \cup Companies \cup Promos \cup Transactions

VARIABLES
  status, company,              \* columns of subscriptions
  proformaNumber, paid, voided, \* the subscription's proforma; 0: none
  invoiceNumber,                \* the subscription's invoice; 0: none
  lastValue,                    \* billing_sequences
  redemptions,                  \* promo_redemptions
  redemptionsCount, isActive,   \* columns of promo_codes
  subLock, promoLock, numberLock,
  tx                            \* the open transactions

subscription == <<status, company>>
documents == <<proformaNumber, paid, voided, invoiceNumber, lastValue>>
promo == <<redemptions, redemptionsCount, isActive>>
locks == <<subLock, promoLock, numberLock>>
vars == <<subscription, documents, promo, locks, tx>>

Status == {"absent", "pending_payment", "active", "expired", "cancelled"}
Kinds == {"proforma", "invoice"}
Pc == {"idle", "typed", "campaign", "proforma", "purchase", "subscription",
       "invoice", "markPaid", "release"}

NoTx == [pc |-> "idle", company |-> Null, typed |-> Null, promo |-> Null,
         number |-> 0, sub |-> Null, swept |-> {}, left |-> {}]

TypeOK ==
  /\ status \in [Subs -> Status]
  /\ company \in [Subs -> Companies \cup {Null}]
  /\ proformaNumber \in [Subs -> Nat] /\ invoiceNumber \in [Subs -> Nat]
  /\ paid \in [Subs -> BOOLEAN] /\ voided \in [Subs -> BOOLEAN]
  /\ lastValue \in [Kinds -> Nat]
  /\ redemptions \subseteq Promos \X Companies \X Subs
  /\ redemptionsCount \in [Promos -> Nat]
  /\ isActive \in [Promos -> BOOLEAN]
  /\ subLock \in [Subs -> Transactions \cup {Null}]
  /\ promoLock \in [Promos -> Transactions \cup {Null}]
  /\ numberLock \in [Kinds -> Transactions \cup {Null}]
  /\ tx \in [Transactions ->
               [pc : Pc, company : Companies \cup {Null},
                typed : Codes \cup {Null}, promo : Promos \cup {Null},
                number : Nat, sub : Subs \cup {Null},
                swept : SUBSET Subs, left : SUBSET Subs]]

Init ==
  /\ status = [s \in Subs |-> IF s \in Enterprise THEN "pending_payment"
                                                  ELSE "absent"]
  /\ company \in {c \in [Subs -> Companies \cup {Null}] :
                    \A s \in Subs : c[s] = Null <=> s \notin Enterprise}
  /\ proformaNumber = [s \in Subs |-> 0] /\ invoiceNumber = [s \in Subs |-> 0]
  /\ paid = [s \in Subs |-> FALSE] /\ voided = [s \in Subs |-> FALSE]
  /\ lastValue = [k \in Kinds |-> 0]
  /\ redemptions = {}
  /\ redemptionsCount = [p \in Promos |-> 0]
  /\ isActive \in {a \in [Promos -> BOOLEAN] :
                     \A p, q \in Campaigns : a[p] /\ a[q] => p = q}
  /\ subLock = [s \in Subs |-> Null]
  /\ promoLock = [p \in Promos |-> Null]
  /\ numberLock = [k \in Kinds |-> Null]
  /\ tx = [t \in Transactions |-> NoTx]

-----------------------------------------------------------------------------
(* Transactions.                                                           *)

Free(lock, t) == [x \in DOMAIN lock |-> IF lock[x] = t THEN Null ELSE lock[x]]

\* Commit and rollback alike.
Release(t) ==
  /\ subLock' = Free(subLock, t)
  /\ promoLock' = Free(promoLock, t)
  /\ numberLock' = Free(numberLock, t)
  /\ tx' = [tx EXCEPT ![t] = NoTx]

GoOn(t, pc) == tx' = [tx EXCEPT ![t].pc = pc]

\* The connection or the process dies, the NBS rate cannot be fetched, or
\* Postgres picks the transaction to break a deadlock.
Abort(t) ==
  /\ tx[t].pc # "idle"
  /\ Release(t)
  /\ UNCHANGED <<subscription, documents, promo>>

\* A check failed: a coded error, and the transaction is rolled back.
Refuse(t) ==
  /\ Release(t)
  /\ UNCHANGED <<subscription, documents, promo>>

-----------------------------------------------------------------------------
(* createEmployerPurchase.                                                 *)

BeginPurchase(t) ==
  /\ tx[t].pc = "idle"
  /\ \E c \in Companies, p \in Codes \cup {Null} :
       tx' = [tx EXCEPT ![t] =
                [NoTx EXCEPT !.pc = IF p = Null THEN "campaign" ELSE "typed",
                             !.company = c, !.typed = p]]
  /\ UNCHANGED <<subscription, documents, promo, locks>>

RedeemedBy(p, c) == {r \in redemptions : r[1] = p /\ r[2] = c}

\* Mutant: the per-company limit is off by one.
PromoRefusedLate(p, c) ==
  \/ ~isActive[p]
  \/ /\ MaxPerCompany[p] # Null
     /\ Cardinality(RedeemedBy(p, c)) > MaxPerCompany[p]

PromoRefused(p, c) ==
  \/ ~isActive[p]
  \/ /\ MaxPerCompany[p] # Null
     /\ Cardinality(RedeemedBy(p, c)) >= MaxPerCompany[p]

SoldOut(p) ==
  MaxRedemptions[p] # Null /\ redemptionsCount[p] >= MaxRedemptions[p]

\* Mutant: the promo is read without FOR UPDATE.
LockTypedNotHeld(t) ==
  /\ tx[t].pc = "typed"
  /\ IF PromoRefused(tx[t].typed, tx[t].company)
     THEN Refuse(t)
     ELSE /\ GoOn(t, "campaign")
          /\ UNCHANGED <<subscription, documents, promo, locks>>

LockTyped(t) ==
  LET p == tx[t].typed IN
  /\ tx[t].pc = "typed"
  /\ promoLock[p] = Null
  /\ IF PromoRefused(p, tx[t].company)
     THEN Refuse(t)
     ELSE /\ promoLock' = [promoLock EXCEPT ![p] = t]
          /\ GoOn(t, "campaign")
          /\ UNCHANGED <<subscription, documents, promo, subLock, numberLock>>

\* One discount per purchase: the lower price, the typed code on a tie.
Choose(typed, campaign) ==
  IF typed # Null /\ campaign # Null
  THEN IF Price[campaign] < Price[typed] THEN campaign ELSE typed
  ELSE IF typed # Null THEN typed ELSE campaign

AfterPromo(p) ==
  IF p # Null /\ Price[p] = 0 THEN "purchase" ELSE "proforma"

\* The running campaign is locked even when it cannot apply.
LockCampaign(t, p) ==
  LET applies == ~PromoRefused(p, tx[t].company) /\ ~SoldOut(p)
      chosen == Choose(tx[t].typed, IF applies THEN p ELSE Null) IN
  /\ tx[t].pc = "campaign"
  /\ isActive[p]
  /\ promoLock[p] = Null
  /\ promoLock' = [promoLock EXCEPT ![p] = t]
  /\ tx' = [tx EXCEPT ![t].promo = chosen, ![t].pc = AfterPromo(chosen)]
  /\ UNCHANGED <<subscription, documents, promo, subLock, numberLock>>

NoCampaign(t) ==
  /\ tx[t].pc = "campaign"
  /\ \A p \in Campaigns : ~isActive[p]
  /\ tx' = [tx EXCEPT ![t].promo = tx[t].typed,
                      ![t].pc = AfterPromo(tx[t].typed)]
  /\ UNCHANGED <<subscription, documents, promo, locks>>

\* The next number of a sequence, kept until the transaction commits it.
TakeNumber(t, kind, next) ==
  tx' = [tx EXCEPT ![t].number = lastValue[kind] + 1, ![t].pc = next]

\* Mutant: the advisory lock does not outlive its statement.
LockNumberNotHeld(t, kind, next) ==
  /\ tx[t].pc = kind
  /\ numberLock[kind] = Null
  /\ TakeNumber(t, kind, next)
  /\ UNCHANGED <<subscription, documents, promo, locks>>

\* BillingNumberingService.allocate: the advisory lock is held to the commit.
LockNumber(t, kind, next) ==
  /\ tx[t].pc = kind
  /\ numberLock[kind] = Null
  /\ numberLock' = [numberLock EXCEPT ![kind] = t]
  /\ TakeNumber(t, kind, next)
  /\ UNCHANGED <<subscription, documents, promo, subLock, promoLock>>

AllocateProforma(t) == LockNumber(t, "proforma", "purchase")

\* The conditional increment, the redemption, the subscription, the commit.
CommitPurchase(t) ==
  LET p == tx[t].promo IN
  /\ tx[t].pc = "purchase"
  /\ IF p # Null /\ SoldOut(p) THEN Refuse(t) ELSE
     /\ \E s \in Subs :
          /\ status[s] = "absent"
          /\ company' = [company EXCEPT ![s] = tx[t].company]
          /\ IF AfterPromo(p) = "purchase"
             THEN /\ status' = [status EXCEPT ![s] = "active"]
                  /\ UNCHANGED <<proformaNumber, lastValue>>
             ELSE /\ status' = [status EXCEPT ![s] = "pending_payment"]
                  /\ lastValue' = [lastValue EXCEPT !["proforma"] =
                                     tx[t].number]
                  /\ proformaNumber' = [proformaNumber EXCEPT ![s] =
                                          tx[t].number]
          /\ IF p = Null
             THEN UNCHANGED <<redemptions, redemptionsCount>>
             ELSE /\ redemptions' = redemptions \cup {<<p, tx[t].company, s>>}
                  /\ redemptionsCount' = [redemptionsCount EXCEPT ![p] =
                                            redemptionsCount[p] + 1]
     /\ Release(t)
     /\ UNCHANGED <<paid, voided, invoiceNumber, isActive>>

-----------------------------------------------------------------------------
(* Mark paid, enterprise activation, cancellation.                         *)

BeginMarkPaid(t) ==
  /\ tx[t].pc = "idle"
  /\ \E s \in Subs :
       /\ status[s] # "absent"
       /\ tx' = [tx EXCEPT ![t] = [NoTx EXCEPT !.pc = "subscription",
                                               !.sub = s]]
  /\ UNCHANGED <<subscription, documents, promo, locks>>

\* Mutant: the subscription is read without FOR UPDATE.
LockSubscriptionUnlocked(t) ==
  LET s == tx[t].sub IN
  /\ tx[t].pc = "subscription"
  /\ IF status[s] = "pending_payment" THEN GoOn(t, "invoice")
                                      ELSE tx' = [tx EXCEPT ![t] = NoTx]
  /\ UNCHANGED <<subscription, documents, promo, locks>>

\* A moderator marks a proforma paid; an admin activates an enterprise
\* subscription, which need not have one.
LockSubscription(t) ==
  LET s == tx[t].sub IN
  /\ tx[t].pc = "subscription"
  /\ subLock[s] = Null
  /\ IF /\ status[s] = "pending_payment"
        /\ s \in Enterprise \/ (proformaNumber[s] # 0 /\ ~voided[s])
     THEN /\ subLock' = [subLock EXCEPT ![s] = t]
          /\ GoOn(t, "invoice")
          /\ UNCHANGED <<subscription, documents, promo, promoLock, numberLock>>
     ELSE Refuse(t)

AllocateInvoice(t) == LockNumber(t, "invoice", "markPaid")

\* invoices_subscription_live_unique refuses a second invoice: an error 500.
CommitMarkPaid(t) ==
  LET s == tx[t].sub IN
  /\ tx[t].pc = "markPaid"
  /\ IF invoiceNumber[s] # 0 THEN Refuse(t) ELSE
     /\ status' = [status EXCEPT ![s] = "active"]
     /\ lastValue' = [lastValue EXCEPT !["invoice"] = tx[t].number]
     /\ invoiceNumber' = [invoiceNumber EXCEPT ![s] = tx[t].number]
     /\ paid' = [paid EXCEPT ![s] = proformaNumber[s] # 0]
     /\ Release(t)
     /\ UNCHANGED <<company, proformaNumber, voided, promo>>

\* canTransition
MayCancel == {"pending_payment", "active"}

\* One lock only, so one step.  The proforma and the redemption stay.
CancelByAdmin(s) ==
  /\ subLock[s] = Null
  /\ status[s] \in MayCancel
  /\ status' = [status EXCEPT ![s] = "cancelled"]
  /\ UNCHANGED <<company, documents, promo, locks, tx>>

\* expireSubscriptionsPastEndDate: ends_at is abstracted to "some".
Expire(s) ==
  /\ subLock[s] = Null
  /\ status[s] = "active"
  /\ status' = [status EXCEPT ![s] = "expired"]
  /\ UNCHANGED <<company, documents, promo, locks, tx>>

-----------------------------------------------------------------------------
(* cancelAbandonedUnpaidSubscriptions.                                     *)

\* Mutant: the select takes no locks.
SweepBeginUnlocked(t) ==
  /\ tx[t].pc = "idle"
  /\ \E S \in SUBSET {s \in Subs : status[s] = "pending_payment"} :
       /\ S # {} /\ Cardinality(S) <= BatchSize
       /\ tx' = [tx EXCEPT ![t] = [NoTx EXCEPT !.pc = "release",
                                               !.swept = S, !.left = S]]
  /\ UNCHANGED <<subscription, documents, promo, locks>>

\* FOR UPDATE SKIP LOCKED; being older than 14 days is abstracted to "some".
SweepBegin(t) ==
  /\ tx[t].pc = "idle"
  /\ \E S \in SUBSET {s \in Subs : /\ status[s] = "pending_payment"
                                   /\ subLock[s] = Null} :
       /\ S # {} /\ Cardinality(S) <= BatchSize
       /\ subLock' = [s \in Subs |-> IF s \in S THEN t ELSE subLock[s]]
       /\ tx' = [tx EXCEPT ![t] = [NoTx EXCEPT !.pc = "release",
                                               !.swept = S, !.left = S]]
  /\ UNCHANGED <<subscription, documents, promo, promoLock, numberLock>>

RedeemedFor(S) == {r \in redemptions : r[3] \in S}

\* One subscription after the other, in no particular order: the count of
\* its promo is decremented, which locks the row.
SweepOne(t, s) ==
  LET used == {r[1] : r \in RedeemedFor({s})} IN
  /\ tx[t].pc = "release"
  /\ s \in tx[t].left
  /\ \A p \in used : promoLock[p] \in {Null, t}
  /\ promoLock' = [p \in Promos |-> IF p \in used THEN t ELSE promoLock[p]]
  /\ tx' = [tx EXCEPT ![t].left = tx[t].left \ {s}]
  /\ UNCHANGED <<subscription, documents, promo, subLock, numberLock>>

\* Mutant: the redemptions are deleted, the counter is forgotten.
SweepCommitUncounted(t) ==
  LET S == tx[t].swept IN
  /\ tx[t].pc = "release"
  /\ tx[t].left = {}
  /\ status' = [s \in Subs |-> IF s \in S THEN "cancelled" ELSE status[s]]
  /\ voided' = [s \in Subs |-> voided[s] \/ (s \in S /\ proformaNumber[s] # 0)]
  /\ redemptions' = redemptions \ RedeemedFor(S)
  /\ Release(t)
  /\ UNCHANGED <<company, proformaNumber, paid, invoiceNumber, lastValue,
                 redemptionsCount, isActive>>

\* greatest(redemptions_count - 1, 0), once per redemption given back.
Decremented(count, n) == IF count > n THEN count - n ELSE 0

SweepCommit(t) ==
  LET S == tx[t].swept IN
  /\ tx[t].pc = "release"
  /\ tx[t].left = {}
  /\ status' = [s \in Subs |-> IF s \in S THEN "cancelled" ELSE status[s]]
  /\ voided' = [s \in Subs |-> voided[s] \/ (s \in S /\ proformaNumber[s] # 0)]
  /\ redemptions' = redemptions \ RedeemedFor(S)
  /\ redemptionsCount' =
       [p \in Promos |->
          Decremented(redemptionsCount[p],
                      Cardinality({r \in RedeemedFor(S) : r[1] = p}))]
  /\ Release(t)
  /\ UNCHANGED <<company, proformaNumber, paid, invoiceNumber, lastValue,
                 isActive>>

-----------------------------------------------------------------------------
\* An admin pauses or resumes a promo.  Campaigns that are active do not
\* overlap (assertNoOverlap, under a lock of its own).
TogglePromo(p) ==
  /\ promoLock[p] = Null
  /\ p \in Campaigns /\ ~isActive[p] =>
       \A q \in Campaigns \ {p} : ~isActive[q]
  /\ isActive' = [isActive EXCEPT ![p] = ~isActive[p]]
  /\ UNCHANGED <<subscription, documents, redemptions, redemptionsCount, locks,
                 tx>>

Request(t) ==
  \/ BeginPurchase(t) \/ LockTyped(t)
  \/ (\E p \in Campaigns : LockCampaign(t, p)) \/ NoCampaign(t)
  \/ AllocateProforma(t) \/ CommitPurchase(t)
  \/ BeginMarkPaid(t) \/ LockSubscription(t)
  \/ AllocateInvoice(t) \/ CommitMarkPaid(t)

Sweep(t) == \/ SweepBegin(t) \/ SweepCommit(t)
            \/ \E s \in Subs : SweepOne(t, s)

Next ==
  \/ \E t \in Requests : Request(t)
  \/ \E t \in Sweepers : Sweep(t)
  \/ \E t \in Transactions : Abort(t)
  \/ \E s \in Subs : CancelByAdmin(s) \/ Expire(s)
  \/ \E p \in Promos : TogglePromo(p)

Spec == Init /\ [][Next]_vars

-----------------------------------------------------------------------------
(* Properties.                                                             *)

\* The numbers of a kind are 1, 2, ... without a gap and without a double,
\* whatever is rolled back (BillingNumberingService, PRODUCT_SSOT 10).
GapFree(number, kind) ==
  /\ {number[s] : s \in Subs} \ {0} = 1..lastValue[kind]
  /\ \A s, u \in Subs : number[s] = number[u] /\ number[s] # 0 => s = u
NumbersAreGapFree ==
  GapFree(proformaNumber, "proforma") /\ GapFree(invoiceNumber, "invoice")

\* The books agree: what is paid has its invoice, what awaits payment has
\* none, a voided proforma was never paid and its subscription is cancelled.
\* (Then repairInvoicePaidButPendingSubscriptionStatus finds nothing.)
BooksAgree ==
  \A s \in Subs :
    /\ paid[s] => invoiceNumber[s] # 0
    /\ status[s] = "pending_payment" => invoiceNumber[s] = 0
    /\ voided[s] => ~paid[s] /\ status[s] = "cancelled"

\* A second click on "mark paid" is refused by the check of the status, it
\* never runs into the unique index (races.int.test.ts: "a clean 4xx, never
\* a 500").
LoserIsRefusedCleanly ==
  \A t \in Requests : tx[t].pc = "markPaid" => invoiceNumber[tx[t].sub] = 0

\* The counter of a promo counts its redemptions and keeps its limit, also
\* when an abandoned purchase gives its redemption back.
RedemptionsAreCounted ==
  \A p \in Promos :
    /\ redemptionsCount[p] = Cardinality({r \in redemptions : r[1] = p})
    /\ MaxRedemptions[p] # Null => redemptionsCount[p] <= MaxRedemptions[p]

\* No company redeems a promo more often than it may, with purchases in
\* parallel ("parallel requests could each pass the max_per_company check").
CompanyKeepsLimit ==
  \A p \in Promos, c \in Companies :
    MaxPerCompany[p] # Null => Cardinality(RedeemedBy(p, c)) <= MaxPerCompany[p]

\* The documents of a kind, in the order of their numbers.
Book(number, kind) ==
  [n \in 1..lastValue[kind] |-> CHOOSE s \in Subs : number[s] = n]

\* However its transactions overlap, abort and sweep, billing does what
\* SubscriptionLedger does one step at a time: the promo is still usable when
\* the purchase commits, the subscription still unpaid when it is paid, and
\* no document is renumbered (createEmployerPurchase, markProformaPaid,
\* cancelAbandonedUnpaidSubscriptions).
Ledger == INSTANCE SubscriptionLedger
            WITH proformas <- Book(proformaNumber, "proforma"),
                 invoices <- Book(invoiceNumber, "invoice")
LedgerSpec == Ledger!Spec
=============================================================================
