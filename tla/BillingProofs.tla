---------------------------- MODULE BillingProofs ----------------------------
(***************************************************************************)
(* Proofs about Billing, for any number of subscriptions, companies,       *)
(* promos and transactions, and any limits.                                *)
(*                                                                         *)
(* The inductive invariant says what each lock buys until the commit: a    *)
(* locked subscription awaits payment, a locked promo is below the limit   *)
(* of the company that buys, and a locked sequence continues at the number *)
(* its holder took.  The last section shows that Billing implements        *)
(* SubscriptionLedger.                                                     *)
(***************************************************************************)
EXTENDS Billing, FiniteSetTheorems, SequenceTheorems, TLAPS

Tx == [pc : Pc, company : Companies \cup {Null},
       typed : Codes \cup {Null}, promo : Promos \cup {Null},
       number : Nat, sub : Subs \cup {Null},
       swept : SUBSET Subs, left : SUBSET Subs]

Of(p) == {r \in redemptions : r[1] = p}
Usable(p, c) ==
  /\ isActive[p]
  /\ MaxPerCompany[p] # Null =>
       Cardinality(RedeemedBy(p, c)) < MaxPerCompany[p]

\* What transaction t, with record x, needs of its earlier steps.
Buying == {"typed", "campaign", "proforma", "purchase"}
Asked(x) ==
  /\ x.pc \in Buying => x.company \in Companies
  /\ x.pc = "typed" => x.typed \in Codes
  /\ x.pc \in {"subscription", "invoice", "markPaid"} => x.sub \in Subs
HoldsPromo(t, x) ==
  /\ x.pc = "campaign" /\ x.typed # Null =>
       promoLock[x.typed] = t /\ Usable(x.typed, x.company)
  /\ x.pc \in {"proforma", "purchase"} /\ x.promo # Null =>
       promoLock[x.promo] = t /\ Usable(x.promo, x.company)
HoldsNumber(t, x) ==
  /\ x.pc = "purchase" /\ AfterPromo(x.promo) = "proforma" =>
       numberLock["proforma"] = t /\ x.number = lastValue["proforma"] + 1
  /\ x.pc = "markPaid" =>
       numberLock["invoice"] = t /\ x.number = lastValue["invoice"] + 1
HoldsSub(t, x) ==
  /\ x.pc \in {"invoice", "markPaid"} =>
       subLock[x.sub] = t /\ status[x.sub] = "pending_payment"
  /\ x.pc = "release" =>
       \A s \in x.swept : subLock[s] = t /\ status[s] = "pending_payment"
Holds(t, x) ==
  Asked(x) /\ HoldsPromo(t, x) /\ HoldsNumber(t, x) /\ HoldsSub(t, x)

TxOK == /\ tx \in [Transactions -> Tx]
        /\ \A t \in Transactions : Holds(t, tx[t])

LocksOK ==
  /\ subLock \in [Subs -> Transactions \cup {Null}]
  /\ promoLock \in [Promos -> Transactions \cup {Null}]
  /\ numberLock \in [Kinds -> Transactions \cup {Null}]

SubsOK ==
  /\ status \in [Subs -> Status]
  /\ company \in [Subs -> Companies \cup {Null}]
  /\ proformaNumber \in [Subs -> Nat] /\ invoiceNumber \in [Subs -> Nat]
  /\ paid \in [Subs -> BOOLEAN] /\ voided \in [Subs -> BOOLEAN]
  /\ lastValue \in [Kinds -> Nat]
  /\ \A s \in Subs : status[s] = "absent" =>
       proformaNumber[s] = 0 /\ invoiceNumber[s] = 0
  /\ \A s \in Subs : status[s] = "pending_payment" =>
       s \in Enterprise \/ proformaNumber[s] # 0
  /\ NumbersAreGapFree
  /\ BooksAgree

PromosOK ==
  /\ redemptions \subseteq Promos \X Companies \X Subs
  /\ IsFiniteSet(redemptions)
  /\ \A r \in redemptions : status[r[3]] # "absent"
  /\ redemptionsCount \in [Promos -> Nat]
  /\ isActive \in [Promos -> BOOLEAN]
  /\ RedemptionsAreCounted
  /\ CompanyKeepsLimit

IInv == TxOK /\ LocksOK /\ SubsOK /\ PromosOK

\* What the invariant is for.
LEMMA IInvMeans ==
  ASSUME IInv
  PROVE  /\ TypeOK /\ NumbersAreGapFree /\ BooksAgree
         /\ LoserIsRefusedCleanly
         /\ RedemptionsAreCounted /\ CompanyKeepsLimit
<1>1. TypeOK
  BY DEF IInv, TxOK, LocksOK, SubsOK, PromosOK, TypeOK, Tx
<1>2. LoserIsRefusedCleanly
  <2> SUFFICES ASSUME NEW t \in Requests, tx[t].pc = "markPaid"
               PROVE  invoiceNumber[tx[t].sub] = 0
      BY DEF LoserIsRefusedCleanly
  <2>1. Holds(t, tx[t])
    BY DEF IInv, TxOK, Transactions
  <2>2. tx[t].sub \in Subs /\ status[tx[t].sub] = "pending_payment"
    BY <2>1 DEF Holds, Asked, HoldsSub
  <2> QED
    BY <2>2 DEF IInv, SubsOK, BooksAgree
<1> QED
  BY <1>1, <1>2 DEF IInv, SubsOK, PromosOK

\* The initial states satisfy it.
LEMMA InitIInv == Init => IInv
<1> SUFFICES ASSUME Init PROVE IInv
    OBVIOUS
<1>1. NoTx \in Tx /\ NoTx.pc = "idle"
  BY DEF NoTx, Tx, Pc
<1>2. TxOK
  BY <1>1 DEF Init, TxOK, Holds, Asked, HoldsPromo, HoldsNumber, HoldsSub, Buying
<1>3. LocksOK
  BY DEF Init, LocksOK
<1>4. SubsOK
  <2>1. NumbersAreGapFree
    <3>1. \A s \in Subs : proformaNumber[s] = 0 /\ invoiceNumber[s] = 0
      BY DEF Init
    <3>2. lastValue["proforma"] = 0 /\ lastValue["invoice"] = 0
      BY DEF Init, Kinds
    <3>3. 1..0 = {}
      OBVIOUS
    <3>4. {proformaNumber[s] : s \in Subs} \ {0} = {}
            /\ {invoiceNumber[s] : s \in Subs} \ {0} = {}
      BY <3>1
    <3> QED
      BY <3>1, <3>2, <3>3, <3>4 DEF NumbersAreGapFree, GapFree
  <2>2. BooksAgree
    BY DEF Init, BooksAgree
  <2> QED
    BY <2>1, <2>2 DEF Init, SubsOK, Status
<1>5. PromosOK
  <2>1. redemptions = {} /\ redemptionsCount = [p \in Promos |-> 0]
    BY DEF Init
  <2>2. \A p \in Promos, c \in Companies : RedeemedBy(p, c) = {} /\ Of(p) = {}
    BY <2>1 DEF RedeemedBy, Of
  <2>3. \A n \in Nat : 0 <= n
    OBVIOUS
  <2>4. RedemptionsAreCounted
    <3>1. \A p \in Promos : {r \in redemptions : r[1] = p} = {}
      BY <2>1
    <3> QED
      BY <2>1, <2>3, <3>1, FS_EmptySet, BillingAssumptions
         DEF RedemptionsAreCounted
  <2>5. CompanyKeepsLimit
    BY <2>2, <2>3, FS_EmptySet, BillingAssumptions DEF CompanyKeepsLimit
  <2> QED
    BY <2>1, <2>4, <2>5, FS_EmptySet DEF Init, PromosOK
<1> QED
  BY <1>2, <1>3, <1>4, <1>5 DEF IInv

-----------------------------------------------------------------------------
(* The open transactions.                                                  *)

\* A step takes nothing from what transaction u holds.
Respects(u) ==
  /\ \A s \in Subs : subLock[s] = u /\ status[s] = "pending_payment" =>
       subLock'[s] = u /\ status'[s] = status[s]
  /\ \A p \in Promos : promoLock[p] = u =>
       promoLock'[p] = u /\ \A c \in Companies : Usable(p, c) => Usable(p, c)'
  /\ \A k \in Kinds : numberLock[k] = u =>
       numberLock'[k] = u /\ lastValue'[k] = lastValue[k]

\* Then u keeps what it needs.
LEMMA RespectsKeeps ==
  ASSUME NEW u \in Transactions, NEW x \in Tx, Holds(u, x), Respects(u)
  PROVE  Holds(u, x)'
<1>1. Asked(x)' /\ Asked(x)
  BY DEF Holds, Asked
<1>2. HoldsPromo(u, x)'
  <2>1. x.typed # Null => x.typed \in Promos
    BY DEF Tx, Promos
  <2>2. x.promo # Null => x.promo \in Promos
    BY DEF Tx
  <2>3. x.pc \in {"campaign", "proforma", "purchase"} => x.company \in Companies
    BY <1>1 DEF Asked, Buying
  <2> QED
    BY <2>1, <2>2, <2>3 DEF Holds, HoldsPromo, Respects
<1>3. HoldsNumber(u, x)'
  BY DEF Holds, HoldsNumber, Respects, Kinds, AfterPromo
<1>4. HoldsSub(u, x)'
  <2>1. x.swept \subseteq Subs
    BY DEF Tx
  <2> QED
    BY <1>1, <2>1 DEF Holds, HoldsSub, Respects, Asked
<1> QED
  BY <1>1, <1>2, <1>3, <1>4 DEF Holds

\* Transaction t goes on with record x.
LEMMA TxSet ==
  ASSUME TxOK, NEW t \in Transactions, NEW x \in Tx,
         tx' = [tx EXCEPT ![t] = x],
         \A y : y = x => Holds(t, y)',
         \A u \in Transactions \ {t} : Respects(u)
  PROVE  TxOK'
<1>1. tx' \in [Transactions -> Tx] /\ tx'[t] = x
        /\ \A u \in Transactions \ {t} : tx'[u] = tx[u]
  BY DEF TxOK
<1>2. ASSUME NEW u \in Transactions PROVE Holds(u, tx[u])'
  <2>1. CASE u = t
    <3>1. PICK y : y = x
      OBVIOUS
    <3>2. Holds(t, y)'
      BY <3>1
    <3> QED
      BY <1>1, <2>1, <3>1, <3>2
  <2>2. CASE u # t
    <3>1. PICK y : y = tx[u]
      OBVIOUS
    <3>2. y \in Tx /\ Holds(u, y) /\ Respects(u)
      BY <2>2, <3>1 DEF TxOK
    <3>3. Holds(u, y)'
      BY <3>2, RespectsKeeps
    <3>4. tx'[u] = y
      BY <1>1, <2>2, <3>1
    <3> QED
      BY <3>3, <3>4
  <2> QED
    BY <2>1, <2>2
<1> QED
  BY <1>1, <1>2 DEF TxOK

\* No transaction goes on.
LEMMA TxKeep ==
  ASSUME TxOK, tx' = tx, \A u \in Transactions : Respects(u)
  PROVE  TxOK'
<1>1. ASSUME NEW u \in Transactions PROVE Holds(u, tx[u])'
  <2>1. PICK y : y = tx[u]
    OBVIOUS
  <2>2. Holds(u, y)'
    BY <2>1, RespectsKeeps DEF TxOK
  <2> QED
    BY <2>1, <2>2
<1> QED
  BY <1>1 DEF TxOK

tables == <<subscription, documents, promo>>

\* A transaction that only locks.
LEMMA TablesKeep ==
  ASSUME SubsOK, PromosOK, UNCHANGED tables
  PROVE  /\ SubsOK' /\ PromosOK'
         /\ \A p, c : Usable(p, c) => Usable(p, c)'
         /\ status' = status /\ lastValue' = lastValue
<1>1. UNCHANGED <<status, company, proformaNumber, paid, voided, invoiceNumber,
                  lastValue, redemptions, redemptionsCount, isActive>>
  BY DEF tables, subscription, documents, promo
<1>2. \A p, c : RedeemedBy(p, c)' = RedeemedBy(p, c)
  BY <1>1 DEF RedeemedBy
<1>3. SubsOK'
  BY <1>1 DEF SubsOK, NumbersAreGapFree, GapFree, BooksAgree
<1>4. PromosOK'
  BY <1>1, <1>2 DEF PromosOK, RedemptionsAreCounted, CompanyKeepsLimit
<1> QED
  BY <1>1, <1>2, <1>3, <1>4 DEF Usable

\* Transaction t ends, its locks are given back.
LEMMA ReleaseKeeps ==
  ASSUME TxOK, LocksOK, NEW t \in Transactions, Release(t)
  PROVE  /\ LocksOK'
         /\ \A s \in Subs : subLock[s] # t => subLock'[s] = subLock[s]
         /\ \A p \in Promos : promoLock[p] # t => promoLock'[p] = promoLock[p]
         /\ \A k \in Kinds : numberLock[k] # t => numberLock'[k] = numberLock[k]
         /\ tx' = [tx EXCEPT ![t] = NoTx] /\ NoTx \in Tx
         /\ \A y : y = NoTx => Holds(t, y)'
<1>1. NoTx \in Tx /\ NoTx.pc = "idle"
  BY DEF NoTx, Tx, Pc
<1>2. \A y : y = NoTx => Holds(t, y)'
  BY <1>1 DEF Holds, Asked, HoldsPromo, HoldsNumber, HoldsSub, Buying
<1>3. /\ subLock' = [s \in Subs |-> IF subLock[s] = t THEN Null ELSE subLock[s]]
      /\ promoLock' = [p \in Promos |-> IF promoLock[p] = t THEN Null
                                                         ELSE promoLock[p]]
      /\ numberLock' = [k \in Kinds |-> IF numberLock[k] = t THEN Null
                                                           ELSE numberLock[k]]
  BY DEF LocksOK, Release, Free
<1> QED
  BY <1>1, <1>2, <1>3 DEF LocksOK, Release

\* It ends without a trace.
LEMMA RefuseKeeps ==
  ASSUME IInv, NEW t \in Transactions, Refuse(t)
  PROVE  IInv'
<1>1. TxOK /\ LocksOK /\ SubsOK /\ PromosOK /\ Release(t) /\ UNCHANGED tables
  BY DEF IInv, Refuse, tables
<1>2. SubsOK' /\ PromosOK' /\ status' = status /\ lastValue' = lastValue
        /\ \A p, c : Usable(p, c) => Usable(p, c)'
  BY <1>1, TablesKeep
<1>3. \A u \in Transactions \ {t} : Respects(u)
  BY <1>1, <1>2, ReleaseKeeps DEF Respects
<1>4. TxOK'
  BY <1>1, <1>3, ReleaseKeeps, TxSet
<1> QED
  BY <1>1, <1>2, <1>4, ReleaseKeeps DEF IInv

\* A transaction that only locks: what the others hold is not touched, what
\* it will need is there.
LEMMA LockKeeps ==
  ASSUME IInv, NEW t \in Transactions, NEW x \in Tx, UNCHANGED tables,
         tx' = [tx EXCEPT ![t] = x], LocksOK',
         \A s \in Subs : subLock[s] \notin {Null, t} => subLock'[s] = subLock[s],
         \A p \in Promos : promoLock[p] \notin {Null, t}
                             => promoLock'[p] = promoLock[p],
         \A k \in Kinds : numberLock[k] \notin {Null, t}
                             => numberLock'[k] = numberLock[k],
         \A y : y = x => Holds(t, y)'
  PROVE  IInv'
<1>1. SubsOK' /\ PromosOK' /\ status' = status /\ lastValue' = lastValue
        /\ \A p, c : Usable(p, c) => Usable(p, c)'
  BY TablesKeep DEF IInv
<1>2. \A u \in Transactions : u # Null
  BY BillingAssumptions
<1>3. \A u \in Transactions \ {t} : Respects(u)
  BY <1>1, <1>2 DEF Respects
<1>4. TxOK'
  BY <1>3, TxSet DEF IInv
<1> QED
  BY <1>1, <1>4 DEF IInv

\* Nobody goes on, nothing is locked: a status changes that no transaction
\* has locked, or a promo is paused.
LEMMA OneStepKeeps ==
  ASSUME IInv, tx' = tx, UNCHANGED locks, lastValue' = lastValue,
         redemptions' = redemptions, SubsOK', PromosOK',
         \A s \in Subs : subLock[s] # Null => status'[s] = status[s],
         \A p \in Promos : promoLock[p] # Null => isActive'[p] = isActive[p]
  PROVE  IInv'
<1>1. \A u \in Transactions : u # Null
  BY BillingAssumptions
<1>2. \A p \in Promos : promoLock[p] # Null =>
        \A c : Usable(p, c) => Usable(p, c)'
  BY DEF Usable, RedeemedBy
<1>3. \A u \in Transactions : Respects(u)
  BY <1>1, <1>2 DEF Respects, locks
<1>4. TxOK'
  BY <1>3, TxKeep DEF IInv
<1>5. LocksOK'
  BY DEF IInv, LocksOK, locks
<1> QED
  BY <1>4, <1>5 DEF IInv

-----------------------------------------------------------------------------
(* Steps that only lock.                                                   *)

\* A transaction begins.
LEMMA BeginKeeps ==
  ASSUME IInv, NEW t \in Transactions, BeginPurchase(t) \/ BeginMarkPaid(t)
  PROVE  IInv'
<1>1. TxOK /\ LocksOK
  BY DEF IInv
<1>2. UNCHANGED tables /\ UNCHANGED locks
  BY DEF BeginPurchase, BeginMarkPaid, tables
<1>3. LocksOK' /\ subLock' = subLock /\ promoLock' = promoLock
        /\ numberLock' = numberLock
  BY <1>1, <1>2 DEF LocksOK, locks
<1>4. CASE BeginPurchase(t)
  <2>1. PICK c \in Companies, p \in Codes \cup {Null} :
          tx' = [tx EXCEPT ![t] =
                  [NoTx EXCEPT !.pc = IF p = Null THEN "campaign" ELSE "typed",
                               !.company = c, !.typed = p]]
    BY <1>4 DEF BeginPurchase
  <2> DEFINE x == [NoTx EXCEPT !.pc = IF p = Null THEN "campaign" ELSE "typed",
                               !.company = c, !.typed = p]
  <2>2. x \in Tx /\ x.pc \in {"campaign", "typed"} /\ x.company = c /\ x.typed = p
          /\ (x.pc = "campaign" <=> p = Null)
    BY DEF NoTx, Tx, Pc
  <2>3. \A y : y = x => Holds(t, y)'
    BY <2>2 DEF Holds, Asked, HoldsPromo, HoldsNumber, HoldsSub, Buying
  <2> QED
    BY <1>2, <1>3, <2>1, <2>2, <2>3, LockKeeps
<1>5. CASE BeginMarkPaid(t)
  <2>1. PICK s \in Subs :
          tx' = [tx EXCEPT ![t] = [NoTx EXCEPT !.pc = "subscription", !.sub = s]]
    BY <1>5 DEF BeginMarkPaid
  <2> DEFINE x == [NoTx EXCEPT !.pc = "subscription", !.sub = s]
  <2>2. x \in Tx /\ x.pc = "subscription" /\ x.sub = s
    BY DEF NoTx, Tx, Pc
  <2>3. \A y : y = x => Holds(t, y)'
    BY <2>2 DEF Holds, Asked, HoldsPromo, HoldsNumber, HoldsSub, Buying
  <2> QED
    BY <1>2, <1>3, <2>1, <2>2, <2>3, LockKeeps
<1> QED
  BY <1>4, <1>5

\* The promo is below the company's limit when it is locked.
LEMMA NotRefusedIsUsable ==
  ASSUME IInv, NEW p \in Promos, NEW c \in Companies, ~PromoRefused(p, c)
  PROVE  Usable(p, c)
<1>1. Cardinality(RedeemedBy(p, c)) \in Nat
  <2>1. RedeemedBy(p, c) \in SUBSET redemptions /\ IsFiniteSet(redemptions)
    BY DEF RedeemedBy, IInv, PromosOK
  <2>2. IsFiniteSet(RedeemedBy(p, c))
    BY <2>1, FS_Subset
  <2> QED
    BY <2>2, FS_CardinalityType
<1>2. MaxPerCompany[p] # Null => MaxPerCompany[p] \in Nat
  BY BillingAssumptions
<1>3. MaxPerCompany[p] # Null => ~(Cardinality(RedeemedBy(p, c)) >= MaxPerCompany[p])
  BY DEF PromoRefused
<1>4. isActive[p]
  BY DEF PromoRefused
<1> QED
  BY <1>1, <1>2, <1>3, <1>4 DEF Usable

\* A typed code is locked, or refused.
LEMMA LockTypedKeeps ==
  ASSUME IInv, NEW t \in Transactions, LockTyped(t)
  PROVE  IInv'
<1> DEFINE p == tx[t].typed
           x == [tx[t] EXCEPT !.pc = "campaign"]
<1>1. TxOK /\ LocksOK /\ tx[t] \in Tx /\ Holds(t, tx[t])
        /\ tx[t].pc = "typed" /\ promoLock[p] = Null
  BY DEF IInv, TxOK, LockTyped
<1>2. p \in Codes /\ tx[t].company \in Companies
  BY <1>1 DEF Holds, Asked, Buying
<1>3. p \in Promos
  BY <1>2 DEF Promos
<1>4. CASE PromoRefused(p, tx[t].company)
  BY <1>4, RefuseKeeps DEF LockTyped
<1>5. CASE ~PromoRefused(p, tx[t].company)
  <2>1. /\ promoLock' = [promoLock EXCEPT ![p] = t]
        /\ tx' = [tx EXCEPT ![t].pc = "campaign"]
        /\ UNCHANGED tables /\ subLock' = subLock /\ numberLock' = numberLock
    BY <1>5 DEF LockTyped, GoOn, tables
  <2>2. LocksOK' /\ promoLock'[p] = t
          /\ \A o \in Promos : promoLock[o] \notin {Null, t}
                                 => promoLock'[o] = promoLock[o]
    BY <1>1, <1>3, <2>1 DEF LocksOK
  <2>3. x \in Tx /\ x.pc = "campaign" /\ x.typed = p /\ x.company = tx[t].company
    BY <1>1 DEF Tx, Pc
  <2>4. Usable(p, tx[t].company)
    BY <1>2, <1>3, <1>5, NotRefusedIsUsable
  <2>5. Usable(p, tx[t].company) /\ \A y : y = x => Usable(y.typed, y.company)'
    BY <2>1, <2>3, <2>4, TablesKeep DEF IInv
  <2>6. \A y : y = x => Holds(t, y)'
    BY <1>2, <2>2, <2>3, <2>5
       DEF Holds, Asked, HoldsPromo, HoldsNumber, HoldsSub, Buying
  <2>7. tx' = [tx EXCEPT ![t] = x]
    BY <1>1, <2>1 DEF TxOK
  <2> QED
    BY <2>1, <2>2, <2>3, <2>6, <2>7, LockKeeps
<1> QED
  BY <1>4, <1>5

\* The promo a purchase goes on with is one of those it has locked.
LEMMA PromoChosenKeeps ==
  ASSUME IInv, NEW t \in Transactions, tx[t].pc = "campaign",
         NEW chosen \in Promos \cup {Null},
         tx' = [tx EXCEPT ![t].promo = chosen, ![t].pc = AfterPromo(chosen)],
         UNCHANGED tables, subLock' = subLock, numberLock' = numberLock, LocksOK',
         \A p \in Promos : promoLock[p] # Null => promoLock'[p] = promoLock[p],
         chosen # Null => promoLock'[chosen] = t /\ Usable(chosen, tx[t].company)
  PROVE  IInv'
<1> DEFINE x == [tx[t] EXCEPT !.promo = chosen, !.pc = AfterPromo(chosen)]
<1>1. TxOK /\ tx[t] \in Tx /\ Holds(t, tx[t])
  BY DEF IInv, TxOK
<1>2. tx[t].company \in Companies
  BY <1>1 DEF Holds, Asked, Buying
<1>3. AfterPromo(chosen) \in {"purchase", "proforma"}
  BY DEF AfterPromo
<1>4. x \in Tx /\ x.pc = AfterPromo(chosen) /\ x.promo = chosen
        /\ x.company = tx[t].company
  BY <1>1, <1>3 DEF Tx, Pc
<1>5. chosen # Null => \A y : y = x => Usable(y.promo, y.company)'
  BY <1>4, TablesKeep DEF IInv
<1>6. \A y : y = x => Holds(t, y)'
  BY <1>2, <1>3, <1>4, <1>5
     DEF Holds, Asked, HoldsPromo, HoldsNumber, HoldsSub, Buying
<1>7. tx' = [tx EXCEPT ![t] = x]
  BY <1>1 DEF TxOK
<1> QED
  BY <1>4, <1>6, <1>7, LockKeeps

\* The campaign that runs is locked, whether it applies or not.
LEMMA CampaignKeeps ==
  ASSUME IInv, NEW t \in Transactions,
         NoCampaign(t) \/ \E p \in Campaigns : LockCampaign(t, p)
  PROVE  IInv'
<1> DEFINE typed == tx[t].typed
<1>1. TxOK /\ LocksOK /\ tx[t] \in Tx /\ Holds(t, tx[t]) /\ tx[t].pc = "campaign"
  BY DEF IInv, TxOK, NoCampaign, LockCampaign
<1>2. /\ tx[t].company \in Companies /\ typed \in Promos \cup {Null}
      /\ typed # Null => promoLock[typed] = t /\ Usable(typed, tx[t].company)
  BY <1>1 DEF Holds, Asked, HoldsPromo, Buying, Tx, Promos
<1>3. CASE NoCampaign(t)
  <2>1. /\ tx' = [tx EXCEPT ![t].promo = typed, ![t].pc = AfterPromo(typed)]
        /\ UNCHANGED tables /\ UNCHANGED locks
    BY <1>3 DEF NoCampaign, tables
  <2>2. LocksOK' /\ subLock' = subLock /\ promoLock' = promoLock
          /\ numberLock' = numberLock
    BY <1>1, <2>1 DEF LocksOK, locks
  <2> QED
    BY <1>1, <1>2, <2>1, <2>2, PromoChosenKeeps
<1>4. ASSUME NEW p \in Campaigns, LockCampaign(t, p) PROVE IInv'
  <2> DEFINE applies == ~PromoRefused(p, tx[t].company) /\ ~SoldOut(p)
             chosen == Choose(typed, IF applies THEN p ELSE Null)
  <2>1. /\ promoLock[p] = Null /\ promoLock' = [promoLock EXCEPT ![p] = t]
        /\ tx' = [tx EXCEPT ![t].promo = chosen, ![t].pc = AfterPromo(chosen)]
        /\ UNCHANGED tables /\ subLock' = subLock /\ numberLock' = numberLock
    BY <1>4 DEF LockCampaign, tables
  <2>2. p \in Promos /\ p # Null
    BY BillingAssumptions DEF Promos
  <2>3. LocksOK' /\ promoLock'[p] = t
          /\ \A o \in Promos : promoLock[o] # Null => promoLock'[o] = promoLock[o]
    BY <1>1, <2>1, <2>2 DEF LocksOK
  <2>4. applies => Usable(p, tx[t].company)
    BY <1>2, <2>2, NotRefusedIsUsable
  <2>5. chosen \in {typed, Null} \/ (applies /\ chosen = p)
    BY DEF Choose
  <2>6. chosen \in Promos \cup {Null}
          /\ (chosen # Null => promoLock'[chosen] = t /\ Usable(chosen, tx[t].company))
    <3>1. CASE chosen \in {typed, Null}
      <4>1. t # Null
        BY BillingAssumptions
      <4> QED
        BY <1>2, <2>3, <3>1, <4>1
    <3>2. CASE applies /\ chosen = p
      BY <2>2, <2>3, <2>4, <3>2
    <3> QED
      BY <2>5, <3>1, <3>2
  <2> QED
    BY <1>1, <2>1, <2>3, <2>6, PromoChosenKeeps
<1> QED
  BY <1>3, <1>4

\* The number is the next one, and stays so for its holder.
LEMMA AllocateKeeps ==
  ASSUME IInv, NEW t \in Transactions, AllocateProforma(t) \/ AllocateInvoice(t)
  PROVE  IInv'
<1>1. TxOK /\ LocksOK /\ SubsOK /\ tx[t] \in Tx /\ Holds(t, tx[t])
  BY DEF IInv, TxOK
<1>2. PICK k \in Kinds, next \in {"purchase", "markPaid"} :
        /\ k = "proforma" <=> next = "purchase"
        /\ LockNumber(t, k, next)
  BY DEF AllocateProforma, AllocateInvoice, Kinds
<1> DEFINE x == [tx[t] EXCEPT !.number = lastValue[k] + 1, !.pc = next]
<1>3. /\ tx[t].pc = k /\ numberLock[k] = Null
      /\ numberLock' = [numberLock EXCEPT ![k] = t]
      /\ tx' = [tx EXCEPT ![t].number = lastValue[k] + 1, ![t].pc = next]
      /\ UNCHANGED tables /\ subLock' = subLock /\ promoLock' = promoLock
  BY <1>2 DEF LockNumber, TakeNumber, tables
<1>4. LocksOK' /\ numberLock'[k] = t
        /\ \A o \in Kinds : numberLock[o] \notin {Null, t}
                              => numberLock'[o] = numberLock[o]
  BY <1>1, <1>3 DEF LocksOK
<1>5. lastValue[k] + 1 \in Nat
  BY <1>1 DEF SubsOK
<1>6. x \in Tx /\ x.pc = next /\ x.number = lastValue[k] + 1
        /\ x.company = tx[t].company /\ x.promo = tx[t].promo
        /\ x.sub = tx[t].sub
  BY <1>1, <1>5 DEF Tx, Pc
<1>7. k \in {"proforma", "invoice"}
  BY DEF Kinds
<1>8. \A y : y = x => Asked(y)'
  BY <1>1, <1>2, <1>3, <1>6, <1>7 DEF Holds, Asked, Buying
<1>9. \A p, c : Usable(p, c) => Usable(p, c)'
  BY <1>1, <1>3, TablesKeep DEF IInv
<1>10. \A y : y = x => HoldsPromo(t, y)'
  BY <1>1, <1>2, <1>3, <1>6, <1>7, <1>9 DEF Holds, HoldsPromo
<1>11. status' = status /\ lastValue' = lastValue
  BY <1>3 DEF tables, subscription, documents
<1>12. \A y : y = x => HoldsNumber(t, y)'
  BY <1>2, <1>4, <1>6, <1>7, <1>11 DEF HoldsNumber
<1>13. \A y : y = x => HoldsSub(t, y)'
  BY <1>1, <1>2, <1>3, <1>6, <1>7, <1>11 DEF Holds, HoldsSub
<1>14. \A y : y = x => Holds(t, y)'
  BY <1>8, <1>10, <1>12, <1>13 DEF Holds
<1>15. tx' = [tx EXCEPT ![t] = x]
  BY <1>1, <1>3 DEF TxOK
<1> QED
  BY <1>3, <1>4, <1>6, <1>14, <1>15, LockKeeps

\* Who marks a subscription paid finds it awaiting payment, and keeps it so.
LEMMA LockSubscriptionKeeps ==
  ASSUME IInv, NEW t \in Transactions, LockSubscription(t)
  PROVE  IInv'
<1> DEFINE s == tx[t].sub
           x == [tx[t] EXCEPT !.pc = "invoice"]
<1>1. TxOK /\ LocksOK /\ tx[t] \in Tx /\ Holds(t, tx[t])
        /\ tx[t].pc = "subscription" /\ subLock[s] = Null
  BY DEF IInv, TxOK, LockSubscription
<1>2. s \in Subs
  BY <1>1 DEF Holds, Asked
<1>3. CASE Refuse(t)
  BY <1>3, RefuseKeeps
<1>4. CASE ~Refuse(t)
  <2>1. /\ status[s] = "pending_payment" /\ subLock' = [subLock EXCEPT ![s] = t]
        /\ tx' = [tx EXCEPT ![t].pc = "invoice"]
        /\ UNCHANGED tables /\ promoLock' = promoLock /\ numberLock' = numberLock
    BY <1>4 DEF LockSubscription, GoOn, tables
  <2>2. LocksOK' /\ subLock'[s] = t /\ status' = status
          /\ \A o \in Subs : subLock[o] \notin {Null, t} => subLock'[o] = subLock[o]
    BY <1>1, <1>2, <2>1 DEF LocksOK, tables, subscription
  <2>3. x \in Tx /\ x.pc = "invoice" /\ x.sub = s
    BY <1>1 DEF Tx, Pc
  <2>4. \A y : y = x => Holds(t, y)'
    BY <1>2, <2>1, <2>2, <2>3
       DEF Holds, Asked, HoldsPromo, HoldsNumber, HoldsSub, Buying
  <2>5. tx' = [tx EXCEPT ![t] = x]
    BY <1>1, <2>1 DEF TxOK
  <2> QED
    BY <2>1, <2>2, <2>3, <2>4, <2>5, LockKeeps
<1> QED
  BY <1>3, <1>4

\* A sweep locks what it will cancel, and then the promos it gives back.
LEMMA SweepBeginKeeps ==
  ASSUME IInv, NEW t \in Transactions, SweepBegin(t)
  PROVE  IInv'
<1>1. TxOK /\ LocksOK
  BY DEF IInv
<1>2. PICK S \in SUBSET {s \in Subs : /\ status[s] = "pending_payment"
                                      /\ subLock[s] = Null} :
        /\ subLock' = [s \in Subs |-> IF s \in S THEN t ELSE subLock[s]]
        /\ tx' = [tx EXCEPT ![t] = [NoTx EXCEPT !.pc = "release",
                                                !.swept = S, !.left = S]]
  BY DEF SweepBegin
<1> DEFINE x == [NoTx EXCEPT !.pc = "release", !.swept = S, !.left = S]
<1>3. UNCHANGED tables /\ promoLock' = promoLock /\ numberLock' = numberLock
        /\ status' = status
  BY DEF SweepBegin, tables, subscription
<1>4. LocksOK'
        /\ \A o \in Subs : subLock[o] \notin {Null, t} => subLock'[o] = subLock[o]
  BY <1>1, <1>2, <1>3 DEF LocksOK
<1>5. x \in Tx /\ x.pc = "release" /\ x.swept = S
  BY DEF NoTx, Tx, Pc
<1>6. \A y : y = x => Holds(t, y)'
  BY <1>2, <1>3, <1>5 DEF Holds, Asked, HoldsPromo, HoldsNumber, HoldsSub, Buying
<1> QED
  BY <1>2, <1>3, <1>4, <1>5, <1>6, LockKeeps

\* The promos of one of them.
LEMMA SweepOneKeeps ==
  ASSUME IInv, NEW t \in Transactions, NEW s \in Subs, SweepOne(t, s)
  PROVE  IInv'
<1> DEFINE used == {r[1] : r \in RedeemedFor({s})}
           x == [tx[t] EXCEPT !.left = tx[t].left \ {s}]
<1>1. TxOK /\ LocksOK /\ tx[t] \in Tx /\ Holds(t, tx[t])
  BY DEF IInv, TxOK
<1>2. /\ tx[t].pc = "release"
      /\ \A p \in used : promoLock[p] \in {Null, t}
      /\ promoLock' = [p \in Promos |-> IF p \in used THEN t ELSE promoLock[p]]
      /\ tx' = [tx EXCEPT ![t].left = tx[t].left \ {s}]
      /\ UNCHANGED tables /\ subLock' = subLock /\ numberLock' = numberLock
      /\ status' = status
  BY DEF SweepOne, tables, subscription
<1>3. LocksOK'
        /\ \A o \in Promos : promoLock[o] \notin {Null, t}
                               => promoLock'[o] = promoLock[o]
  BY <1>1, <1>2 DEF LocksOK
<1>4. x \in Tx /\ x.pc = "release" /\ x.swept = tx[t].swept
  BY <1>1, <1>2 DEF Tx
<1>5. \A y : y = x => Holds(t, y)'
  BY <1>1, <1>2, <1>4
     DEF Holds, Asked, HoldsPromo, HoldsNumber, HoldsSub, Buying
<1>6. tx' = [tx EXCEPT ![t] = x]
  BY <1>1, <1>2 DEF TxOK
<1> QED
  BY <1>2, <1>3, <1>4, <1>5, <1>6, LockKeeps

-----------------------------------------------------------------------------
(* Steps that write a table.                                               *)

\* A commit that changes only what the transaction has locked.
LEMMA CommitKeeps ==
  ASSUME IInv, NEW t \in Transactions, Release(t), SubsOK', PromosOK',
         \A s \in Subs : subLock[s] # t /\ status[s] = "pending_payment"
                           => status'[s] = status[s],
         \A p \in Promos, c \in Companies :
           promoLock[p] # t => (Usable(p, c) => Usable(p, c)'),
         \A k \in Kinds : numberLock[k] # t => lastValue'[k] = lastValue[k]
  PROVE  IInv'
<1>1. TxOK /\ LocksOK
  BY DEF IInv
<1>2. \A u \in Transactions \ {t} : Respects(u)
  BY <1>1, ReleaseKeeps DEF Respects
<1>3. TxOK'
  BY <1>1, <1>2, ReleaseKeeps, TxSet
<1> QED
  BY <1>1, <1>3, ReleaseKeeps DEF IInv

\* An admin or the sweep over end dates changes a status nobody has locked.
LEMMA StatusKeeps ==
  ASSUME IInv, NEW s \in Subs, CancelByAdmin(s) \/ Expire(s)
  PROVE  IInv'
<1>1. SubsOK /\ PromosOK
  BY DEF IInv
<1>2. PICK new \in {"cancelled", "expired"} :
        /\ status' = [status EXCEPT ![s] = new]
        /\ status[s] = "active" \/ (status[s] = "pending_payment" /\ new = "cancelled")
  BY DEF CancelByAdmin, Expire, MayCancel
<1>3. /\ subLock[s] = Null /\ UNCHANGED locks /\ tx' = tx
      /\ UNCHANGED <<company, proformaNumber, paid, voided, invoiceNumber,
                     lastValue, redemptions, redemptionsCount, isActive>>
  BY DEF CancelByAdmin, Expire, documents, promo
<1>4. status' \in [Subs -> Status] /\ status'[s] = new
        /\ \A u \in Subs \ {s} : status'[u] = status[u]
  BY <1>1, <1>2 DEF SubsOK, Status
<1>5. SubsOK'
  <2>1. NumbersAreGapFree'
    BY <1>1, <1>3 DEF SubsOK, NumbersAreGapFree, GapFree
  <2>2. BooksAgree'
    BY <1>1, <1>2, <1>3, <1>4 DEF SubsOK, BooksAgree
  <2> QED
    BY <1>1, <1>2, <1>3, <1>4, <2>1, <2>2 DEF SubsOK
<1>6. PromosOK'
  <2>1. \A r \in redemptions : status'[r[3]] # "absent"
    <3> SUFFICES ASSUME NEW r \in redemptions PROVE status'[r[3]] # "absent"
        OBVIOUS
    <3>1. r[3] \in Subs /\ status[r[3]] # "absent"
      BY <1>1 DEF PromosOK
    <3> QED
      BY <1>2, <1>4, <3>1
  <2>2. \A p, c : RedeemedBy(p, c)' = RedeemedBy(p, c)
    BY <1>3 DEF RedeemedBy
  <2> QED
    BY <1>1, <1>3, <2>1, <2>2 DEF PromosOK, RedemptionsAreCounted, CompanyKeepsLimit
<1> QED
  BY <1>3, <1>4, <1>5, <1>6, OneStepKeeps

\* A promo is paused or resumed.
LEMMA TogglePromoKeeps ==
  ASSUME IInv, NEW p \in Promos, TogglePromo(p)
  PROVE  IInv'
<1>1. SubsOK /\ PromosOK
  BY DEF IInv
<1>2. /\ UNCHANGED locks /\ tx' = tx
      /\ isActive' = [isActive EXCEPT ![p] = ~isActive[p]]
      /\ UNCHANGED <<status, company, proformaNumber, paid, voided,
                     invoiceNumber, lastValue, redemptions, redemptionsCount>>
  BY DEF TogglePromo, subscription, documents
<1>3. SubsOK'
  BY <1>1, <1>2 DEF SubsOK, NumbersAreGapFree, GapFree, BooksAgree
<1>4. \A q, c : RedeemedBy(q, c)' = RedeemedBy(q, c)
  BY <1>2 DEF RedeemedBy
<1>5. isActive' \in [Promos -> BOOLEAN]
  BY <1>1, <1>2 DEF PromosOK
<1>6. PromosOK'
  BY <1>1, <1>2, <1>4, <1>5 DEF PromosOK, RedemptionsAreCounted, CompanyKeepsLimit
<1>7. \A q \in Promos : promoLock[q] # Null => isActive'[q] = isActive[q]
  BY <1>1, <1>2 DEF TogglePromo, PromosOK
<1> QED
  BY <1>2, <1>3, <1>6, <1>7, OneStepKeeps

\* The next number of a kind goes to a row that has none.
LEMMA NumberAppended ==
  ASSUME NEW f \in [Subs -> Nat], NEW s \in Subs, f[s] = 0, NEW n \in Nat,
         {f[u] : u \in Subs} \ {0} = 1..n,
         \A u, v \in Subs : f[u] = f[v] /\ f[u] # 0 => u = v,
         NEW g, g = [f EXCEPT ![s] = n + 1]
  PROVE  /\ {g[u] : u \in Subs} \ {0} = 1..(n + 1)
         /\ \A u, v \in Subs : g[u] = g[v] /\ g[u] # 0 => u = v
<1>1. g[s] = n + 1 /\ \A u \in Subs \ {s} : g[u] = f[u]
  OBVIOUS
<1>2. \A u \in Subs : f[u] # 0 => f[u] \in 1..n
  OBVIOUS
<1>3. \A u \in Subs : f[u] # n + 1
  <2> SUFFICES ASSUME NEW u \in Subs, f[u] = n + 1 PROVE FALSE
      OBVIOUS
  <2>1. n + 1 \in 1..n
    BY <1>2
  <2> QED
    BY <2>1
<1>4. ASSUME NEW i \in 1..(n + 1) PROVE \E u \in Subs : g[u] = i /\ i # 0
  <2>1. CASE i = n + 1
    BY <1>1, <2>1
  <2>2. CASE i # n + 1
    <3>1. i \in 1..n
      BY <2>2
    <3>2. PICK u \in Subs : f[u] = i /\ i # 0
      BY <3>1
    <3>3. u # s
      BY <3>2
    <3> QED
      BY <1>1, <3>2, <3>3
  <2> QED
    BY <2>1, <2>2
<1>5. ASSUME NEW u \in Subs, g[u] # 0 PROVE g[u] \in 1..(n + 1)
  <2>1. CASE u = s
    BY <1>1, <2>1
  <2>2. CASE u # s
    <3>1. g[u] \in 1..n
      BY <1>1, <1>2, <1>5, <2>2
    <3> QED
      BY <3>1
  <2> QED
    BY <2>1, <2>2
<1>6. {g[u] : u \in Subs} \ {0} = 1..(n + 1)
  BY <1>4, <1>5
<1>7. \A u, v \in Subs : g[u] = g[v] /\ g[u] # 0 => u = v
  BY <1>1, <1>3
<1> QED
  BY <1>6, <1>7

\* The invoice of a subscription that awaited payment.
LEMMA CommitMarkPaidKeeps ==
  ASSUME IInv, NEW t \in Transactions, CommitMarkPaid(t)
  PROVE  IInv'
<1> DEFINE s == tx[t].sub
           n == lastValue["invoice"]
<1>1. SubsOK /\ PromosOK /\ LocksOK /\ tx[t] \in Tx /\ Holds(t, tx[t])
        /\ tx[t].pc = "markPaid"
  BY DEF IInv, TxOK, CommitMarkPaid
<1>2. /\ s \in Subs /\ subLock[s] = t /\ status[s] = "pending_payment"
      /\ numberLock["invoice"] = t /\ tx[t].number = n + 1
  BY <1>1 DEF Holds, Asked, HoldsNumber, HoldsSub
<1>3. CASE Refuse(t)
  BY <1>3, RefuseKeeps
<1>4. CASE ~Refuse(t)
  <2>1. /\ invoiceNumber[s] = 0 /\ Release(t)
        /\ status' = [status EXCEPT ![s] = "active"]
        /\ lastValue' = [lastValue EXCEPT !["invoice"] = n + 1]
        /\ invoiceNumber' = [invoiceNumber EXCEPT ![s] = n + 1]
        /\ paid' = [paid EXCEPT ![s] = proformaNumber[s] # 0]
        /\ UNCHANGED <<company, proformaNumber, voided, redemptions,
                       redemptionsCount, isActive>>
    BY <1>2, <1>4 DEF CommitMarkPaid, promo
  <2>2. n \in Nat /\ "invoice" \in Kinds /\ "proforma" \in Kinds
    BY <1>1 DEF SubsOK, Kinds
  <2>3. status' \in [Subs -> Status] /\ status'[s] = "active"
          /\ \A u \in Subs \ {s} : status'[u] = status[u]
    BY <1>1, <1>2, <2>1 DEF SubsOK, Status
  <2>4. /\ lastValue' \in [Kinds -> Nat] /\ lastValue'["invoice"] = n + 1
        /\ lastValue'["proforma"] = lastValue["proforma"]
    BY <1>1, <2>1, <2>2 DEF SubsOK
  <2>5. /\ invoiceNumber' \in [Subs -> Nat] /\ invoiceNumber'[s] = n + 1
        /\ \A u \in Subs \ {s} : invoiceNumber'[u] = invoiceNumber[u]
    BY <1>1, <1>2, <2>1, <2>2 DEF SubsOK
  <2>6. paid' \in [Subs -> BOOLEAN]
          /\ \A u \in Subs \ {s} : paid'[u] = paid[u]
    BY <1>1, <1>2, <2>1 DEF SubsOK
  <2>7. NumbersAreGapFree'
    <3>1. GapFree(proformaNumber, "proforma")'
      BY <1>1, <2>1, <2>4 DEF SubsOK, NumbersAreGapFree, GapFree
    <3>2. GapFree(invoiceNumber, "invoice")
      BY <1>1 DEF SubsOK, NumbersAreGapFree
    <3>3. /\ {invoiceNumber'[u] : u \in Subs} \ {0} = 1..(n + 1)
          /\ \A u, v \in Subs : invoiceNumber'[u] = invoiceNumber'[v]
                                  /\ invoiceNumber'[u] # 0 => u = v
      <4>1. invoiceNumber \in [Subs -> Nat]
        BY <1>1 DEF SubsOK
      <4> QED
        BY <1>2, <2>1, <2>2, <3>2, <4>1, NumberAppended DEF GapFree
    <3> QED
      BY <2>4, <3>1, <3>3 DEF NumbersAreGapFree, GapFree
  <2>8. BooksAgree'
    <3>1. ~voided[s]
      BY <1>1, <1>2 DEF SubsOK, BooksAgree
    <3> QED
      BY <1>1, <1>2, <2>1, <2>2, <2>3, <2>5, <2>6, <3>1 DEF SubsOK, BooksAgree
  <2>9. SubsOK'
    BY <1>1, <1>2, <2>1, <2>3, <2>4, <2>5, <2>6, <2>7, <2>8 DEF SubsOK
  <2>10. \A p, c : RedeemedBy(p, c)' = RedeemedBy(p, c)
    BY <2>1 DEF RedeemedBy
  <2>11. PromosOK'
    <3>1. \A r \in redemptions : status'[r[3]] # "absent"
      <4> SUFFICES ASSUME NEW r \in redemptions PROVE status'[r[3]] # "absent"
          OBVIOUS
      <4>1. r[3] \in Subs /\ status[r[3]] # "absent"
        BY <1>1 DEF PromosOK
      <4> QED
        BY <2>3, <4>1
    <3> QED
      BY <1>1, <2>1, <2>10, <3>1
         DEF PromosOK, RedemptionsAreCounted, CompanyKeepsLimit
  <2>12. \A p, c : Usable(p, c) => Usable(p, c)'
    BY <2>1, <2>10 DEF Usable
  <2>13. \A u \in Subs : subLock[u] # t => status'[u] = status[u]
    BY <1>2, <2>3
  <2>14. \A k \in Kinds : numberLock[k] # t => lastValue'[k] = lastValue[k]
    BY <1>2, <2>4 DEF Kinds
  <2> QED
    BY <2>1, <2>9, <2>11, <2>12, <2>13, <2>14, CommitKeeps
<1> QED
  BY <1>3, <1>4

\* A redemption of promo p by company c for the new subscription s.
LEMMA RedeemKeeps ==
  ASSUME PromosOK, NEW p \in Promos, NEW c \in Companies, NEW s \in Subs,
         status[s] = "absent", ~SoldOut(p), Usable(p, c),
         redemptions' = redemptions \cup {<<p, c, s>>},
         redemptionsCount' = [redemptionsCount EXCEPT ![p] =
                                redemptionsCount[p] + 1],
         isActive' = isActive,
         status'[s] # "absent",
         \A u \in Subs \ {s} : status'[u] = status[u]
  PROVE  /\ PromosOK'
         /\ \A q \in Promos, d \in Companies :
              q # p => (Usable(q, d) => Usable(q, d)')
<1> DEFINE r0 == <<p, c, s>>
<1>1. r0 \in Promos \X Companies \X Subs /\ r0[1] = p /\ r0[2] = c /\ r0[3] = s
  OBVIOUS
<1>2. r0 \notin redemptions /\ IsFiniteSet(redemptions)
  BY <1>1 DEF PromosOK
<1>3. redemptions' \subseteq Promos \X Companies \X Subs
        /\ IsFiniteSet(redemptions')
  BY <1>1, <1>2, FS_AddElement DEF PromosOK
<1>4. \A r \in redemptions' : status'[r[3]] # "absent"
  <2> SUFFICES ASSUME NEW r \in redemptions PROVE status'[r[3]] # "absent"
      BY <1>1
  <2>1. r[3] \in Subs /\ status[r[3]] # "absent"
    BY DEF PromosOK
  <2> QED
    BY <2>1
<1>5. redemptionsCount' \in [Promos -> Nat] /\ redemptionsCount[p] \in Nat
        /\ redemptionsCount'[p] = redemptionsCount[p] + 1
        /\ \A q \in Promos \ {p} : redemptionsCount'[q] = redemptionsCount[q]
  BY DEF PromosOK
<1>6. /\ Of(p)' = Of(p) \cup {r0} /\ r0 \notin Of(p)
      /\ \A q \in Promos \ {p} : Of(q)' = Of(q)
  BY <1>1, <1>2 DEF Of
<1>7. /\ RedeemedBy(p, c)' = RedeemedBy(p, c) \cup {r0}
      /\ r0 \notin RedeemedBy(p, c)
      /\ \A q \in Promos, d \in Companies :
           q # p \/ d # c => RedeemedBy(q, d)' = RedeemedBy(q, d)
  BY <1>1, <1>2 DEF RedeemedBy
<1>8. /\ Cardinality(Of(p)') = Cardinality(Of(p)) + 1
      /\ Cardinality(RedeemedBy(p, c)') = Cardinality(RedeemedBy(p, c)) + 1
      /\ Cardinality(RedeemedBy(p, c)) \in Nat
  <2>1. Of(p) \in SUBSET redemptions /\ RedeemedBy(p, c) \in SUBSET redemptions
    BY DEF Of, RedeemedBy
  <2>2. IsFiniteSet(Of(p)) /\ IsFiniteSet(RedeemedBy(p, c))
    BY <1>2, <2>1, FS_Subset
  <2> QED
    BY <1>6, <1>7, <2>2, FS_AddElement, FS_CardinalityType
<1>9. RedemptionsAreCounted'
  <2>1. \A q \in Promos :
          /\ redemptionsCount[q] = Cardinality(Of(q))
          /\ MaxRedemptions[q] # Null => redemptionsCount[q] <= MaxRedemptions[q]
    BY DEF PromosOK, RedemptionsAreCounted, Of
  <2>2. \A q \in Promos : redemptionsCount'[q] = Cardinality(Of(q)')
    BY <1>5, <1>6, <1>8, <2>1
  <2>3. MaxRedemptions[p] # Null =>
          MaxRedemptions[p] \in Nat /\ ~(redemptionsCount[p] >= MaxRedemptions[p])
    BY BillingAssumptions DEF SoldOut
  <2>4. \A q \in Promos : MaxRedemptions[q] # Null =>
          redemptionsCount'[q] <= MaxRedemptions[q]
    BY <1>5, <2>1, <2>3
  <2> QED
    BY <2>2, <2>4 DEF RedemptionsAreCounted, Of
<1>10. CompanyKeepsLimit'
  <2>1. MaxPerCompany[p] # Null => MaxPerCompany[p] \in Nat
    BY BillingAssumptions
  <2>2. MaxPerCompany[p] # Null =>
          Cardinality(RedeemedBy(p, c)') <= MaxPerCompany[p]
    BY <1>8, <2>1 DEF Usable
  <2> QED
    BY <1>7, <2>2 DEF CompanyKeepsLimit, PromosOK
<1>11. PromosOK'
  BY <1>3, <1>4, <1>5, <1>9, <1>10 DEF PromosOK
<1>12. \A q \in Promos, d \in Companies : q # p => (Usable(q, d) => Usable(q, d)')
  BY <1>7 DEF Usable
<1> QED
  BY <1>11, <1>12

\* A purchase commits: free, or with the next number of a proforma.
LEMMA CommitPurchaseKeeps ==
  ASSUME IInv, NEW t \in Transactions, CommitPurchase(t)
  PROVE  IInv'
<1> DEFINE p == tx[t].promo
           c == tx[t].company
           n == lastValue["proforma"]
<1>1. SubsOK /\ PromosOK /\ LocksOK /\ tx[t] \in Tx /\ Holds(t, tx[t])
        /\ tx[t].pc = "purchase"
  BY DEF IInv, TxOK, CommitPurchase
<1>2. /\ c \in Companies /\ p \in Promos \cup {Null}
      /\ p # Null => promoLock[p] = t /\ Usable(p, c)
      /\ AfterPromo(p) # "purchase" =>
           numberLock["proforma"] = t /\ tx[t].number = n + 1
  BY <1>1 DEF Holds, Asked, HoldsPromo, HoldsNumber, Tx, Buying, AfterPromo
<1>3. CASE Refuse(t)
  BY <1>3, RefuseKeeps
<1>4. CASE ~Refuse(t)
  <2>1. PICK s \in Subs :
          /\ status[s] = "absent"
          /\ company' = [company EXCEPT ![s] = c]
          /\ IF AfterPromo(p) = "purchase"
             THEN /\ status' = [status EXCEPT ![s] = "active"]
                  /\ UNCHANGED <<proformaNumber, lastValue>>
             ELSE /\ status' = [status EXCEPT ![s] = "pending_payment"]
                  /\ lastValue' = [lastValue EXCEPT !["proforma"] = tx[t].number]
                  /\ proformaNumber' = [proformaNumber EXCEPT ![s] = tx[t].number]
          /\ IF p = Null
             THEN UNCHANGED <<redemptions, redemptionsCount>>
             ELSE /\ redemptions' = redemptions \cup {<<p, c, s>>}
                  /\ redemptionsCount' = [redemptionsCount EXCEPT ![p] =
                                            redemptionsCount[p] + 1]
    BY <1>4 DEF CommitPurchase
  <2>2. /\ ~(p # Null /\ SoldOut(p)) /\ Release(t)
        /\ UNCHANGED <<paid, voided, invoiceNumber, isActive>>
    BY <1>4 DEF CommitPurchase
  <2>3. n \in Nat /\ "invoice" \in Kinds /\ "proforma" \in Kinds
          /\ proformaNumber[s] = 0
    BY <1>1, <2>1 DEF SubsOK, Kinds
  <2>4. /\ status' \in [Subs -> Status]
        /\ status'[s] \in {"active", "pending_payment"}
        /\ \A u \in Subs \ {s} : status'[u] = status[u]
    BY <1>1, <2>1 DEF SubsOK, Status
  <2>5. company' \in [Subs -> Companies \cup {Null}]
    BY <1>1, <1>2, <2>1 DEF SubsOK
  <2>6. /\ GapFree(proformaNumber, "proforma")'
        /\ proformaNumber' \in [Subs -> Nat] /\ lastValue' \in [Kinds -> Nat]
        /\ lastValue'["invoice"] = lastValue["invoice"]
        /\ numberLock["proforma"] # t => lastValue'["proforma"] = n
        /\ \A u \in Subs \ {s} : proformaNumber'[u] = proformaNumber[u]
        /\ status'[s] = "pending_payment" => proformaNumber'[s] # 0
    <3>1. GapFree(proformaNumber, "proforma") /\ proformaNumber \in [Subs -> Nat]
            /\ lastValue \in [Kinds -> Nat]
      BY <1>1 DEF SubsOK, NumbersAreGapFree
    <3>2. CASE AfterPromo(p) = "purchase"
      BY <1>1, <2>1, <3>1, <3>2 DEF GapFree, SubsOK
    <3>3. CASE AfterPromo(p) # "purchase"
      <4>1. /\ lastValue' = [lastValue EXCEPT !["proforma"] = n + 1]
            /\ proformaNumber' = [proformaNumber EXCEPT ![s] = n + 1]
            /\ numberLock["proforma"] = t
        BY <1>2, <2>1, <3>3
      <4>2. /\ {proformaNumber'[u] : u \in Subs} \ {0} = 1..(n + 1)
            /\ \A u, v \in Subs : proformaNumber'[u] = proformaNumber'[v]
                                    /\ proformaNumber'[u] # 0 => u = v
        BY <2>3, <3>1, <4>1, NumberAppended DEF GapFree
      <4>3. lastValue'["proforma"] = n + 1
        BY <2>3, <3>1, <4>1
      <4>4. GapFree(proformaNumber, "proforma")'
        BY <4>2, <4>3 DEF GapFree
      <4> QED
        BY <2>3, <3>1, <4>1, <4>4
    <3> QED
      BY <3>2, <3>3
  <2>7. GapFree(invoiceNumber, "invoice")'
    BY <1>1, <2>2, <2>6 DEF SubsOK, NumbersAreGapFree, GapFree
  <2>8. BooksAgree'
    <3>1. (paid[s] => invoiceNumber[s] # 0) /\ invoiceNumber[s] = 0
      BY <1>1, <2>1 DEF SubsOK, BooksAgree
    <3>2. ~voided[s]
      BY <1>1, <2>1 DEF SubsOK, BooksAgree
    <3> QED
      BY <1>1, <2>1, <2>2, <2>4, <3>1, <3>2 DEF SubsOK, BooksAgree
  <2>9. SubsOK'
    BY <1>1, <2>2, <2>4, <2>5, <2>6, <2>7, <2>8 DEF SubsOK, NumbersAreGapFree
  <2>10. /\ PromosOK'
         /\ \A q \in Promos, d \in Companies :
              promoLock[q] # t => (Usable(q, d) => Usable(q, d)')
    <3>1. CASE p = Null
      <4>1. redemptions' = redemptions /\ redemptionsCount' = redemptionsCount
        BY <2>1, <3>1
      <4>2. \A q, d : RedeemedBy(q, d)' = RedeemedBy(q, d)
        BY <4>1 DEF RedeemedBy
      <4>3. \A r \in redemptions : status'[r[3]] # "absent"
        <5> SUFFICES ASSUME NEW r \in redemptions PROVE status'[r[3]] # "absent"
            OBVIOUS
        <5>1. r[3] \in Subs /\ status[r[3]] # "absent"
          BY <1>1 DEF PromosOK
        <5> QED
          BY <2>4, <5>1
      <4> QED
        BY <1>1, <2>2, <4>1, <4>2, <4>3
           DEF PromosOK, RedemptionsAreCounted, CompanyKeepsLimit, Usable
    <3>2. CASE p # Null
      BY <1>1, <1>2, <2>1, <2>2, <2>4, <3>2, RedeemKeeps
    <3> QED
      BY <3>1, <3>2
  <2>11. \A u \in Subs : status[u] = "pending_payment" => status'[u] = status[u]
    BY <2>1, <2>4
  <2>12. \A k \in Kinds : numberLock[k] # t => lastValue'[k] = lastValue[k]
    BY <2>6 DEF Kinds
  <2> QED
    BY <2>2, <2>9, <2>10, <2>11, <2>12, CommitKeeps
<1> QED
  BY <1>3, <1>4

\* A sweep gives back what its subscriptions have redeemed, and counts it.
LEMMA SweepCommitKeeps ==
  ASSUME IInv, NEW t \in Transactions, SweepCommit(t)
  PROVE  IInv'
<1> DEFINE S == tx[t].swept
           D(p) == {r \in RedeemedFor(S) : r[1] = p}
<1>1. SubsOK /\ PromosOK /\ LocksOK /\ tx[t] \in Tx /\ Holds(t, tx[t])
        /\ tx[t].pc = "release" /\ Release(t)
  BY DEF IInv, TxOK, SweepCommit
<1>2. S \subseteq Subs
        /\ \A s \in S : subLock[s] = t /\ status[s] = "pending_payment"
  BY <1>1 DEF Holds, HoldsSub, Tx
<1>3. /\ status' = [s \in Subs |-> IF s \in S THEN "cancelled" ELSE status[s]]
      /\ voided' = [s \in Subs |-> voided[s] \/ (s \in S /\ proformaNumber[s] # 0)]
      /\ redemptions' = redemptions \ RedeemedFor(S)
      /\ redemptionsCount' =
           [p \in Promos |-> Decremented(redemptionsCount[p], Cardinality(D(p)))]
      /\ UNCHANGED <<company, proformaNumber, paid, invoiceNumber, lastValue,
                     isActive>>
  BY DEF SweepCommit
<1>4. SubsOK'
  <2>1. status' \in [Subs -> Status]
    BY <1>1, <1>3 DEF SubsOK, Status
  <2>2. voided' \in [Subs -> BOOLEAN]
    BY <1>1, <1>3 DEF SubsOK
  <2>3. NumbersAreGapFree'
    BY <1>1, <1>3 DEF SubsOK, NumbersAreGapFree, GapFree
  <2>4. BooksAgree'
    <3> SUFFICES ASSUME NEW s \in Subs
                 PROVE  /\ paid[s] => invoiceNumber[s] # 0
                        /\ status'[s] = "pending_payment" => invoiceNumber[s] = 0
                        /\ voided'[s] => ~paid[s] /\ status'[s] = "cancelled"
        BY <1>3 DEF BooksAgree
    <3>1. /\ paid[s] => invoiceNumber[s] # 0
          /\ status[s] = "pending_payment" => invoiceNumber[s] = 0
          /\ voided[s] => ~paid[s] /\ status[s] = "cancelled"
      BY <1>1 DEF SubsOK, BooksAgree
    <3>2. CASE s \in S
      BY <1>2, <1>3, <3>1, <3>2
    <3>3. CASE s \notin S
      <4>1. status'[s] = status[s] /\ voided'[s] = voided[s]
        BY <1>1, <1>3, <3>3 DEF SubsOK
      <4> QED
        BY <3>1, <4>1
    <3> QED
      BY <3>2, <3>3
  <2> QED
    BY <1>1, <1>2, <1>3, <2>1, <2>2, <2>3, <2>4 DEF SubsOK
<1>5. PromosOK' /\ \A p \in Promos, c \in Companies : Usable(p, c) => Usable(p, c)'
  <2>1. /\ redemptions' \subseteq redemptions /\ IsFiniteSet(redemptions)
        /\ IsFiniteSet(redemptions')
    <3>1. redemptions' \in SUBSET redemptions /\ IsFiniteSet(redemptions)
      BY <1>1, <1>3 DEF PromosOK
    <3> QED
      BY <3>1, FS_Subset
  <2>2. \A r \in redemptions' : status'[r[3]] # "absent"
    <3> SUFFICES ASSUME NEW r \in redemptions PROVE status'[r[3]] # "absent"
        BY <2>1
    <3>1. r[3] \in Subs /\ status[r[3]] # "absent"
      BY <1>1 DEF PromosOK
    <3> QED
      BY <1>3, <3>1
  <2>3. ASSUME NEW p \in Promos
        PROVE  /\ redemptionsCount'[p] = Cardinality(Of(p)')
               /\ redemptionsCount'[p] \in Nat
               /\ MaxRedemptions[p] # Null => redemptionsCount'[p] <= MaxRedemptions[p]
    <3>1. Of(p)' = Of(p) \ D(p) /\ Of(p) \cap D(p) = D(p)
            /\ Of(p) \in SUBSET redemptions
      BY <1>3 DEF Of, RedeemedFor
    <3>2. IsFiniteSet(Of(p)) /\ D(p) \in SUBSET Of(p)
      BY <2>1, <3>1, FS_Subset DEF RedeemedFor
    <3>3. /\ Cardinality(Of(p)) \in Nat /\ Cardinality(D(p)) \in Nat
          /\ Cardinality(D(p)) <= Cardinality(Of(p))
      BY <3>2, FS_Subset, FS_CardinalityType
    <3>4. Cardinality(Of(p)') = Cardinality(Of(p)) - Cardinality(D(p))
      BY <3>1, <3>2, FS_Difference
    <3>5. /\ redemptionsCount[p] = Cardinality(Of(p))
          /\ MaxRedemptions[p] # Null => redemptionsCount[p] <= MaxRedemptions[p]
      BY <1>1 DEF PromosOK, RedemptionsAreCounted, Of
    <3>6. redemptionsCount'[p] = Decremented(redemptionsCount[p], Cardinality(D(p)))
      BY <1>3
    <3>7. redemptionsCount'[p] = Cardinality(Of(p)) - Cardinality(D(p))
      BY <3>3, <3>5, <3>6 DEF Decremented
    <3>8. MaxRedemptions[p] # Null => MaxRedemptions[p] \in Nat
      BY BillingAssumptions
    <3> QED
      BY <3>3, <3>4, <3>5, <3>7, <3>8
  <2>4. RedemptionsAreCounted' /\ redemptionsCount' \in [Promos -> Nat]
    BY <1>3, <2>3 DEF RedemptionsAreCounted, Of
  <2>5. ASSUME NEW p \in Promos, NEW c \in Companies
        PROVE  /\ Cardinality(RedeemedBy(p, c)') \in Nat
               /\ Cardinality(RedeemedBy(p, c)) \in Nat
               /\ Cardinality(RedeemedBy(p, c)') <= Cardinality(RedeemedBy(p, c))
               /\ MaxPerCompany[p] # Null => MaxPerCompany[p] \in Nat
    <3>1. RedeemedBy(p, c)' \in SUBSET RedeemedBy(p, c)
            /\ RedeemedBy(p, c) \in SUBSET redemptions
      BY <2>1 DEF RedeemedBy
    <3>2. IsFiniteSet(RedeemedBy(p, c))
      BY <2>1, <3>1, FS_Subset
    <3> QED
      BY <3>1, <3>2, FS_Subset, FS_CardinalityType, BillingAssumptions
  <2>6. CompanyKeepsLimit'
    BY <1>1, <2>5 DEF PromosOK, CompanyKeepsLimit
  <2>7. \A p \in Promos, c \in Companies : Usable(p, c) => Usable(p, c)'
    BY <1>3, <2>5 DEF Usable
  <2> QED
    BY <1>1, <1>3, <2>1, <2>2, <2>4, <2>6, <2>7 DEF PromosOK
<1>6. \A s \in Subs : subLock[s] # t => status'[s] = status[s]
  BY <1>2, <1>3
<1> QED
  BY <1>1, <1>3, <1>4, <1>5, <1>6, CommitKeeps

-----------------------------------------------------------------------------
(* The theorems.                                                           *)

\* The invariant is inductive.
LEMMA Inductive == IInv /\ [Next]_vars => IInv'
<1> SUFFICES ASSUME IInv, [Next]_vars PROVE IInv'
    OBVIOUS
<1>1. CASE UNCHANGED vars
  <2>1. UNCHANGED tables /\ UNCHANGED locks /\ tx' = tx
    BY <1>1 DEF vars, tables
  <2>2. SubsOK' /\ PromosOK' /\ status' = status /\ lastValue' = lastValue
    BY <2>1, TablesKeep DEF IInv
  <2> QED
    BY <2>1, <2>2, OneStepKeeps DEF tables, promo
<1>2. ASSUME NEW t \in Requests, Request(t) PROVE IInv'
  <2>1. t \in Transactions
    BY DEF Transactions
  <2> QED
    BY <1>2, <2>1, BeginKeeps, LockTypedKeeps, CampaignKeeps, AllocateKeeps,
       CommitPurchaseKeeps, LockSubscriptionKeeps, CommitMarkPaidKeeps
       DEF Request
<1>3. ASSUME NEW t \in Sweepers, Sweep(t) PROVE IInv'
  <2>1. t \in Transactions
    BY DEF Transactions
  <2> QED
    BY <1>3, <2>1, SweepBeginKeeps, SweepOneKeeps, SweepCommitKeeps DEF Sweep
<1>4. ASSUME NEW t \in Transactions, Abort(t) PROVE IInv'
  BY <1>4, RefuseKeeps DEF Abort, Refuse
<1> QED
  BY <1>1, <1>2, <1>3, <1>4, StatusKeeps, TogglePromoKeeps DEF Next

\* It holds in every state.
LEMMA Invariant == Spec => []IInv
  BY InitIInv, Inductive, PTL DEF Spec

\* Every variable keeps its type.
THEOREM TypeCorrect == Spec => []TypeOK
<1>1. IInv => TypeOK
  BY IInvMeans
<1> QED
  BY Invariant, <1>1, PTL

\* Proformas and invoices are numbered 1, 2, ... without a gap and without a
\* double, however transactions overlap and abort.
THEOREM NumbersAreGapFreeHolds == Spec => []NumbersAreGapFree
<1>1. IInv => NumbersAreGapFree
  BY IInvMeans
<1> QED
  BY Invariant, <1>1, PTL

\* Statuses, proformas and invoices agree after every commit.
THEOREM BooksAgreeHolds == Spec => []BooksAgree
<1>1. IInv => BooksAgree
  BY IInvMeans
<1> QED
  BY Invariant, <1>1, PTL

\* Of two who mark a subscription paid, the second is refused by its status.
THEOREM LoserIsRefusedCleanlyHolds == Spec => []LoserIsRefusedCleanly
<1>1. IInv => LoserIsRefusedCleanly
  BY IInvMeans
<1> QED
  BY Invariant, <1>1, PTL

\* The counter of a promo counts its redemptions and keeps its limit.
THEOREM RedemptionsAreCountedHolds == Spec => []RedemptionsAreCounted
<1>1. IInv => RedemptionsAreCounted
  BY IInvMeans
<1> QED
  BY Invariant, <1>1, PTL

\* Purchases in parallel keep the limit of a company.
THEOREM CompanyKeepsLimitHolds == Spec => []CompanyKeepsLimit
<1>1. IInv => CompanyKeepsLimit
  BY IInvMeans
<1> QED
  BY Invariant, <1>1, PTL

-----------------------------------------------------------------------------
(* Billing implements SubscriptionLedger.                                  *)

ledger == <<status, company, redemptions, isActive,
            Book(proformaNumber, "proforma"), Book(invoiceNumber, "invoice")>>

\* Numbers without gap or double make a book: each place has its document.
LEMMA BookIsSeq ==
  ASSUME NEW f \in [Subs -> Nat], NEW n \in Nat,
         {f[u] : u \in Subs} \ {0} = 1..n
  PROVE  /\ [i \in 1..n |-> CHOOSE u \in Subs : f[u] = i] \in Seq(Subs)
         /\ \A i \in 1..n : /\ (CHOOSE u \in Subs : f[u] = i) \in Subs
                            /\ f[CHOOSE u \in Subs : f[u] = i] = i
<1> DEFINE b == [i \in 1..n |-> CHOOSE u \in Subs : f[u] = i]
<1>1. ASSUME NEW i \in 1..n
      PROVE  /\ (CHOOSE u \in Subs : f[u] = i) \in Subs
             /\ f[CHOOSE u \in Subs : f[u] = i] = i
  <2>1. \E u \in Subs : f[u] = i
    OBVIOUS
  <2> QED
    BY <2>1
<1>2. b \in [1..n -> Subs]
  BY <1>1
<1>3. b \in Seq(Subs)
  BY <1>2
<1> QED
  BY <1>1, <1>3

\* The next number is the next place.
LEMMA BookAppended ==
  ASSUME NEW f \in [Subs -> Nat], NEW s \in Subs, f[s] = 0, NEW n \in Nat,
         {f[u] : u \in Subs} \ {0} = 1..n,
         \A u, v \in Subs : f[u] = f[v] /\ f[u] # 0 => u = v,
         NEW g, g = [f EXCEPT ![s] = n + 1]
  PROVE  [i \in 1..(n + 1) |-> CHOOSE u \in Subs : g[u] = i]
           = Append([i \in 1..n |-> CHOOSE u \in Subs : f[u] = i], s)
<1> DEFINE b == [i \in 1..n |-> CHOOSE u \in Subs : f[u] = i]
           c == [i \in 1..(n + 1) |-> CHOOSE u \in Subs : g[u] = i]
<1>1. /\ {g[u] : u \in Subs} \ {0} = 1..(n + 1)
      /\ \A u, v \in Subs : g[u] = g[v] /\ g[u] # 0 => u = v
  BY NumberAppended
<1>2. g \in [Subs -> Nat] /\ n + 1 \in Nat
        /\ g[s] = n + 1 /\ \A u \in Subs \ {s} : g[u] = f[u]
  OBVIOUS
<1>3. b \in Seq(Subs) /\ \A i \in 1..n : b[i] \in Subs /\ f[b[i]] = i
  BY BookIsSeq
<1>4. c \in Seq(Subs) /\ \A i \in 1..(n + 1) : c[i] \in Subs /\ g[c[i]] = i
  <2> HIDE DEF c
  <2> QED
    BY <1>1, <1>2, BookIsSeq DEF c
<1>5. Len(b) = n /\ Len(c) = n + 1
  OBVIOUS
<1> HIDE DEF b, c
<1>6. /\ Append(b, s) \in Seq(Subs) /\ Len(Append(b, s)) = n + 1
      /\ \A i \in 1..n : Append(b, s)[i] = b[i]
      /\ Append(b, s)[n + 1] = s
  BY <1>3, <1>5, AppendProperties
<1>7. ASSUME NEW i \in 1..(n + 1) PROVE c[i] = Append(b, s)[i]
  <2>1. c[i] \in Subs /\ g[c[i]] = i /\ i # 0
    BY <1>4
  <2>2. CASE i = n + 1
    BY <1>1, <1>2, <1>6, <2>1, <2>2
  <2>3. CASE i # n + 1
    <3>1. i \in 1..n
      BY <2>3
    <3>2. b[i] \in Subs /\ f[b[i]] = i /\ b[i] # s
      BY <1>3, <2>1, <3>1
    <3>3. g[b[i]] = i
      BY <1>2, <3>2
    <3> QED
      BY <1>1, <1>6, <2>1, <3>1, <3>2, <3>3
  <2> QED
    BY <2>2, <2>3
<1>8. c = Append(b, s)
  BY <1>4, <1>5, <1>6, <1>7, SeqEqual
<1> QED
  BY <1>8 DEF b, c

\* A subscription is in the book of a kind when it has a document of it.
LEMMA BookLists ==
  ASSUME NEW f \in [Subs -> Nat], NEW kind, lastValue[kind] \in Nat,
         GapFree(f, kind), NEW s \in Subs
  PROVE  Ledger!Listed(s, Book(f, kind)) <=> f[s] # 0
<1> DEFINE n == lastValue[kind]
<1>1. /\ {f[u] : u \in Subs} \ {0} = 1..n
      /\ \A u, v \in Subs : f[u] = f[v] /\ f[u] # 0 => u = v
  BY DEF GapFree
<1>2. /\ DOMAIN Book(f, kind) = 1..n
      /\ \A i \in 1..n : /\ Book(f, kind)[i] \in Subs
                         /\ f[Book(f, kind)[i]] = i
  BY <1>1, BookIsSeq DEF Book
<1>3. ASSUME f[s] # 0 PROVE f[s] \in 1..n /\ Book(f, kind)[f[s]] = s
  <2>1. f[s] \in 1..n
    BY <1>1, <1>3
  <2> QED
    BY <1>1, <1>2, <1>3, <2>1
<1>4. ASSUME NEW i \in 1..n, Book(f, kind)[i] = s PROVE f[s] # 0
  BY <1>2, <1>4
<1> QED
  BY <1>2, <1>3, <1>4 DEF Ledger!Listed

\* A transaction that only locks, or is refused, leaves the ledger alone.
LEMMA LedgerQuiet ==
  ASSUME UNCHANGED tables
  PROVE  UNCHANGED ledger
BY DEF tables, subscription, documents, promo, ledger, Book

\* The ledger counts as billing does.
LEMMA SameCardinality ==
  ASSUME NEW S
  PROVE  Ledger!Cardinality(S) = Cardinality(S)
BY Zenon DEF Ledger!Cardinality, Cardinality

\* Who buys with a promo may still use it when the purchase commits.
LEMMA StillUsable ==
  ASSUME IInv, NEW p \in Promos, NEW c \in Companies, Usable(p, c), ~SoldOut(p)
  PROVE  Ledger!Usable(p, c)
<1>1. redemptionsCount[p] = Cardinality({r \in redemptions : r[1] = p})
        /\ redemptionsCount[p] \in Nat
  BY DEF IInv, PromosOK, RedemptionsAreCounted
<1>2. MaxRedemptions[p] # Null =>
        Cardinality({r \in redemptions : r[1] = p}) < MaxRedemptions[p]
  BY <1>1, BillingAssumptions DEF SoldOut
<1>3. /\ isActive[p]
      /\ MaxPerCompany[p] # Null =>
           Cardinality({r \in redemptions : r[1] = p /\ r[2] = c})
             < MaxPerCompany[p]
  BY Zenon DEF Usable, RedeemedBy
<1> QED
  BY <1>2, <1>3, SameCardinality DEF Ledger!Usable

\* A purchase is one of the ledger.
LEMMA LedgerPurchase ==
  ASSUME IInv, NEW t \in Transactions, CommitPurchase(t), ~Refuse(t)
  PROVE  Ledger!Next
<1> DEFINE p == tx[t].promo
           c == tx[t].company
           n == lastValue["proforma"]
<1>1. SubsOK /\ PromosOK /\ tx[t] \in Tx /\ Holds(t, tx[t])
        /\ tx[t].pc = "purchase"
  BY DEF IInv, TxOK, CommitPurchase
<1>2. /\ c \in Companies /\ p \in Promos \cup {Null}
      /\ p # Null => Usable(p, c)
      /\ AfterPromo(p) # "purchase" => tx[t].number = n + 1
  BY <1>1 DEF Holds, Asked, HoldsPromo, HoldsNumber, Tx, Buying, AfterPromo
<1>3. PICK s \in Subs :
        /\ status[s] = "absent"
        /\ company' = [company EXCEPT ![s] = c]
        /\ IF AfterPromo(p) = "purchase"
           THEN /\ status' = [status EXCEPT ![s] = "active"]
                /\ UNCHANGED <<proformaNumber, lastValue>>
           ELSE /\ status' = [status EXCEPT ![s] = "pending_payment"]
                /\ lastValue' = [lastValue EXCEPT !["proforma"] = tx[t].number]
                /\ proformaNumber' = [proformaNumber EXCEPT ![s] = tx[t].number]
        /\ IF p = Null
           THEN UNCHANGED <<redemptions, redemptionsCount>>
           ELSE redemptions' = redemptions \cup {<<p, c, s>>}
  BY DEF CommitPurchase
<1>4. ~(p # Null /\ SoldOut(p)) /\ UNCHANGED <<invoiceNumber, isActive>>
  BY DEF CommitPurchase
<1>5. p # Null => Ledger!Usable(p, c)
  BY <1>2, <1>4, StillUsable
<1>6. redemptions' = IF p = Null THEN redemptions
                                 ELSE redemptions \cup {<<p, c, s>>}
  BY <1>3
<1>7. /\ proformaNumber \in [Subs -> Nat] /\ proformaNumber[s] = 0
      /\ lastValue \in [Kinds -> Nat] /\ n \in Nat
      /\ "proforma" \in Kinds /\ "invoice" \in Kinds
      /\ GapFree(proformaNumber, "proforma")
  BY <1>1, <1>3 DEF SubsOK, NumbersAreGapFree, Kinds
<1>8. Book(invoiceNumber, "invoice")' = Book(invoiceNumber, "invoice")
  BY <1>3, <1>4, <1>7 DEF Book
<1>9. CASE AfterPromo(p) = "purchase"
  <2>1. Book(proformaNumber, "proforma")' = Book(proformaNumber, "proforma")
    BY <1>3, <1>9 DEF Book
  <2>2. p # Null /\ Price[p] = 0 /\ status' = [status EXCEPT ![s] = "active"]
    BY <1>3, <1>9 DEF AfterPromo
  <2>3. Ledger!Purchase(s, c, p)
    BY <1>3, <1>4, <1>5, <1>6, <1>8, <2>1, <2>2 DEF Ledger!Purchase
  <2> QED
    BY <1>2, <2>3 DEF Ledger!Next
<1>10. CASE AfterPromo(p) # "purchase"
  <2>1. /\ lastValue' = [lastValue EXCEPT !["proforma"] = n + 1]
        /\ proformaNumber' = [proformaNumber EXCEPT ![s] = n + 1]
        /\ status' = [status EXCEPT ![s] = "pending_payment"]
    BY <1>2, <1>3, <1>10
  <2>2. lastValue'["proforma"] = n + 1
    BY <1>7, <2>1
  <2>3. Book(proformaNumber, "proforma")'
          = [i \in 1..(n + 1) |-> CHOOSE u \in Subs : proformaNumber'[u] = i]
    BY <2>2 DEF Book
  <2>4. Book(proformaNumber, "proforma")'
          = Append(Book(proformaNumber, "proforma"), s)
    BY <1>7, <2>1, <2>3, BookAppended DEF GapFree, Book
  <2>5. p = Null \/ Price[p] # 0
    BY <1>10 DEF AfterPromo
  <2>6. Ledger!Purchase(s, c, p)
    BY <1>3, <1>4, <1>5, <1>6, <1>8, <2>1, <2>4, <2>5 DEF Ledger!Purchase
  <2> QED
    BY <1>2, <2>6 DEF Ledger!Next
<1> QED
  BY <1>9, <1>10

\* A payment is one of the ledger: it was asked for, and is the first.
LEMMA LedgerPay ==
  ASSUME IInv, NEW t \in Transactions, CommitMarkPaid(t), ~Refuse(t)
  PROVE  Ledger!Next
<1> DEFINE s == tx[t].sub
           n == lastValue["invoice"]
<1>1. SubsOK /\ tx[t] \in Tx /\ Holds(t, tx[t]) /\ tx[t].pc = "markPaid"
  BY DEF IInv, TxOK, CommitMarkPaid
<1>2. /\ s \in Subs /\ status[s] = "pending_payment" /\ tx[t].number = n + 1
  BY <1>1 DEF Holds, Asked, HoldsNumber, HoldsSub
<1>3. /\ invoiceNumber[s] = 0
      /\ status' = [status EXCEPT ![s] = "active"]
      /\ lastValue' = [lastValue EXCEPT !["invoice"] = n + 1]
      /\ invoiceNumber' = [invoiceNumber EXCEPT ![s] = n + 1]
      /\ UNCHANGED <<company, proformaNumber, redemptions, isActive>>
  BY <1>2 DEF CommitMarkPaid, promo
<1>4. /\ invoiceNumber \in [Subs -> Nat] /\ proformaNumber \in [Subs -> Nat]
      /\ lastValue \in [Kinds -> Nat] /\ n \in Nat
      /\ lastValue["proforma"] \in Nat
      /\ "proforma" \in Kinds /\ "invoice" \in Kinds
      /\ GapFree(proformaNumber, "proforma") /\ GapFree(invoiceNumber, "invoice")
      /\ s \in Enterprise \/ proformaNumber[s] # 0
  BY <1>1, <1>2 DEF SubsOK, NumbersAreGapFree, Kinds
<1>5. s \in Enterprise \/ Ledger!Listed(s, Book(proformaNumber, "proforma"))
  BY <1>2, <1>4, BookLists
<1>6. ~Ledger!Listed(s, Book(invoiceNumber, "invoice"))
  BY <1>2, <1>3, <1>4, BookLists
<1>7. Book(proformaNumber, "proforma")' = Book(proformaNumber, "proforma")
  BY <1>3, <1>4 DEF Book
<1>8. Book(invoiceNumber, "invoice")' = Append(Book(invoiceNumber, "invoice"), s)
  <2>1. Book(invoiceNumber, "invoice")'
          = [i \in 1..(n + 1) |-> CHOOSE u \in Subs : invoiceNumber'[u] = i]
    BY <1>3, <1>4 DEF Book
  <2> QED
    BY <1>2, <1>3, <1>4, <2>1, BookAppended DEF GapFree, Book
<1>9. Ledger!Pay(s)
  BY <1>2, <1>3, <1>5, <1>6, <1>7, <1>8 DEF Ledger!Pay
<1> QED
  BY <1>2, <1>9 DEF Ledger!Next

\* A sweep gives up its purchases all at once.
LEMMA LedgerAbandon ==
  ASSUME IInv, NEW t \in Transactions, SweepCommit(t)
  PROVE  Ledger!Next
<1> DEFINE S == tx[t].swept
<1>1. tx[t] \in Tx /\ Holds(t, tx[t]) /\ tx[t].pc = "release"
  BY DEF IInv, TxOK, SweepCommit
<1>2. S \in SUBSET Subs /\ \A s \in S : status[s] = "pending_payment"
  BY <1>1 DEF Holds, HoldsSub, Tx
<1>3. /\ status' = [s \in Subs |-> IF s \in S THEN "cancelled" ELSE status[s]]
      /\ redemptions' = {r \in redemptions : r[3] \notin S}
      /\ UNCHANGED <<company, isActive, proformaNumber, invoiceNumber, lastValue>>
  BY DEF SweepCommit, RedeemedFor
<1>4. UNCHANGED <<Book(proformaNumber, "proforma"),
                  Book(invoiceNumber, "invoice")>>
  BY <1>3 DEF Book
<1>5. Ledger!Abandon(S)
  BY <1>2, <1>3, <1>4 DEF Ledger!Abandon
<1> QED
  BY <1>2, <1>5 DEF Ledger!Next

\* A cancellation or an expiry is one step in both, ...
LEMMA LedgerEnd ==
  ASSUME NEW s \in Subs, CancelByAdmin(s) \/ Expire(s)
  PROVE  Ledger!Next
<1>1. UNCHANGED <<company, redemptions, isActive,
                  Book(proformaNumber, "proforma"),
                  Book(invoiceNumber, "invoice")>>
  BY DEF CancelByAdmin, Expire, documents, promo, Book
<1>2. CASE CancelByAdmin(s)
  <2>1. Ledger!End(s, {"pending_payment", "active"}, "cancelled")
    BY <1>1, <1>2 DEF CancelByAdmin, MayCancel, Ledger!End
  <2> QED
    BY <2>1 DEF Ledger!Next
<1>3. CASE Expire(s)
  <2>1. Ledger!End(s, {"active"}, "expired")
    BY <1>1, <1>3 DEF Expire, Ledger!End
  <2> QED
    BY <2>1 DEF Ledger!Next
<1> QED
  BY <1>2, <1>3

\* ... and so is a pause.
LEMMA LedgerToggle ==
  ASSUME NEW p \in Promos, TogglePromo(p)
  PROVE  Ledger!Next
<1>1. UNCHANGED <<status, company, redemptions,
                  Book(proformaNumber, "proforma"),
                  Book(invoiceNumber, "invoice")>>
  BY DEF TogglePromo, subscription, documents, Book
<1>2. Ledger!Toggle(p)
  BY <1>1 DEF TogglePromo, Ledger!Toggle
<1> QED
  BY <1>2 DEF Ledger!Next

\* Every step is a step of the ledger, or leaves it alone.
LEMMA LedgerStep == IInv /\ [Next]_vars => [Ledger!Next]_ledger
<1> SUFFICES ASSUME IInv, [Next]_vars PROVE Ledger!Next \/ UNCHANGED ledger
    OBVIOUS
<1>1. ASSUME NEW t \in Transactions, Refuse(t) PROVE UNCHANGED ledger
  BY <1>1, LedgerQuiet DEF Refuse, tables
<1>2. CASE UNCHANGED vars
  BY <1>2, LedgerQuiet DEF vars, tables
<1>3. ASSUME NEW t \in Requests, Request(t)
      PROVE  Ledger!Next \/ UNCHANGED ledger
  <2>1. t \in Transactions
    BY DEF Transactions
  <2>2. CASE CommitPurchase(t)
    BY <1>1, <2>1, <2>2, LedgerPurchase
  <2>3. CASE CommitMarkPaid(t)
    BY <1>1, <2>1, <2>3, LedgerPay
  <2>4. CASE ~CommitPurchase(t) /\ ~CommitMarkPaid(t)
    <3>1. UNCHANGED tables
      BY <1>3, <2>4
         DEF Request, BeginPurchase, LockTyped, LockCampaign, NoCampaign,
             AllocateProforma, AllocateInvoice, LockNumber, BeginMarkPaid,
             LockSubscription, Refuse, tables
    <3> QED
      BY <3>1, LedgerQuiet
  <2> QED
    BY <2>2, <2>3, <2>4
<1>4. ASSUME NEW t \in Sweepers, Sweep(t)
      PROVE  Ledger!Next \/ UNCHANGED ledger
  <2>1. t \in Transactions
    BY DEF Transactions
  <2>2. CASE SweepBegin(t) \/ \E s \in Subs : SweepOne(t, s)
    BY <2>2, LedgerQuiet DEF SweepBegin, SweepOne, tables
  <2> QED
    BY <1>4, <2>1, <2>2, LedgerAbandon DEF Sweep
<1>5. ASSUME NEW t \in Transactions, Abort(t) PROVE UNCHANGED ledger
  BY <1>5, LedgerQuiet DEF Abort, tables
<1> QED
  BY <1>2, <1>3, <1>4, <1>5, LedgerEnd, LedgerToggle DEF Next

\* For any number of transactions, subscriptions and promos: however they
\* overlap, abort and sweep, what is committed is what a ledger kept one
\* step at a time would hold.
THEOREM ImplementsLedger == Spec => LedgerSpec
<1>1. Init => Ledger!Init
  <2> SUFFICES ASSUME Init PROVE Ledger!Init
      OBVIOUS
  <2>1. lastValue["proforma"] = 0 /\ lastValue["invoice"] = 0 /\ 1..0 = {}
    BY DEF Init, Kinds
  <2>2. Book(proformaNumber, "proforma") = << >>
          /\ Book(invoiceNumber, "invoice") = << >>
    BY <2>1 DEF Book
  <2> QED
    BY <2>2 DEF Init, Ledger!Init
<1>2. IInv /\ [Next]_vars => [Ledger!Next]_ledger
  BY LedgerStep
<1> QED
  BY <1>1, <1>2, Invariant, PTL
     DEF Spec, LedgerSpec, Ledger!Spec, Ledger!ledger, ledger
=============================================================================
