---------------------------- MODULE BillingProofs ----------------------------
(* TLAPS proofs about Billing and Checkout, for any number of payments,      *)
(* invoices, customers, merchants' requests, subscriptions and hosts, any    *)
(* calendar and any faults.                                                  *)
EXTENDS Billing, FiniteSetTheorems, TLAPS

-----------------------------------------------------------------------------
(* The inductive invariant.                                                  *)

LinkRows    == [status : {"none", "active", "disabled"}, cap : Nat, used : Nat]
InvoiceRows == [status : {"none", "draft", "open", "paid", "void"}, sub : Subs \cup {None},
                cycle : Nat, period : Nat]
PayRows     == [status : {"none", "expired"} \cup Live \cup Paid, link : Links,
                received : Receipts \cup {"nothing"}, funded : BOOLEAN, late : BOOLEAN]
Claims      == [at : {"away", "locked", "counted"}, link : Links, uses : Nat]
Requests    == [at : {"idle", "numbered", "voiding", "disabled", "read"}, n : 0..MaxInvoices]
SubRows     == [status : SubStatuses, next : Periods, billed : Nat, total : Nat, sound : BOOLEAN]
Runs        == [at : {"off", "on", "locked", "numbered"}, rest : SUBSET Subs,
                sub : Subs \cup {None}, n : 0..MaxInvoices]

CheckoutTypes ==
  /\ link \in [Links -> LinkRows]
  /\ invoice \in [Invoices -> InvoiceRows]
  /\ counter \in [next : Nat, holder : Workers \cup Merchants \cup {None}]
  /\ pay \in [Payments -> PayRows]
  /\ visitor \in [Visitors -> Claims]
  /\ merchant \in [Merchants -> Requests]

BillingTypes ==
  /\ now \in 0..Horizon
  /\ subscription \in [Subs -> SubRows]
  /\ worker \in [Workers -> Runs]

\* A payment got its money by confirming.
CreditIsStatus ==
  \A p \in Payments : pay[p].received # "nothing" <=> pay[p].status \in {"confirming", "partial"} \cup Paid

\* A link that is not made yet has no payments and no customers.
NewLinkIsEmpty ==
  /\ \A n \in Invoices : invoice[n].status = "none" => link[n].status = "none"
  /\ \A l \in Links : link[l].status = "none" =>
       OnLink(l) = {} /\ \A v \in Visitors : visitor[v].at = "away" \/ visitor[v].link # l

\* One customer at a time is in a transaction on a link.
OneClaim ==
  \A v, u \in Visitors :
    visitor[v].at # "away" /\ visitor[u].at # "away" /\ visitor[v].link = visitor[u].link => u = v

\* One that has counted found a use of the link left, and it is left.
UseIsLeft ==
  \A v \in Visitors :
    LET l == visitor[v].link IN
    visitor[v].at = "counted" /\ link[l].cap # NoCap => Cardinality(Held(l)) < link[l].cap

\* What a void found, while it holds the payments.
VoidFoundNone ==
  \A m \in Merchants : merchant[m].at = "read" =>
    \A p \in OnLink(merchant[m].n) : pay[p].status \in Live => pay[p].received = "nothing"

\* A number is given to one transaction at a time, and it is the next.
NumberIsHeld ==
  LET mine(who, n) == counter.holder = who /\ n = counter.next /\ n \in Invoices IN
  /\ \A m \in Merchants : merchant[m].at = "numbered" => mine(m, merchant[m].n)
  /\ \A w \in Workers : worker[w].at = "numbered" => mine(w, worker[w].n)

\* Where there is no invoice yet there is nothing to bill, and nothing to void.
NewIsNobodys == \A n \in Invoices : invoice[n].status = "none" => invoice[n].sub = None

Voids(m) == merchant[m].at \in {"voiding", "disabled", "read"}

VoidHasInvoice ==
  \A m \in Merchants : Voids(m) =>
    merchant[m].n \in Invoices /\ invoice[merchant[m].n].status # "none"

InBill(w) == worker[w].at \in {"locked", "numbered"}

\* One run of the tick at a time bills a subscription, which stays due meanwhile.
OneBiller ==
  /\ \A w \in Workers : InBill(w) => worker[w].sub \in Subs /\ Due(worker[w].sub)
  /\ \A w, u \in Workers : InBill(w) /\ InBill(u) /\ worker[w].sub = worker[u].sub => u = w

CheckoutInv ==
  CreditIsStatus /\ NewLinkIsEmpty /\ OneClaim /\ UseIsLeft /\ HeldWithinCap /\ VoidFoundNone
BillingInv  ==
  NumberIsHeld /\ NumbersAreWhole /\ NewIsNobodys /\ VoidHasInvoice /\ OneBiller /\ CyclesAreWhole

Inv == CheckoutTypes /\ BillingTypes /\ CheckoutInv /\ BillingInv

-----------------------------------------------------------------------------
(* Facts about sets.                                                         *)

LEMMA HeldIsFinite ==
  ASSUME NEW l  PROVE IsFiniteSet(Held(l)) /\ IsFiniteSet(OnLink(l))
BY CheckoutAssumption, FS_Subset DEF Held, OnLink, Credited

\* Fewer payments hold no more uses.
LEMMA Fewer ==
  ASSUME NEW S, NEW T, IsFiniteSet(S), T \subseteq S, NEW n \in Nat
  PROVE  /\ Cardinality(S) <= n => Cardinality(T) <= n
         /\ Cardinality(S) < n => Cardinality(T) < n
<1>1. Cardinality(T) <= Cardinality(S) /\ IsFiniteSet(T)
  BY FS_Subset
<1>2. Cardinality(T) \in Nat /\ Cardinality(S) \in Nat
  BY <1>1, FS_CardinalityType
<1> QED  BY <1>1, <1>2

LEMMA MineIsFinite ==
  ASSUME NEW s  PROVE IsFiniteSet(InvoicesOf(s))
<1>1. IsFiniteSet(Invoices)
  BY CheckoutAssumption, FS_Interval DEF Invoices
<1> QED  BY <1>1, FS_Subset DEF InvoicesOf

-----------------------------------------------------------------------------
(* The initial states.                                                       *)

LEMMA InitInv == Init => Inv
<1> SUFFICES ASSUME NEW story \in Stories,
                    link = [l \in Links |-> IF l \in 1..story.open THEN NewLink ELSE NoLink],
                    invoice = [n \in Invoices |-> IF n <= story.open THEN [NoInvoice EXCEPT !.status = "open"] ELSE NoInvoice],
                    counter = [next |-> story.open + 1, holder |-> None],
                    pay = [p \in Payments |-> NoPayment],
                    visitor = [v \in Visitors |-> Away],
                    merchant = [m \in Merchants |-> Idle],
                    now = 0,
                    NEW total \in [Subs -> story.totals], NEW sound \in [Subs -> story.sound],
                    subscription = [s \in Subs |-> [status |-> IF s \in story.subs THEN "active" ELSE "canceled", next |-> 0, billed |-> 0, total |-> total[s], sound |-> sound[s]]],
                    worker = [w \in Workers |-> Off]
             PROVE  Inv
  BY DEF Init
<1> USE CheckoutAssumption, BillingAssumption DEF Invoices, Links
<1>1. 0 \in Periods
  BY DEF Periods
<1>2. CheckoutTypes
  <2>1. NewLink \in LinkRows /\ NoLink \in LinkRows
    BY DEF LinkRows, NewLink, NoLink
  <2>2. NoInvoice \in InvoiceRows /\ [NoInvoice EXCEPT !.status = "open"] \in InvoiceRows
    BY DEF InvoiceRows, NoInvoice
  <2>3. NoPayment \in PayRows
    BY DEF PayRows, NoPayment
  <2>4. Away \in Claims /\ Idle \in Requests
    BY DEF Claims, Requests, Away, Idle
  <2>5. counter \in [next : Nat, holder : Workers \cup Merchants \cup {None}]
    OBVIOUS
  <2>6. link \in [Links -> LinkRows] /\ invoice \in [Invoices -> InvoiceRows]
    BY <2>1, <2>2
  <2> QED  BY <2>3, <2>4, <2>5, <2>6 DEF CheckoutTypes
<1>3. BillingTypes
  BY <1>1 DEF BillingTypes, SubRows, Runs, SubStatuses, Off
<1>4. \A l \in Links : OnLink(l) = {} /\ Held(l) = {}
  BY DEF OnLink, Held, NoPayment, Credited
<1>5. CreditIsStatus /\ NewLinkIsEmpty /\ OneClaim /\ UseIsLeft /\ VoidFoundNone
  BY <1>4 DEF CreditIsStatus, NewLinkIsEmpty, OneClaim, UseIsLeft, VoidFoundNone, NoPayment, Away,
              Idle, NewLink, NoLink, NoInvoice, Paid
<1>6. HeldWithinCap
  <2>1. \A l \in Links : Cardinality(Held(l)) = 0 /\ link[l].cap \in Nat
    BY <1>2, <1>4, FS_EmptySet DEF CheckoutTypes, LinkRows
  <2> QED  BY <2>1 DEF HeldWithinCap
<1>7. NumberIsHeld /\ NumbersAreWhole /\ NewIsNobodys /\ VoidHasInvoice /\ OneBiller
  <2>1. (\A w \in Workers : worker[w].at = "off") /\ (\A m \in Merchants : merchant[m].at = "idle")
    BY DEF Off, Idle
  <2>2. NumbersAreWhole /\ NewIsNobodys
    BY DEF NumbersAreWhole, NewIsNobodys, NoInvoice
  <2> QED  BY <2>1, <2>2 DEF NumberIsHeld, VoidHasInvoice, Voids, OneBiller, InBill
<1>8. CyclesAreWhole
  <2>1. \A s \in Subs : InvoicesOf(s) = {} /\ subscription[s].billed = 0
    BY DEF NoInvoice, InvoicesOf
  <2>2. 1..0 = {} /\ Cardinality({}) = 0
    BY FS_EmptySet
  <2> QED  BY <2>1, <2>2 DEF CyclesAreWhole, Whole
<1> QED  BY <1>2, <1>3, <1>5, <1>6, <1>7, <1>8 DEF Inv, CheckoutInv, BillingInv

-----------------------------------------------------------------------------
(* What steps leave alone.                                                   *)

\* Cycles are whole while their invoices and counts stay.
LEMMA CyclesKept ==
  ASSUME NEW s, InvoicesOf(s)' = InvoicesOf(s),
         \A n \in InvoicesOf(s) : invoice'[n].cycle = invoice[n].cycle /\ invoice'[n].period = invoice[n].period,
         subscription'[s].billed = subscription[s].billed,
         \A n \in InvoicesOf(s) : invoice[n].period < subscription'[s].next,
         Whole(s)
  PROVE  Whole(s)'
<1>1. {invoice'[n].cycle : n \in InvoicesOf(s)} = {invoice[n].cycle : n \in InvoicesOf(s)}
  OBVIOUS
<1> QED  BY <1>1 DEF Whole

LEMMA CyclesSame ==
  ASSUME CyclesAreWhole, UNCHANGED <<invoice, subscription>>  PROVE CyclesAreWhole'
<1>1. \A s : InvoicesOf(s)' = InvoicesOf(s)
  BY DEF InvoicesOf
<1>2. \A s \in Subs : \A n \in InvoicesOf(s) : invoice[n].period < subscription'[s].next
  BY DEF CyclesAreWhole, Whole
<1> QED  BY <1>1, <1>2, CyclesKept DEF CyclesAreWhole

\* Invoices whose statuses move on are billed and numbered as they were.
LEMMA BillingKept ==
  ASSUME BillingInv, UNCHANGED <<counter, worker, subscription, now>>,
         \A n \in Invoices : /\ invoice'[n].sub = invoice[n].sub
                             /\ invoice'[n].cycle = invoice[n].cycle
                             /\ invoice'[n].period = invoice[n].period
                             /\ invoice'[n].status = "none" <=> invoice[n].status = "none",
         \A m \in Merchants :
           \/ merchant'[m] = merchant[m] \/ merchant'[m].at = "idle"
           \/ /\ merchant'[m].at # "numbered"
              /\ merchant'[m].n \in Invoices /\ invoice[merchant'[m].n].status # "none"
  PROVE  BillingInv'
<1> USE DEF BillingInv
<1>1. NumberIsHeld' /\ NumbersAreWhole' /\ NewIsNobodys' /\ VoidHasInvoice'
  BY DEF NumberIsHeld, NumbersAreWhole, NewIsNobodys, VoidHasInvoice, Voids
<1>2. OneBiller'
  BY DEF OneBiller, InBill, Due, Date
<1>3. \A s \in Subs : InvoicesOf(s)' = InvoicesOf(s)
  BY DEF InvoicesOf
<1>4. CyclesAreWhole'
  <2>1. \A s : \A n \in InvoicesOf(s) :
          invoice'[n].cycle = invoice[n].cycle /\ invoice'[n].period = invoice[n].period
    BY DEF InvoicesOf
  <2>2. \A s \in Subs : \A n \in InvoicesOf(s) : invoice[n].period < subscription'[s].next
    BY DEF CyclesAreWhole, Whole
  <2> QED  BY <1>3, <2>1, <2>2, CyclesKept DEF CyclesAreWhole
<1> QED  BY <1>1, <1>2, <1>4

\* Payments that come to hold nothing new, customers that leave, links that keep
\* their uses.
LEMMA CheckoutKept ==
  ASSUME CheckoutTypes, CheckoutInv, CreditIsStatus', VoidFoundNone',
         \A l \in Links : link'[l].cap = link[l].cap /\ (link'[l].status = "none" => link[l].status = "none"),
         \A n \in Invoices : invoice'[n].status = "none" =>
           invoice[n].status = "none" /\ link'[n].status = link[n].status,
         \A p \in Payments :
           /\ pay'[p].link = pay[p].link /\ (pay'[p].status = "none" <=> pay[p].status = "none")
           /\ pay'[p].status \in Live \/ pay'[p].received # "nothing" =>
             pay[p].status \in Live \/ pay[p].received # "nothing",
         \A v \in Visitors : visitor'[v] = visitor[v] \/ visitor'[v].at = "away"
  PROVE  CheckoutInv'
<1> USE DEF CheckoutInv
<1>1. \A l \in Links : OnLink(l)' = OnLink(l) /\ Held(l)' \subseteq Held(l)
  BY DEF OnLink, Held, Credited
<1>2. NewLinkIsEmpty'
  BY <1>1 DEF NewLinkIsEmpty, Links, Invoices
<1>3. OneClaim'
  BY DEF OneClaim
<1>4. \A l \in Links, c \in Nat : /\ Cardinality(Held(l)) <= c => Cardinality(Held(l)') <= c
                                  /\ Cardinality(Held(l)) < c => Cardinality(Held(l)') < c
  BY <1>1, HeldIsFinite, Fewer
<1>5. \A l \in Links : link[l].cap \in Nat
  BY DEF CheckoutTypes, LinkRows
<1>6. HeldWithinCap'
  BY <1>4, <1>5 DEF HeldWithinCap
<1>7. UseIsLeft'
  <2>1. \A v \in Visitors : visitor[v].link \in Links
    BY DEF CheckoutTypes, Claims
  <2> QED  BY <1>4, <1>5, <2>1 DEF UseIsLeft
<1> QED  BY <1>2, <1>3, <1>6, <1>7

\* A void that began before finds as before while its payments stay as they are.
LEMMA VoidKept ==
  ASSUME VoidFoundNone,
         \A m \in Merchants : merchant'[m].at = "read" => merchant'[m] = merchant[m],
         \A p \in Payments :
           \/ pay'[p] = pay[p]
           \/ ~PayLocked(p) /\ pay'[p].link = pay[p].link /\ pay[p].status \in Live
           \/ pay'[p].status \notin Live \/ pay'[p].received = "nothing"
  PROVE  VoidFoundNone'
BY DEF VoidFoundNone, OnLink, PayLocked

\* What is left alone stays right.
LEMMA CheckoutSame ==
  ASSUME CheckoutTypes, CheckoutInv, UNCHANGED <<link, invoice, pay, visitor, merchant>>
  PROVE  CheckoutInv'
<1>1. CreditIsStatus' /\ VoidFoundNone'
  BY VoidKept DEF CheckoutInv, CreditIsStatus
<1> QED  BY <1>1, CheckoutKept

LEMMA StutterInv ==
  ASSUME Inv, UNCHANGED <<checkoutVars, billingVars>>  PROVE Inv'
<1>1. UNCHANGED <<link, invoice, counter, pay, visitor, merchant, now, subscription, worker>>
  BY DEF checkoutVars, billingVars
<1>2. CheckoutTypes' /\ BillingTypes'
  BY <1>1 DEF Inv, CheckoutTypes, BillingTypes
<1>3. CheckoutInv'
  BY <1>1, CheckoutSame DEF Inv
<1>4. BillingInv'
  BY <1>1, BillingKept DEF Inv
<1> QED  BY <1>2, <1>3, <1>4 DEF Inv

-----------------------------------------------------------------------------
(* The payments.                                                             *)

\* The listeners and ticks write one payment: none gets a use it had not, none
\* gets its money while a void holds it.
LEMMA PaymentStepInv ==
  ASSUME Inv, UNCHANGED billingVars, NEW p \in Payments, PaymentStep(p)
  PROVE  Inv'
<1> USE DEF Inv
<1>1. UNCHANGED <<link, invoice, counter, visitor, merchant, now, subscription, worker>>
  BY DEF PaymentStep, SendMoney, Credit, Hold, Promote, Sweep, Expire, ReapLate, billingVars
<1>2. pay \in [Payments -> PayRows] /\ pay[p] \in PayRows
  BY DEF CheckoutTypes
<1>3. pay[p].received # "nothing" <=> pay[p].status \in {"confirming", "partial"} \cup Paid
  BY DEF CheckoutInv, CreditIsStatus
<1>4. /\ pay'[p] \in PayRows /\ \A q \in Payments \ {p} : pay'[q] = pay[q]
      /\ pay' \in [Payments -> PayRows]
      /\ pay'[p].link = pay[p].link
  <2>1. CASE Credit(p)
    <3>1. PICK sum \in Receipts :
            pay' = [pay EXCEPT ![p].received = sum, ![p].status = IF @ = "waiting" THEN "confirming" ELSE @]
      BY <2>1 DEF Credit
    <3>2. DEFINE row == [pay[p] EXCEPT !.received = sum,
                                       !.status = IF @ = "waiting" THEN "confirming" ELSE @]
    <3>3. row \in PayRows /\ row.link = pay[p].link
      BY <1>2 DEF PayRows, Live, Paid
    <3> QED  BY <1>2, <3>1, <3>3
  <2>2. CASE SendMoney(p) \/ ReapLate(p)
    <3>1. /\ [pay[p] EXCEPT !.funded = TRUE] \in PayRows /\ [pay[p] EXCEPT !.late = TRUE] \in PayRows
          /\ [pay[p] EXCEPT !.funded = TRUE].link = pay[p].link
          /\ [pay[p] EXCEPT !.late = TRUE].link = pay[p].link
      BY <1>2 DEF PayRows
    <3> QED  BY <1>2, <2>2, <3>1 DEF SendMoney, ReapLate
  <2>3. CASE Hold(p) \/ Promote(p) \/ Sweep(p) \/ Expire(p)
    <3>1. \A c \in {"partial", "confirmed", "swept", "expired"} :
            /\ [pay[p] EXCEPT !.status = c] \in PayRows
            /\ [pay[p] EXCEPT !.status = c].link = pay[p].link
      BY <1>2 DEF PayRows, Live, Paid
    <3> QED  BY <1>2, <2>3, <3>1 DEF Hold, Promote, Sweep, Expire
  <2> QED  BY <2>1, <2>2, <2>3 DEF PaymentStep
<1>5. /\ pay'[p].status = "none" <=> pay[p].status = "none"
      /\ pay'[p].received # "nothing" <=> pay'[p].status \in {"confirming", "partial"} \cup Paid
      /\ pay'[p].status \in Live \/ pay'[p].received # "nothing" =>
             pay[p].status \in Live \/ pay[p].received # "nothing"
  <2>1. CASE Credit(p)
    <3>1. PICK sum \in Receipts :
            pay' = [pay EXCEPT ![p].received = sum, ![p].status = IF @ = "waiting" THEN "confirming" ELSE @]
      BY <2>1 DEF Credit
    <3>2. /\ pay'[p].received = sum /\ sum # "nothing"
          /\ pay'[p].status = IF pay[p].status = "waiting" THEN "confirming" ELSE pay[p].status
      BY <1>2, <3>1 DEF PayRows, Receipts
    <3>3. pay[p].status \in {"waiting", "confirming", "partial"}
      BY <2>1 DEF Credit, Live
    <3> QED  BY <3>2, <3>3 DEF Live
  <2>2. CASE SendMoney(p) \/ ReapLate(p)
    BY <1>2, <1>3, <2>2 DEF SendMoney, ReapLate, PayRows
  <2>3. CASE Hold(p) \/ Promote(p) \/ Sweep(p)
    BY <1>2, <1>3, <2>3 DEF Hold, Promote, Sweep, PayRows, Live, Paid
  <2>4. CASE Expire(p)
    BY <1>2, <1>3, <2>4 DEF Expire, PayRows, Live, Paid
  <2> QED  BY <2>1, <2>2, <2>3, <2>4 DEF PaymentStep
<1>6. \/ ~PayLocked(p) /\ pay[p].status \in Live
      \/ pay'[p].status \notin Live \/ pay'[p].received = "nothing"
      \/ pay'[p].status = pay[p].status /\ pay'[p].received = pay[p].received
  BY <1>2 DEF PaymentStep, SendMoney, Credit, Hold, Promote, Sweep, Expire, ReapLate, PayRows, Live, Paid
<1>7. CheckoutTypes' /\ BillingTypes'
  BY <1>1, <1>4 DEF CheckoutTypes, BillingTypes
<1>8. CreditIsStatus'
  BY <1>4, <1>5 DEF CheckoutInv, CreditIsStatus
<1>9. VoidFoundNone'
  BY <1>1, <1>4, <1>5, <1>6 DEF CheckoutInv, VoidFoundNone, OnLink, PayLocked
<1>10. CheckoutInv'
  BY <1>1, <1>4, <1>5, <1>8, <1>9, CheckoutKept
<1>11. BillingInv'
  BY <1>1, BillingKept
<1> QED  BY <1>7, <1>10, <1>11

-----------------------------------------------------------------------------
(* The customers.                                                            *)

\* A customer who leaves, or is in the way of nobody.
LEMMA LeaveInv ==
  ASSUME Inv, UNCHANGED <<link, invoice, counter, pay, merchant, billingVars>>,
         NEW v \in Visitors, Leave(v)
  PROVE  Inv'
<1> USE DEF Inv
<1>1. /\ visitor' \in [Visitors -> Claims]
      /\ \A u \in Visitors : visitor'[u] = visitor[u] \/ visitor'[u].at = "away"
  BY CheckoutAssumption DEF Leave, Away, CheckoutTypes, Claims, Links
<1>2. CheckoutTypes' /\ BillingTypes'
  BY <1>1 DEF CheckoutTypes, BillingTypes, billingVars
<1>3. CreditIsStatus' /\ VoidFoundNone'
  BY VoidKept DEF CheckoutInv, CreditIsStatus
<1>4. CheckoutInv'
  BY <1>1, <1>3, CheckoutKept
<1>5. BillingInv'
  BY BillingKept DEF billingVars
<1> QED  BY <1>2, <1>4, <1>5

\* A link is locked by one customer.
LEMMA ClaimLockInv ==
  ASSUME Inv, UNCHANGED billingVars, NEW v \in Visitors, NEW l \in Links, ClaimLock(v, l)
  PROVE  Inv'
<1> USE DEF Inv
<1>1. /\ visitor' = [visitor EXCEPT ![v] = [at |-> "locked", link |-> l, uses |-> 0]]
      /\ link[l].status # "none"
      /\ \A u \in Visitors : visitor[u].at = "away" \/ visitor[u].link # l
      /\ UNCHANGED <<link, invoice, counter, pay, merchant, billingVars>>
  BY DEF ClaimLock, LinkLocked
<1>2. CheckoutTypes' /\ BillingTypes'
  BY <1>1 DEF CheckoutTypes, BillingTypes, Claims, billingVars
<1>3. CreditIsStatus' /\ VoidFoundNone'
  BY <1>1, VoidKept DEF CheckoutInv, CreditIsStatus
<1>4. \A k : OnLink(k)' = OnLink(k) /\ Held(k)' = Held(k)
  BY <1>1 DEF OnLink, Held, Credited
<1>5. NewLinkIsEmpty' /\ OneClaim'
  BY <1>1, <1>4 DEF CheckoutInv, CheckoutTypes, Claims, NewLinkIsEmpty, OneClaim
<1>6. UseIsLeft' /\ HeldWithinCap'
  BY <1>1, <1>4 DEF CheckoutInv, CheckoutTypes, Claims, UseIsLeft, HeldWithinCap
<1>7. BillingInv'
  BY <1>1, BillingKept DEF billingVars
<1> QED  BY <1>2, <1>3, <1>5, <1>6, <1>7 DEF CheckoutInv

\* What holds a use is not released, so the count does not miss it.
LEMMA HeldIsConsumed ==
  ASSUME CheckoutTypes, CreditIsStatus, NEW l \in Links, NEW n \in Nat, Consumed(l) < n
  PROVE  Cardinality(Held(l)) < n
<1>1. Held(l) \subseteq {p \in OnLink(l) : ~Released(p)}
  BY DEF Held, OnLink, Released, CreditIsStatus, Live, Paid, Credited
<1>2. IsFiniteSet({p \in OnLink(l) : ~Released(p)})
  BY HeldIsFinite, FS_Subset
<1> QED  BY <1>1, <1>2, Fewer DEF Consumed

LEMMA ClaimCountInv ==
  ASSUME Inv, UNCHANGED billingVars, NEW v \in Visitors, ClaimCount(v)
  PROVE  Inv'
<1> USE DEF Inv
<1> DEFINE l == visitor[v].link
           uses == IF link[l].cap = NoCap THEN link[l].used ELSE Consumed(l)
<1>1. /\ visitor[v].at = "locked"
      /\ UNCHANGED <<link, invoice, counter, pay, merchant, billingVars>>
  BY DEF ClaimCount
<1>2. CASE Leave(v)
  BY <1>1, <1>2, LeaveInv
<1>3. CASE Usable(l, uses) /\ visitor' = [visitor EXCEPT ![v].at = "counted", ![v].uses = uses]
  <2>1. l \in Links /\ link[l] \in LinkRows
    BY DEF CheckoutTypes, Claims
  <2>2. uses \in Nat
    <3>1. Consumed(l) \in Nat
      BY <2>1, HeldIsFinite, FS_Subset, FS_CardinalityType DEF Consumed
    <3> QED  BY <2>1, <3>1 DEF LinkRows
  <2> HIDE DEF uses
  <2>3. /\ visitor' \in [Visitors -> Claims]
        /\ visitor'[v].at = "counted" /\ visitor'[v].link = l
        /\ \A u \in Visitors \ {v} : visitor'[u] = visitor[u]
    <3>1. visitor \in [Visitors -> Claims]
      BY DEF CheckoutTypes
    <3>2. /\ [visitor[v] EXCEPT !.at = "counted", !.uses = uses] \in Claims
          /\ [visitor[v] EXCEPT !.at = "counted", !.uses = uses].at = "counted"
          /\ [visitor[v] EXCEPT !.at = "counted", !.uses = uses].link = l
      BY <2>2, <3>1 DEF Claims
    <3> QED  BY <1>3, <3>1, <3>2
  <2>4. CheckoutTypes' /\ BillingTypes'
    BY <1>1, <2>3 DEF CheckoutTypes, BillingTypes, billingVars
  <2>5. CreditIsStatus' /\ VoidFoundNone'
    BY <1>1, VoidKept DEF CheckoutInv, CreditIsStatus
  <2>6. \A k : OnLink(k)' = OnLink(k) /\ Held(k)' = Held(k)
    BY <1>1 DEF OnLink, Held, Credited
  <2>7. NewLinkIsEmpty' /\ OneClaim' /\ HeldWithinCap'
    BY <1>1, <2>3, <2>6 DEF CheckoutInv, NewLinkIsEmpty, OneClaim, HeldWithinCap
  <2>8. link[l].cap # NoCap => Cardinality(Held(l)) < link[l].cap
    BY <1>3, <2>1, HeldIsConsumed DEF CheckoutInv, Usable, uses, LinkRows
  <2>9. UseIsLeft'
    BY <1>1, <2>3, <2>6, <2>8 DEF CheckoutInv, UseIsLeft
  <2>10. BillingInv'
    BY <1>1, BillingKept DEF billingVars
  <2> QED  BY <2>4, <2>5, <2>7, <2>9, <2>10 DEF CheckoutInv
<1> QED  BY <1>2, <1>3 DEF ClaimCount

\* The use that was left is taken, and nobody else has counted on it.
LEMMA ClaimCommitInv ==
  ASSUME Inv, UNCHANGED billingVars, NEW v \in Visitors, NEW p \in Payments, ClaimCommit(v, p)
  PROVE  Inv'
<1> USE DEF Inv
<1> SUFFICES ASSUME NEW l \in Links, l = visitor[v].link  PROVE Inv'
  BY DEF CheckoutTypes, Claims
<1>1. /\ visitor[v].at = "counted" /\ pay[p].status = "none" /\ Leave(v)
      /\ pay' = [pay EXCEPT ![p].status = "waiting", ![p].link = l]
      /\ link' = [link EXCEPT ![l].used = visitor[v].uses + 1]
      /\ UNCHANGED <<invoice, counter, merchant, billingVars>>
  BY DEF ClaimCommit
<1>2. /\ l \in Links /\ visitor[v].uses \in Nat /\ link[l].cap \in Nat
      /\ pay \in [Payments -> PayRows] /\ link \in [Links -> LinkRows]
  BY DEF CheckoutTypes, Claims, LinkRows
<1>3. pay[p].received = "nothing"
  BY <1>1 DEF CheckoutInv, CreditIsStatus, Paid
<1>4. /\ pay' \in [Payments -> PayRows] /\ \A q \in Payments \ {p} : pay'[q] = pay[q]
      /\ pay'[p].status = "waiting" /\ pay'[p].link = l /\ pay'[p].received = "nothing"
  <2>1. /\ [pay[p] EXCEPT !.status = "waiting", !.link = l] \in PayRows
        /\ [pay[p] EXCEPT !.status = "waiting", !.link = l].status = "waiting"
        /\ [pay[p] EXCEPT !.status = "waiting", !.link = l].link = l
        /\ [pay[p] EXCEPT !.status = "waiting", !.link = l].received = pay[p].received
    BY <1>2 DEF PayRows, Live
  <2> QED  BY <1>1, <1>2, <1>3, <2>1
<1>5. /\ link' \in [Links -> LinkRows]
      /\ \A k \in Links : link'[k].cap = link[k].cap /\ link'[k].status = link[k].status
  BY <1>1, <1>2 DEF LinkRows
<1>6. /\ visitor' \in [Visitors -> Claims] /\ visitor'[v].at = "away"
      /\ \A u \in Visitors \ {v} : visitor'[u] = visitor[u]
  BY <1>1, CheckoutAssumption DEF Leave, Away, CheckoutTypes, Claims, Links
<1>7. CheckoutTypes' /\ BillingTypes'
  BY <1>1, <1>4, <1>5, <1>6 DEF CheckoutTypes, BillingTypes, billingVars
<1>8. CreditIsStatus'
  BY <1>4 DEF CheckoutInv, CreditIsStatus, Paid
<1>9. VoidFoundNone'
  BY <1>1, <1>4 DEF CheckoutInv, VoidFoundNone, OnLink
<1>10. /\ Held(l)' = Held(l) \cup {p} /\ OnLink(l)' = OnLink(l) \cup {p}
       /\ \A k : k # l => Held(k)' = Held(k) /\ OnLink(k)' = OnLink(k)
       /\ p \notin Held(l)
  <2>1. OnLink(l)' = OnLink(l) \cup {p} /\ \A k : k # l => OnLink(k)' = OnLink(k)
    BY <1>1, <1>4 DEF OnLink
  <2>2. \A k : p \notin OnLink(k)
    BY <1>1 DEF OnLink
  <2>3. \A q \in Payments \ {p} : pay'[q] = pay[q]
    BY <1>4
  <2> QED  BY <1>4, <2>1, <2>2, <2>3 DEF Held, Live, OnLink, Credited
<1>11. link[l].status # "none"
  BY <1>1, <1>2 DEF CheckoutInv, NewLinkIsEmpty
<1>12. NewLinkIsEmpty'
  <2>1. \A n \in Invoices : link'[n].status = link[n].status
    BY <1>5 DEF Links, Invoices
  <2> QED  BY <1>1, <1>5, <1>6, <1>10, <1>11, <2>1 DEF CheckoutInv, NewLinkIsEmpty
<1>13. OneClaim'
  BY <1>6 DEF CheckoutInv, OneClaim
<1>14. HeldWithinCap'
  <2>1. CASE link[l].cap = NoCap
    BY <1>5, <1>10, <2>1 DEF CheckoutInv, HeldWithinCap
  <2>2. CASE link[l].cap # NoCap
    <3>1. Cardinality(Held(l)) < link[l].cap
      BY <1>1, <2>2 DEF CheckoutInv, UseIsLeft
    <3>2. /\ Cardinality(Held(l) \cup {p}) = Cardinality(Held(l)) + 1
          /\ Cardinality(Held(l)) \in Nat
      BY <1>10, HeldIsFinite, FS_AddElement, FS_CardinalityType
    <3>3. Cardinality(Held(l) \cup {p}) <= link[l].cap
      BY <1>2, <3>1, <3>2
    <3>4. Cardinality(Held(l)') <= link'[l].cap
      BY <1>2, <1>5, <1>10, <3>3
    <3>5. \A k \in Links \ {l} : Held(k)' = Held(k) /\ link'[k].cap = link[k].cap
      BY <1>5, <1>10
    <3> QED  BY <3>4, <3>5 DEF CheckoutInv, HeldWithinCap
  <2> QED  BY <2>1, <2>2
<1>15. UseIsLeft'
  <2>1. \A u \in Visitors \ {v} : visitor[u].at = "counted" => visitor[u].link # l
    BY <1>1 DEF CheckoutInv, OneClaim
  <2>2. \A u \in Visitors : visitor[u].link \in Links
    BY DEF CheckoutTypes, Claims
  <2> QED  BY <1>5, <1>6, <1>10, <2>1, <2>2 DEF CheckoutInv, UseIsLeft
<1>16. BillingInv'
  BY <1>1, BillingKept DEF billingVars
<1> QED  BY <1>7, <1>8, <1>9, <1>12, <1>13, <1>14, <1>15, <1>16 DEF CheckoutInv

-----------------------------------------------------------------------------
(* The links and invoices.                                                   *)

\* A link that is made has all of its uses.
LEMMA LinkMade ==
  ASSUME CheckoutTypes, CheckoutInv, UNCHANGED <<pay, visitor>>,
         \A m \in Merchants : merchant'[m].at = "read" => merchant'[m] = merchant[m],
         NEW l \in Links, link[l].status = "none",
         NEW row \in LinkRows, row.status = "active", link' = [link EXCEPT ![l] = row],
         \A n \in Invoices : invoice'[n].status = "none" => invoice[n].status = "none" /\ n # l
  PROVE  CheckoutInv'
<1> USE DEF CheckoutInv
<1>1. CreditIsStatus' /\ OneClaim' /\ VoidFoundNone'
  BY VoidKept DEF CreditIsStatus, OneClaim
<1>2. /\ \A k : OnLink(k)' = OnLink(k) /\ Held(k)' = Held(k)
      /\ OnLink(l) = {} /\ Held(l) = {}
      /\ \A v \in Visitors : visitor[v].at = "away" \/ visitor[v].link # l
  BY DEF OnLink, Held, NewLinkIsEmpty, Credited
<1>3. link'[l] = row /\ \A k \in Links \ {l} : link'[k] = link[k]
  BY DEF CheckoutTypes
<1>4. NewLinkIsEmpty'
  BY <1>2, <1>3 DEF NewLinkIsEmpty, Links, Invoices
<1>5. HeldWithinCap'
  <2>1. Cardinality(Held(l)) <= row.cap
    BY <1>2, FS_EmptySet DEF LinkRows
  <2> QED  BY <1>2, <1>3, <2>1 DEF HeldWithinCap
<1>6. UseIsLeft'
  <2>1. \A v \in Visitors : visitor[v].link \in Links
    BY DEF CheckoutTypes, Claims
  <2> QED  BY <1>2, <1>3, <2>1 DEF UseIsLeft
<1> QED  BY <1>1, <1>4, <1>5, <1>6

LEMMA CreateLinkInv ==
  ASSUME Inv, UNCHANGED billingVars, NEW cap \in Caps, CreateLink(cap)
  PROVE  Inv'
<1> USE DEF Inv
<1> DEFINE row == [status |-> "active", cap |-> cap, used |-> 0]
<1>1. /\ link[0].status = "none" /\ link' = [link EXCEPT ![0] = row]
      /\ UNCHANGED <<invoice, counter, pay, visitor, merchant, billingVars>>
  BY DEF CreateLink
<1>2. row \in LinkRows /\ row.status = "active" /\ 0 \in Links
  BY CheckoutAssumption DEF LinkRows, Links
<1>3. CheckoutTypes' /\ BillingTypes'
  BY <1>1, <1>2 DEF CheckoutTypes, BillingTypes, billingVars
<1> HIDE DEF row
<1>4. CheckoutInv'
  <2>1. \A n \in Invoices : n # 0
    BY DEF Invoices
  <2> QED  BY <1>1, <1>2, <2>1, LinkMade
<1>5. BillingInv'
  BY <1>1, BillingKept DEF billingVars
<1> QED  BY <1>3, <1>4, <1>5

LEMMA SetLinkStatusInv ==
  ASSUME Inv, UNCHANGED billingVars, NEW l \in Links, NEW s \in {"active", "disabled"},
         SetLinkStatus(l, s)
  PROVE  Inv'
<1> USE DEF Inv
<1>1. /\ link[l].status # "none" /\ link' = [link EXCEPT ![l].status = s]
      /\ UNCHANGED <<invoice, counter, pay, visitor, merchant, billingVars>>
  BY DEF SetLinkStatus
<1>2. /\ link' \in [Links -> LinkRows]
      /\ \A k \in Links : link'[k].cap = link[k].cap
      /\ \A k \in Links : link'[k].status = "none" <=> link[k].status = "none"
  BY <1>1 DEF CheckoutTypes, LinkRows
<1>3. CheckoutTypes' /\ BillingTypes'
  BY <1>1, <1>2 DEF CheckoutTypes, BillingTypes, billingVars
<1>4. CreditIsStatus' /\ VoidFoundNone'
  BY <1>1, VoidKept DEF CheckoutInv, CreditIsStatus
<1>5. \A k : OnLink(k)' = OnLink(k) /\ Held(k)' = Held(k)
  BY <1>1 DEF OnLink, Held, Credited
<1>6. NewLinkIsEmpty' /\ OneClaim' /\ HeldWithinCap'
  BY <1>1, <1>2, <1>5 DEF CheckoutInv, NewLinkIsEmpty, OneClaim, HeldWithinCap, Links, Invoices
<1>7. UseIsLeft'
  <2>1. \A v \in Visitors : visitor[v].link \in Links
    BY DEF CheckoutTypes, Claims
  <2> QED  BY <1>1, <1>2, <1>5, <2>1 DEF CheckoutInv, UseIsLeft
<1>8. BillingInv'
  BY <1>1, BillingKept DEF billingVars
<1> QED  BY <1>3, <1>4, <1>6, <1>7, <1>8 DEF CheckoutInv

\* A number is taken by one who finds none taken.
LEMMA StartInvoiceInv ==
  ASSUME Inv, UNCHANGED billingVars, NEW m \in Merchants, StartInvoice(m)
  PROVE  Inv'
<1> USE DEF Inv
<1>1. /\ counter.next \in Invoices /\ counter.holder = None
      /\ counter' = [counter EXCEPT !.holder = m]
      /\ merchant' = [merchant EXCEPT ![m] = [at |-> "numbered", n |-> counter.next]]
      /\ UNCHANGED <<link, invoice, pay, visitor, billingVars>>
  BY DEF StartInvoice, CounterFree, NumberFor
<1>2. CheckoutTypes' /\ BillingTypes'
  BY <1>1 DEF CheckoutTypes, BillingTypes, Requests, Invoices, billingVars
<1>3. counter'.holder = m /\ counter'.next = counter.next
  BY <1>1 DEF CheckoutTypes
<1>4. /\ merchant'[m] = [at |-> "numbered", n |-> counter.next]
      /\ \A k \in Merchants \ {m} : merchant'[k] = merchant[k]
  BY <1>1 DEF CheckoutTypes
<1>5. CreditIsStatus' /\ VoidFoundNone'
  BY <1>1, <1>4, VoidKept DEF CheckoutInv, CreditIsStatus
<1>6. CheckoutInv'
  BY <1>1, <1>5, CheckoutKept
<1>7. /\ \A k \in Merchants : merchant[k].at # "numbered"
      /\ \A w \in Workers : worker[w].at # "numbered"
  BY <1>1, CheckoutAssumption, BillingAssumption DEF BillingInv, NumberIsHeld
<1>8. NumberIsHeld' /\ NumbersAreWhole' /\ NewIsNobodys' /\ VoidHasInvoice'
  BY <1>1, <1>3, <1>4, <1>7
  DEF BillingInv, NumberIsHeld, NumbersAreWhole, NewIsNobodys, VoidHasInvoice, Voids, billingVars
<1>9. OneBiller'
  BY <1>1 DEF BillingInv, OneBiller, InBill, Due, Date, billingVars
<1>10. CyclesAreWhole'
  BY <1>1, CyclesSame DEF BillingInv, billingVars
<1> QED  BY <1>2, <1>6, <1>8, <1>9, <1>10 DEF BillingInv

\* The holder of the counter is the only one with a number.
LEMMA OnlyHolder ==
  ASSUME NumberIsHeld
  PROVE  /\ \A m \in Merchants : merchant[m].at = "numbered" =>
              /\ \A k \in Merchants \ {m} : merchant[k].at # "numbered"
              /\ \A w \in Workers : worker[w].at # "numbered"
         /\ \A w \in Workers : worker[w].at = "numbered" =>
              /\ \A k \in Workers \ {w} : worker[k].at # "numbered"
              /\ \A m \in Merchants : merchant[m].at # "numbered"
BY BillingAssumption DEF NumberIsHeld

\* The rows of an invoice, where there was none.
LEMMA InsertRows ==
  ASSUME CheckoutTypes, CheckoutInv, UNCHANGED <<pay, visitor>>,
         \A m \in Merchants : merchant'[m].at = "read" => merchant'[m] = merchant[m],
         NEW n \in Invoices, invoice[n].status = "none", NEW state \in {"open", "draft"},
         NEW sub \in Subs \cup {None}, NEW cycle \in Nat, NEW period \in Nat,
         Insert(n, state, sub, cycle, period)
  PROVE  /\ link' \in [Links -> LinkRows] /\ invoice' \in [Invoices -> InvoiceRows]
         /\ CheckoutInv'
<1> DEFINE row == [status |-> state, sub |-> sub, cycle |-> cycle, period |-> period]
<1>1. invoice' = [invoice EXCEPT ![n] = row] /\ row \in InvoiceRows /\ row.status # "none"
  BY DEF Insert, InvoiceRows
<1> HIDE DEF row
<1>2. /\ invoice' \in [Invoices -> InvoiceRows]
      /\ invoice'[n].status # "none" /\ \A k \in Invoices \ {n} : invoice'[k] = invoice[k]
  BY <1>1 DEF CheckoutTypes
<1>3. n \in Links /\ link[n].status = "none"
  BY DEF CheckoutInv, NewLinkIsEmpty, Links, Invoices
<1>4. CASE state = "open"
  <2>1. link' = [link EXCEPT ![n] = NewLink]
    BY <1>4 DEF Insert
  <2>2. NewLink \in LinkRows /\ NewLink.status = "active"
    BY DEF NewLink, LinkRows
  <2>3. link' \in [Links -> LinkRows]
    BY <2>1, <2>2 DEF CheckoutTypes
  <2> QED  BY <1>2, <1>3, <2>1, <2>2, <2>3, LinkMade
<1>5. CASE state = "draft"
  <2>1. UNCHANGED link
    BY <1>5 DEF Insert
  <2>2. CreditIsStatus' /\ VoidFoundNone'
    BY VoidKept DEF CheckoutInv, CreditIsStatus
  <2>3. CheckoutInv'
    BY <1>2, <2>1, <2>2, CheckoutKept
  <2> QED  BY <1>2, <2>1, <2>3 DEF CheckoutTypes
<1> QED  BY <1>4, <1>5

LEMMA CommitInvoiceInv ==
  ASSUME Inv, UNCHANGED billingVars, NEW m \in Merchants, CommitInvoice(m)
  PROVE  Inv'
<1> USE DEF Inv
<1> SUFFICES ASSUME NEW n \in Invoices, n = merchant[m].n  PROVE Inv'
  BY DEF CommitInvoice, BillingInv, NumberIsHeld
<1>1. /\ merchant[m].at = "numbered" /\ counter.next = n /\ invoice[n].status = "none"
      /\ counter' = [next |-> n + 1, holder |-> None]
      /\ merchant' = [merchant EXCEPT ![m] = Idle]
      /\ UNCHANGED <<pay, visitor, billingVars>>
  BY DEF CommitInvoice, BillingInv, NumberIsHeld, NumbersAreWhole, Taken, Rest, Invoices
<1>2. PICK state \in {"open", "draft"} : Insert(n, state, None, 0, 0)
  BY DEF CommitInvoice
<1>3. /\ merchant' \in [Merchants -> Requests] /\ merchant'[m].at = "idle"
      /\ \A k \in Merchants \ {m} : merchant'[k] = merchant[k]
  BY <1>1, CheckoutAssumption DEF CheckoutTypes, Requests, Idle
<1>4. /\ link' \in [Links -> LinkRows] /\ invoice' \in [Invoices -> InvoiceRows]
      /\ CheckoutInv'
  BY <1>1, <1>2, <1>3, InsertRows
<1>5. CheckoutTypes' /\ BillingTypes'
  BY <1>1, <1>3, <1>4 DEF CheckoutTypes, BillingTypes, Invoices, billingVars
<1>6. /\ invoice'[n].status # "none" /\ invoice'[n].sub = None
      /\ \A k \in Invoices \ {n} : invoice'[k] = invoice[k]
  BY <1>2 DEF Insert, CheckoutTypes
<1>7. NumberIsHeld'
  BY <1>1, <1>3, OnlyHolder DEF BillingInv, NumberIsHeld, billingVars
<1>8. NumbersAreWhole'
  BY <1>1, <1>6, CheckoutAssumption DEF BillingInv, NumbersAreWhole, Invoices
<1>9. NewIsNobodys' /\ VoidHasInvoice'
  BY <1>3, <1>6 DEF BillingInv, NewIsNobodys, VoidHasInvoice, Voids
<1>10. OneBiller'
  BY <1>1 DEF BillingInv, OneBiller, InBill, Due, Date, billingVars
<1>11. CyclesAreWhole'
  <2>1. invoice[n].sub = None
    BY <1>1 DEF BillingInv, NewIsNobodys
  <2>2. \A s \in Subs : n \notin InvoicesOf(s) /\ InvoicesOf(s)' = InvoicesOf(s)
    BY <1>6, <2>1, BillingAssumption DEF InvoicesOf
  <2>3. \A s \in Subs : \A k \in InvoicesOf(s) : invoice'[k] = invoice[k]
    BY <1>6, <2>2 DEF InvoicesOf
  <2>4. \A s \in Subs : Whole(s) /\ \A k \in InvoicesOf(s) : invoice[k].period < subscription'[s].next
    BY <1>1 DEF BillingInv, CyclesAreWhole, Whole, billingVars
  <2> QED  BY <1>1, <2>2, <2>3, <2>4, CyclesKept DEF CyclesAreWhole, billingVars
<1> QED  BY <1>4, <1>5, <1>7, <1>8, <1>9, <1>10, <1>11 DEF BillingInv

LEMMA AbandonInvoiceInv ==
  ASSUME Inv, UNCHANGED billingVars, NEW m \in Merchants, AbandonInvoice(m)
  PROVE  Inv'
<1> USE DEF Inv
<1>1. /\ merchant[m].at = "numbered"
      /\ counter' = [counter EXCEPT !.holder = None]
      /\ merchant' = [merchant EXCEPT ![m] = Idle]
      /\ UNCHANGED <<link, invoice, pay, visitor, billingVars>>
  BY DEF AbandonInvoice, GivenBack, Rest
<1>2. /\ merchant' \in [Merchants -> Requests] /\ merchant'[m].at = "idle"
      /\ \A k \in Merchants \ {m} : merchant'[k] = merchant[k]
      /\ counter' \in [next : Nat, holder : Workers \cup Merchants \cup {None}]
      /\ counter'.next = counter.next
  BY <1>1, CheckoutAssumption DEF CheckoutTypes, Requests, Idle
<1>3. CheckoutTypes' /\ BillingTypes'
  BY <1>1, <1>2 DEF CheckoutTypes, BillingTypes, billingVars
<1>4. CreditIsStatus' /\ VoidFoundNone'
  BY <1>1, <1>2, VoidKept DEF CheckoutInv, CreditIsStatus
<1>5. CheckoutInv'
  BY <1>1, <1>4, CheckoutKept
<1>6. NumberIsHeld' /\ NumbersAreWhole' /\ NewIsNobodys' /\ VoidHasInvoice'
  BY <1>1, <1>2, OnlyHolder
  DEF BillingInv, NumberIsHeld, NumbersAreWhole, NewIsNobodys, VoidHasInvoice, Voids, billingVars
<1>7. OneBiller'
  BY <1>1 DEF BillingInv, OneBiller, InBill, Due, Date, billingVars
<1>8. CyclesAreWhole'
  BY <1>1, CyclesSame DEF BillingInv, billingVars
<1> QED  BY <1>3, <1>5, <1>6, <1>7, <1>8 DEF BillingInv

\* The steps of a void that write nothing.
LEMMA VoidGoesOn ==
  ASSUME Inv, UNCHANGED <<link, invoice, counter, pay, visitor, billingVars>>, NEW m \in Merchants,
         NEW row \in Requests, merchant' = [merchant EXCEPT ![m] = row],
         row.at # "idle" => /\ row.at # "numbered"
                            /\ row.n \in Invoices /\ invoice[row.n].status # "none",
         row.at = "read" => \A p \in OnLink(row.n) : pay[p].status \in Live => pay[p].received = "nothing"
  PROVE  Inv'
<1> USE DEF Inv
<1>1. /\ merchant' \in [Merchants -> Requests] /\ merchant'[m] = row
      /\ \A k \in Merchants \ {m} : merchant'[k] = merchant[k]
  BY DEF CheckoutTypes
<1>2. CheckoutTypes' /\ BillingTypes'
  BY <1>1 DEF CheckoutTypes, BillingTypes, billingVars
<1>3. CreditIsStatus' /\ VoidFoundNone'
  BY <1>1 DEF CheckoutInv, CreditIsStatus, VoidFoundNone, OnLink
<1>4. CheckoutInv'
  BY <1>3, CheckoutKept
<1>5. BillingInv'
  BY <1>1, BillingKept DEF billingVars
<1> QED  BY <1>2, <1>4, <1>5

LEMMA VoidLockInv ==
  ASSUME Inv, UNCHANGED billingVars, NEW m \in Merchants, NEW n \in Invoices, VoidLock(m, n)
  PROVE  Inv'
<1>1. UNCHANGED <<link, invoice, counter, pay, visitor, billingVars>>
  BY DEF VoidLock
<1>2. CASE merchant' = merchant
  BY <1>1, <1>2, StutterInv DEF checkoutVars
<1>3. CASE merchant' = [merchant EXCEPT ![m] = [at |-> "voiding", n |-> n]]
  <2>1. [at |-> "voiding", n |-> n] \in Requests /\ invoice[n].status # "none"
    BY DEF VoidLock, Requests, Invoices
  <2> QED  BY <1>1, <1>3, <2>1, VoidGoesOn
<1> QED  BY <1>2, <1>3 DEF VoidLock

LEMMA VoidDisableInv ==
  ASSUME Inv, UNCHANGED billingVars, NEW m \in Merchants, VoidDisable(m) \/ VoidRead(m)
  PROVE  Inv'
<1>1. /\ UNCHANGED <<link, invoice, counter, pay, visitor, billingVars>>
      /\ merchant[m].at \in {"voiding", "disabled"} /\ merchant[m] \in Requests
      /\ merchant[m].n \in Invoices /\ invoice[merchant[m].n].status # "none"
  BY DEF VoidDisable, VoidRead, Inv, CheckoutTypes, BillingInv, VoidHasInvoice, Voids, Credited
<1>2. \A l \in {"disabled", "read"} :
        /\ [merchant[m] EXCEPT !.at = l] \in Requests
        /\ [merchant[m] EXCEPT !.at = l].at = l
        /\ [merchant[m] EXCEPT !.at = l].n = merchant[m].n
  BY <1>1 DEF Requests
<1>3. CASE Rest(m)
  <2>1. Idle \in Requests /\ Idle.at = "idle"
    BY CheckoutAssumption DEF Idle, Requests
  <2> QED  BY <1>1, <1>3, <2>1, VoidGoesOn DEF Rest
<1>4. CASE merchant' = [merchant EXCEPT ![m] = [merchant[m] EXCEPT !.at = "disabled"]]
  BY <1>1, <1>2, <1>4, VoidGoesOn
<1>5. CASE /\ merchant' = [merchant EXCEPT ![m] = [merchant[m] EXCEPT !.at = "read"]]
           /\ ~\E p \in OnLink(merchant[m].n) : pay[p].status \in Live /\ pay[p].received # "nothing"
  BY <1>1, <1>2, <1>5, VoidGoesOn
<1> QED  BY <1>3, <1>4, <1>5 DEF VoidDisable, VoidRead, Credited

\* A void ends the payments it found, which were all empty.
LEMMA VoidCommitInv ==
  ASSUME Inv, UNCHANGED billingVars, NEW m \in Merchants, VoidCommit(m)
  PROVE  Inv'
<1> USE DEF Inv
<1> SUFFICES ASSUME NEW n \in Invoices, n = merchant[m].n, invoice[n].status # "none"  PROVE Inv'
  BY DEF VoidCommit, BillingInv, VoidHasInvoice, Voids
<1>1. /\ pay' = [p \in Payments |-> IF Abandoned(p, n) THEN [pay[p] EXCEPT !.status = "expired"] ELSE pay[p]]
      /\ link' = IF invoice[n].status = "open" THEN [link EXCEPT ![n].status = "disabled"] ELSE link
      /\ invoice' = [invoice EXCEPT ![n].status = "void"]
      /\ merchant' = [merchant EXCEPT ![m] = Idle]
      /\ UNCHANGED <<counter, visitor, billingVars>>
  BY DEF VoidCommit, Rest
<1>2. /\ merchant' \in [Merchants -> Requests] /\ merchant'[m].at = "idle"
      /\ \A k \in Merchants \ {m} : merchant'[k] = merchant[k]
  BY <1>1, CheckoutAssumption DEF CheckoutTypes, Requests, Idle
<1>3. /\ link' \in [Links -> LinkRows]
      /\ \A l \in Links : link'[l].cap = link[l].cap /\ (l # n => link'[l] = link[l])
      /\ \A l \in Links : link'[l].status = "none" => link[l].status = "none"
  <2>1. link \in [Links -> LinkRows] /\ n \in Links
    BY DEF CheckoutTypes, Links, Invoices
  <2>2. /\ [link[n] EXCEPT !.status = "disabled"] \in LinkRows
        /\ [link[n] EXCEPT !.status = "disabled"].cap = link[n].cap
        /\ [link[n] EXCEPT !.status = "disabled"].status = "disabled"
    BY <2>1 DEF LinkRows
  <2> QED  BY <1>1, <2>1, <2>2
<1>4. /\ invoice' \in [Invoices -> InvoiceRows] /\ invoice'[n].status = "void"
      /\ \A k \in Invoices : /\ invoice'[k].sub = invoice[k].sub /\ invoice'[k].cycle = invoice[k].cycle
                             /\ invoice'[k].period = invoice[k].period
                             /\ k # n => invoice'[k] = invoice[k]
  BY <1>1 DEF CheckoutTypes, InvoiceRows
<1>5. \A p \in Payments :
        \/ pay'[p] = pay[p]
        \/ /\ pay'[p] \in PayRows /\ pay'[p].link = pay[p].link /\ pay'[p].received = pay[p].received
           /\ pay'[p].status = "expired" /\ pay[p].status = "waiting" /\ pay[p].received = "nothing"
  BY <1>1 DEF CheckoutTypes, PayRows, Abandoned, Credited
<1>6. pay' \in [Payments -> PayRows]
  BY <1>1, <1>5 DEF CheckoutTypes
<1>7. CheckoutTypes' /\ BillingTypes'
  BY <1>1, <1>2, <1>3, <1>4, <1>6 DEF CheckoutTypes, BillingTypes, billingVars
<1>8. CreditIsStatus'
  BY <1>5 DEF CheckoutInv, CreditIsStatus, Paid
<1>9. VoidFoundNone'
  BY <1>2, <1>5, VoidKept DEF CheckoutInv, Live
<1>10. \A p \in Payments :
        /\ pay'[p].link = pay[p].link /\ (pay'[p].status = "none" <=> pay[p].status = "none")
        /\ pay'[p].status \in Live \/ pay'[p].received # "nothing" =>
             pay[p].status \in Live \/ pay[p].received # "nothing"
  BY <1>5 DEF Live
<1>11. \A k \in Invoices : invoice'[k].status = "none" =>
         invoice[k].status = "none" /\ link'[k].status = link[k].status
  BY <1>3, <1>4 DEF Links, Invoices
<1>12. CheckoutInv'
  BY <1>1, <1>3, <1>8, <1>9, <1>10, <1>11, CheckoutKept
<1>13. \A k \in Invoices : invoice'[k].status = "none" <=> invoice[k].status = "none"
  BY <1>4
<1>14. BillingInv'
  BY <1>1, <1>2, <1>4, <1>13, BillingKept DEF billingVars
<1> QED  BY <1>7, <1>12, <1>14

LEMMA ReconcilePaidInv ==
  ASSUME Inv, UNCHANGED billingVars, ReconcilePaid
  PROVE  Inv'
<1> USE DEF Inv
<1>1. UNCHANGED <<link, counter, pay, visitor, merchant, billingVars>>
  BY DEF ReconcilePaid
<1>2. \A n \in Invoices :
        \/ invoice'[n] = invoice[n]
        \/ /\ invoice[n].status = "open" /\ invoice'[n] = [invoice[n] EXCEPT !.status = "paid"]
  BY DEF ReconcilePaid
<1>3. /\ invoice' \in [Invoices -> InvoiceRows]
      /\ \A k \in Invoices : /\ invoice'[k].sub = invoice[k].sub /\ invoice'[k].cycle = invoice[k].cycle
                             /\ invoice'[k].period = invoice[k].period
                             /\ invoice'[k].status = "none" <=> invoice[k].status = "none"
  <2>1. \A k \in Invoices :
          /\ invoice[k] \in InvoiceRows /\ [invoice[k] EXCEPT !.status = "paid"] \in InvoiceRows
          /\ [invoice[k] EXCEPT !.status = "paid"].status = "paid"
          /\ [invoice[k] EXCEPT !.status = "paid"].sub = invoice[k].sub
          /\ [invoice[k] EXCEPT !.status = "paid"].cycle = invoice[k].cycle
          /\ [invoice[k] EXCEPT !.status = "paid"].period = invoice[k].period
    BY DEF CheckoutTypes, InvoiceRows
  <2>2. invoice' = [n \in Invoices |-> invoice'[n]]
    BY DEF ReconcilePaid
  <2> QED  BY <1>2, <2>1, <2>2
<1>4. CheckoutTypes' /\ BillingTypes'
  BY <1>1, <1>3 DEF CheckoutTypes, BillingTypes, billingVars
<1>5. CreditIsStatus' /\ VoidFoundNone'
  BY <1>1, VoidKept DEF CheckoutInv, CreditIsStatus
<1>6. CheckoutInv'
  BY <1>1, <1>3, <1>5, CheckoutKept
<1>7. BillingInv'
  BY <1>1, <1>3, BillingKept DEF billingVars
<1> QED  BY <1>4, <1>6, <1>7

-----------------------------------------------------------------------------
(* The tick.                                                                 *)

\* What is due stays due.
LEMMA PassInv ==
  ASSUME Inv, Pass  PROVE Inv'
<1> USE DEF Inv
<1>1. /\ now < Horizon /\ now' = now + 1 /\ now \in 0..Horizon /\ Horizon \in Nat
      /\ UNCHANGED <<link, invoice, counter, pay, visitor, merchant, subscription, worker>>
  BY BillingAssumption DEF Pass, checkoutVars, BillingTypes
<1>2. CheckoutTypes' /\ BillingTypes'
  BY <1>1 DEF CheckoutTypes, BillingTypes
<1>3. CheckoutInv'
  BY <1>1, CheckoutSame
<1>4. NumberIsHeld' /\ NumbersAreWhole' /\ NewIsNobodys' /\ VoidHasInvoice'
  BY <1>1 DEF BillingInv, NumberIsHeld, NumbersAreWhole, NewIsNobodys, VoidHasInvoice, Voids
<1>5. \A s \in Subs : Date(subscription[s].next) \in Nat
  BY BillingAssumption DEF BillingTypes, SubRows, Periods, Date
<1>6. OneBiller'
  <2>1. \A s \in Subs : Due(s) => Due(s)'
    BY <1>1, <1>5 DEF Due, Date
  <2> QED  BY <1>1, <2>1 DEF BillingInv, OneBiller, InBill
<1>7. CyclesAreWhole'
  BY <1>1, CyclesSame DEF BillingInv
<1> QED  BY <1>2, <1>3, <1>4, <1>6, <1>7 DEF BillingInv

\* A run gives back what it has, and may lock a subscription nobody has locked.
LEMMA RunGoesOn ==
  ASSUME Inv, UNCHANGED <<link, invoice, pay, visitor, merchant, now, subscription>>,
         NEW w \in Workers, Release(w),
         NEW row \in Runs, worker' = [worker EXCEPT ![w] = row], row.at # "numbered",
         row.at = "locked" => row.sub \in Subs /\ Due(row.sub) /\ ~SubLocked(row.sub)
  PROVE  Inv'
<1> USE DEF Inv
<1>1. /\ worker' \in [Workers -> Runs] /\ worker'[w] = row
      /\ \A u \in Workers \ {w} : worker'[u] = worker[u]
  BY DEF BillingTypes
<1>2. /\ counter' \in [next : Nat, holder : Workers \cup Merchants \cup {None}]
      /\ counter'.next = counter.next
      /\ worker[w].at # "numbered" => counter' = counter
  BY DEF Release, GivenBack, CheckoutTypes
<1>3. CheckoutTypes' /\ BillingTypes'
  BY <1>1, <1>2 DEF CheckoutTypes, BillingTypes
<1>4. CheckoutInv'
  BY CheckoutSame
<1>5. NumberIsHeld'
  BY <1>1, <1>2, OnlyHolder DEF BillingInv, NumberIsHeld
<1>6. NumbersAreWhole' /\ NewIsNobodys' /\ VoidHasInvoice'
  BY <1>2 DEF BillingInv, NumbersAreWhole, NewIsNobodys, VoidHasInvoice, Voids
<1>7. OneBiller'
  <2>1. \A s : Due(s)' <=> Due(s)
    BY DEF Due, Date
  <2>2. \A u \in Workers : u # w /\ InBill(u) /\ row.at = "locked" => worker[u].sub # row.sub
    BY DEF SubLocked, InBill
  <2> QED  BY <1>1, <2>1, <2>2 DEF BillingInv, OneBiller, InBill, Runs
<1>8. CyclesAreWhole'
  BY CyclesSame DEF BillingInv
<1> QED  BY <1>3, <1>4, <1>5, <1>6, <1>7, <1>8 DEF BillingInv

\* A run that is between two subscriptions.
LEMMA OffIsRun ==
  /\ Off \in Runs /\ Off.at = "off"
  /\ \A rest \in SUBSET Subs : /\ [Off EXCEPT !.at = "on", !.rest = rest] \in Runs
                                /\ [Off EXCEPT !.at = "on", !.rest = rest].at = "on"
<1>1. Off \in Runs /\ Off.at = "off"
  BY CheckoutAssumption DEF Off, Runs
<1>2. ASSUME NEW rest \in SUBSET Subs
      PROVE  /\ [Off EXCEPT !.at = "on", !.rest = rest] \in Runs
             /\ [Off EXCEPT !.at = "on", !.rest = rest].at = "on"
  BY <1>1, <1>2 DEF Runs
<1> QED  BY <1>1, <1>2

LEMMA SelectDueInv ==
  ASSUME Inv, NEW w \in Workers, SelectDue(w)  PROVE Inv'
<1>1. PICK b \in SUBSET Subs : worker' = [worker EXCEPT ![w] = [Off EXCEPT !.at = "on", !.rest = b]]
  BY DEF SelectDue
<1>2. Release(w) /\ UNCHANGED <<link, invoice, pay, visitor, merchant, now, subscription>>
  BY DEF SelectDue, Release, checkoutVars
<1> DEFINE row == [Off EXCEPT !.at = "on", !.rest = b]
<1>3. row \in Runs /\ row.at = "on"
  BY OffIsRun
<1>4. worker' = [worker EXCEPT ![w] = row]
  BY <1>1
<1> HIDE DEF row
<1> QED  BY <1>2, <1>3, <1>4, RunGoesOn

LEMMA BillLockInv ==
  ASSUME Inv, NEW w \in Workers, NEW s \in Subs, BillLock(w, s)  PROVE Inv'
<1>1. Release(w) /\ UNCHANGED <<link, invoice, pay, visitor, merchant, now, subscription>>
  BY DEF BillLock, Release, checkoutVars
<1> DEFINE row == [worker[w] EXCEPT !.at = "locked", !.sub = s]
<1>2. row \in Runs /\ row.at = "locked" /\ row.sub = s
  BY DEF Inv, BillingTypes, Runs
<1>3. worker' = [worker EXCEPT ![w] = row] /\ Due(s) /\ ~SubLocked(s)
  BY DEF BillLock
<1> HIDE DEF row
<1> QED  BY <1>1, <1>2, <1>3, RunGoesOn

LEMMA OverIsRun ==
  ASSUME BillingTypes, NEW w \in Workers, NEW s, Over(w, s)
  PROVE  \E row \in Runs : worker' = [worker EXCEPT ![w] = row] /\ row.at \in {"off", "on"}
<1> DEFINE rest == worker[w].rest \ {s}
           row == IF rest = {} THEN Off ELSE [Off EXCEPT !.at = "on", !.rest = rest]
<1>1. rest \in SUBSET Subs
  BY DEF BillingTypes, Runs
<1>2. worker' = [worker EXCEPT ![w] = row]
  BY DEF Over
<1> HIDE DEF rest
<1>3. row \in Runs /\ row.at \in {"off", "on"}
  BY <1>1, OffIsRun
<1> QED  BY <1>2, <1>3

LEMMA BillSkipInv ==
  ASSUME Inv, NEW w \in Workers, NEW s \in Subs, BillSkip(w, s)  PROVE Inv'
<1>1. /\ UNCHANGED <<link, invoice, pay, visitor, merchant, now, subscription>>
      /\ Release(w) /\ Over(w, s)
  BY DEF BillSkip, Release, checkoutVars
<1>2. PICK row \in Runs : worker' = [worker EXCEPT ![w] = row] /\ row.at \in {"off", "on"}
  BY <1>1, OverIsRun DEF Inv
<1> QED  BY <1>1, <1>2, RunGoesOn

LEMMA BillThrowInv ==
  ASSUME Inv, NEW w \in Workers, BillThrow(w)  PROVE Inv'
<1>1. /\ UNCHANGED <<link, invoice, pay, visitor, merchant, now, subscription>>
      /\ Release(w) /\ Over(w, worker[w].sub)
  BY DEF BillThrow
<1>2. PICK row \in Runs : worker' = [worker EXCEPT ![w] = row] /\ row.at \in {"off", "on"}
  BY <1>1, OverIsRun DEF Inv
<1> QED  BY <1>1, <1>2, RunGoesOn

LEMMA CrashInv ==
  ASSUME Inv, NEW w \in Workers, Crash(w)  PROVE Inv'
<1>1. /\ UNCHANGED <<link, invoice, pay, visitor, merchant, now, subscription>>
      /\ Release(w) /\ worker' = [worker EXCEPT ![w] = Off]
  BY DEF Crash
<1> QED  BY <1>1, OffIsRun, RunGoesOn

\* A subscription that nobody bills is parked, or stopped, or put forward.
LEMMA SubStepInv ==
  ASSUME Inv, UNCHANGED <<link, invoice, counter, pay, visitor, merchant, now>>,
         NEW s \in Subs, ~SubLocked(s),
         NEW row \in SubRows, subscription' = [subscription EXCEPT ![s] = row],
         row.billed = subscription[s].billed, row.next >= subscription[s].next,
         worker' \in [Workers -> Runs],
         \A w \in Workers : worker'[w] = worker[w] \/ worker'[w].at \in {"off", "on"}
  PROVE  Inv'
<1> USE DEF Inv
<1>1. /\ subscription' \in [Subs -> SubRows] /\ subscription'[s] = row
      /\ \A k \in Subs \ {s} : subscription'[k] = subscription[k]
  BY DEF BillingTypes
<1>2. CheckoutTypes' /\ BillingTypes'
  BY <1>1 DEF CheckoutTypes, BillingTypes
<1>3. CheckoutInv'
  BY CheckoutSame
<1>4. NumberIsHeld' /\ NumbersAreWhole' /\ NewIsNobodys' /\ VoidHasInvoice'
  BY DEF BillingInv, NumberIsHeld, NumbersAreWhole, NewIsNobodys, VoidHasInvoice, Voids
<1>5. OneBiller'
  <2>1. \A k \in Subs \ {s} : Due(k)' <=> Due(k)
    BY <1>1 DEF Due, Date
  <2>2. \A w \in Workers : InBill(w)' => InBill(w) /\ worker'[w] = worker[w] /\ worker[w].sub # s
    BY DEF InBill, SubLocked
  <2> QED  BY <2>1, <2>2 DEF BillingInv, OneBiller
<1>6. CyclesAreWhole'
  <2>1. \A k : InvoicesOf(k)' = InvoicesOf(k)
    BY DEF InvoicesOf
  <2>2. \A k \in Subs : /\ subscription'[k].billed = subscription[k].billed
                        /\ subscription'[k].next >= subscription[k].next
                        /\ subscription'[k].next \in Nat /\ subscription[k].next \in Nat
    BY <1>1 DEF BillingTypes, SubRows, Periods
  <2>3. \A k \in Subs : \A n \in InvoicesOf(k) : invoice[n].period < subscription'[k].next
    <3> SUFFICES ASSUME NEW k \in Subs, NEW n \in InvoicesOf(k)
                 PROVE  invoice[n].period < subscription'[k].next
      OBVIOUS
    <3>1. invoice[n].period \in Nat
      BY DEF CheckoutTypes, InvoiceRows, InvoicesOf
    <3>2. invoice[n].period < subscription[k].next
      BY DEF BillingInv, CyclesAreWhole, Whole
    <3> QED  BY <2>2, <3>1, <3>2
  <2> QED  BY <2>1, <2>2, <2>3, CyclesKept DEF BillingInv, CyclesAreWhole
<1> QED  BY <1>2, <1>3, <1>4, <1>5, <1>6 DEF BillingInv

LEMMA BillParkInv ==
  ASSUME Inv, NEW w \in Workers, NEW s \in Subs, BillPark(w, s)  PROVE Inv'
<1>1. /\ UNCHANGED <<link, invoice, counter, pay, visitor, merchant, now>>
      /\ ~SubLocked(s) /\ Over(w, s)
  BY DEF BillPark, checkoutVars
<1> DEFINE row == [subscription[s] EXCEPT !.status = "needs_attention"]
<1>2. subscription' = [subscription EXCEPT ![s] = row]
  BY DEF BillPark
<1>3. /\ row \in SubRows /\ row.billed = subscription[s].billed
      /\ row.next >= subscription[s].next
  <2>1. subscription[s] \in SubRows /\ subscription[s].next \in Nat
    BY DEF Inv, BillingTypes, SubRows, Periods
  <2> QED  BY <2>1 DEF SubRows, SubStatuses
<1> HIDE DEF row
<1>4. PICK run \in Runs : worker' = [worker EXCEPT ![w] = run] /\ run.at \in {"off", "on"}
  BY <1>1, OverIsRun DEF Inv
<1>5. /\ worker' \in [Workers -> Runs]
      /\ \A u \in Workers : worker'[u] = worker[u] \/ worker'[u].at \in {"off", "on"}
  BY <1>4 DEF Inv, BillingTypes
<1> QED  BY <1>1, <1>2, <1>3, <1>5, SubStepInv

LEMMA DivIsNat ==
  ASSUME NEW a \in Nat, NEW b \in Nat \ {0}  PROVE a \div b \in Nat
OBVIOUS

\* The merchant's edits.
LEMMA EditInv ==
  ASSUME Inv, NEW s \in Subs, Pause(s) \/ Cancel(s) \/ Resume(s)  PROVE Inv'
<1>1. /\ UNCHANGED <<link, invoice, counter, pay, visitor, merchant, now, worker>>
      /\ ~SubLocked(s) /\ worker' \in [Workers -> Runs]
  BY DEF Pause, Cancel, Resume, SetStatus, checkoutVars, Inv, BillingTypes
<1>2. /\ subscription[s] \in SubRows /\ subscription[s].next \in Nat
      /\ now \in Nat /\ Date(subscription[s].next) \in Nat
  BY BillingAssumption DEF Inv, BillingTypes, SubRows, Periods, Date
<1>3. CASE Pause(s) \/ Cancel(s)
  <2>1. \A c \in SubStatuses :
          /\ [subscription[s] EXCEPT !.status = c] \in SubRows
          /\ [subscription[s] EXCEPT !.status = c].billed = subscription[s].billed
          /\ [subscription[s] EXCEPT !.status = c].next >= subscription[s].next
    BY <1>2 DEF SubRows
  <2>2. "paused" \in SubStatuses /\ "canceled" \in SubStatuses
    BY DEF SubStatuses
  <2> QED  BY <1>1, <1>3, <2>1, <2>2, SubStepInv DEF Pause, Cancel, SetStatus
<1>4. CASE Resume(s)
  <2> DEFINE row == Resumed(subscription[s])
  <2>1. subscription' = [subscription EXCEPT ![s] = row] /\ row.next \in Periods
    BY <1>4 DEF Resume, SetStatus
  <2>2. /\ row = [subscription[s] EXCEPT !.status = "active", !.next = row.next]
        /\ row.next >= subscription[s].next
    <3>1. ASSUME Date(subscription[s].next) <= now
          PROVE  (now - Date(subscription[s].next)) \div Nominal \in Nat
      <4>1. now - Date(subscription[s].next) \in Nat
        BY <1>2, <3>1
      <4> QED  BY <4>1, DivIsNat, BillingAssumption
    <3> QED  BY <1>2, <3>1 DEF Resumed, SubRows
  <2>3. row \in SubRows /\ row.billed = subscription[s].billed
    BY <1>2, <2>1, <2>2 DEF SubRows, SubStatuses
  <2> HIDE DEF row
  <2> QED  BY <1>1, <2>1, <2>2, <2>3, SubStepInv
<1> QED  BY <1>3, <1>4

LEMMA TakeNumberInv ==
  ASSUME Inv, NEW w \in Workers, TakeNumber(w)  PROVE Inv'
<1> USE DEF Inv
<1>1. /\ worker[w].at = "locked" /\ counter.next \in Invoices /\ counter.holder = None
      /\ counter' = [counter EXCEPT !.holder = w]
      /\ UNCHANGED <<link, invoice, pay, visitor, merchant, now, subscription>>
  BY DEF TakeNumber, CounterFree, NumberFor
<1>2. /\ worker' \in [Workers -> Runs]
      /\ worker'[w].at = "numbered" /\ worker'[w].n = counter.next /\ worker'[w].sub = worker[w].sub
      /\ \A u \in Workers \ {w} : worker'[u] = worker[u]
  <2>1. /\ [worker[w] EXCEPT !.at = "numbered", !.n = counter.next] \in Runs
        /\ [worker[w] EXCEPT !.at = "numbered", !.n = counter.next].at = "numbered"
        /\ [worker[w] EXCEPT !.at = "numbered", !.n = counter.next].n = counter.next
        /\ [worker[w] EXCEPT !.at = "numbered", !.n = counter.next].sub = worker[w].sub
    <3>1. worker[w] \in Runs /\ counter.next \in 0..MaxInvoices
      BY <1>1, CheckoutAssumption DEF BillingTypes, Invoices
    <3> QED  BY <3>1 DEF Runs
  <2>2. worker' = [worker EXCEPT ![w] = [worker[w] EXCEPT !.at = "numbered", !.n = counter.next]]
    BY DEF TakeNumber, BillingTypes
  <2> QED  BY <2>1, <2>2 DEF BillingTypes
<1>3. /\ counter' \in [next : Nat, holder : Workers \cup Merchants \cup {None}]
      /\ counter'.holder = w /\ counter'.next = counter.next
  BY <1>1 DEF CheckoutTypes
<1>4. CheckoutTypes' /\ BillingTypes'
  BY <1>1, <1>2, <1>3 DEF CheckoutTypes, BillingTypes
<1>5. CheckoutInv'
  BY <1>1, CheckoutSame
<1>6. /\ \A k \in Merchants : merchant[k].at # "numbered"
      /\ \A u \in Workers : worker[u].at # "numbered"
  BY <1>1, CheckoutAssumption, BillingAssumption DEF BillingInv, NumberIsHeld
<1>7. NumberIsHeld' /\ NumbersAreWhole' /\ NewIsNobodys' /\ VoidHasInvoice'
  BY <1>1, <1>2, <1>3, <1>6
  DEF BillingInv, NumberIsHeld, NumbersAreWhole, NewIsNobodys, VoidHasInvoice, Voids
<1>8. OneBiller'
  <2>1. \A s : Due(s)' <=> Due(s)
    BY <1>1 DEF Due, Date
  <2> QED  BY <1>1, <1>2, <2>1 DEF BillingInv, OneBiller, InBill
<1>9. CyclesAreWhole'
  BY <1>1, CyclesSame DEF BillingInv
<1> QED  BY <1>4, <1>5, <1>7, <1>8, <1>9 DEF BillingInv

\* A cycle that is billed next was not billed: the second invoice of billOne's
\* 23505 does not happen while the schedule moves with the invoice.
LEMMA NotMinted ==
  ASSUME CheckoutTypes, BillingTypes, CyclesAreWhole, NEW s \in Subs
  PROVE  ~Minted(s)
<1>1. subscription[s].billed \in Nat
  BY DEF BillingTypes, SubRows
<1>2. \A n \in InvoicesOf(s) : invoice[n].cycle \in 1..subscription[s].billed
  BY DEF CyclesAreWhole, Whole
<1> QED  BY <1>1, <1>2 DEF Minted, InvoicesOf

\* The calendar goes on past a date that is due.
LEMMA DateIsNotLast ==
  ASSUME BillingTypes, NEW s \in Subs, Due(s)  PROVE subscription[s].next + 1 \in Periods
<1>1. now <= Horizon /\ Horizon \in Nat /\ now \in Nat
  BY BillingAssumption DEF BillingTypes
<1>2. Len(Dates) \in Nat /\ Dates[Len(Dates)] \in Nat /\ Dates[Len(Dates)] > Horizon
  BY BillingAssumption
<1>3. subscription[s].next \in 0..(Len(Dates) - 1)
  BY DEF BillingTypes, SubRows, Periods
<1>4. Dates[subscription[s].next + 1] <= now /\ Dates[subscription[s].next + 1] \in Nat
  BY <1>2, <1>3, BillingAssumption DEF Due, Date
<1>5. subscription[s].next + 1 # Len(Dates)
  BY <1>1, <1>2, <1>4
<1> QED  BY <1>2, <1>3, <1>5 DEF Periods

\* A cycle joins those before it.
LEMMA WholeGrows ==
  ASSUME NEW s \in Subs, Whole(s), NEW n, n \notin InvoicesOf(s),
         InvoicesOf(s)' = InvoicesOf(s) \cup {n},
         \A k \in InvoicesOf(s) : /\ invoice'[k] = invoice[k]
                                  /\ invoice[k].cycle \in Nat /\ invoice[k].period \in Nat,
         subscription[s].billed \in Nat, subscription[s].next \in Nat,
         invoice'[n].cycle = subscription[s].billed + 1,
         invoice'[n].period = subscription[s].next,
         subscription'[s].billed = subscription[s].billed + 1,
         subscription'[s].next = subscription[s].next + 1
  PROVE  Whole(s)'
<1>1. \A k \in InvoicesOf(s) : /\ invoice[k].cycle \in 1..subscription[s].billed
                               /\ invoice[k].period < subscription[s].next
  BY DEF Whole
<1>2. {invoice'[k].cycle : k \in InvoicesOf(s) \cup {n}} = 1..(subscription[s].billed + 1)
  <2>1. {invoice'[k].cycle : k \in InvoicesOf(s) \cup {n}}
          = {invoice[k].cycle : k \in InvoicesOf(s)} \cup {subscription[s].billed + 1}
    OBVIOUS
  <2>2. {invoice[k].cycle : k \in InvoicesOf(s)} = 1..subscription[s].billed
    BY DEF Whole
  <2>3. 1..(subscription[s].billed + 1) = (1..subscription[s].billed) \cup {subscription[s].billed + 1}
    OBVIOUS
  <2> QED  BY <2>1, <2>2, <2>3
<1>3. Cardinality(InvoicesOf(s) \cup {n}) = subscription[s].billed + 1
  <2>1. Cardinality(InvoicesOf(s)) = subscription[s].billed
    BY DEF Whole
  <2>2. Cardinality(InvoicesOf(s) \cup {n}) = Cardinality(InvoicesOf(s)) + 1
    BY MineIsFinite, FS_AddElement
  <2> QED  BY <2>1, <2>2
<1>4. \A i, j \in InvoicesOf(s) \cup {n} :
        invoice'[i].cycle < invoice'[j].cycle => invoice'[i].period < invoice'[j].period
  <2>1. \A i, j \in InvoicesOf(s) :
          invoice[i].cycle < invoice[j].cycle => invoice[i].period < invoice[j].period
    BY DEF Whole
  <2> QED  BY <1>1, <2>1
<1>5. \A k \in InvoicesOf(s) \cup {n} : invoice'[k].period < subscription'[s].next
  BY <1>1
<1> QED  BY <1>2, <1>3, <1>4, <1>5 DEF Whole

\* Invoice and schedule are written together, under the subscription's lock.
LEMMA MintInv ==
  ASSUME Inv, NEW w \in Workers, Mint(w)  PROVE Inv'
<1> USE DEF Inv
<1> SUFFICES ASSUME NEW s \in Subs, s = worker[w].sub, NEW n \in Invoices, n = worker[w].n
             PROVE  Inv'
  BY DEF Mint, BillingInv, NumberIsHeld, OneBiller, InBill
<1> DEFINE row == subscription[s]
<1>1. /\ worker[w].at = "numbered" /\ Due(s) /\ counter.next = n /\ invoice[n].status = "none"
      /\ invoice[n].sub = None
  BY DEF Mint, BillingInv, NumberIsHeld, OneBiller, InBill, NumbersAreWhole, NewIsNobodys, Invoices
<1>2. ~Minted(s)
  BY NotMinted DEF BillingInv
<1>3. /\ Insert(n, "open", s, row.billed + 1, row.next)
      /\ counter' = [next |-> n + 1, holder |-> None]
      /\ subscription' = [subscription EXCEPT ![s] = Advanced(row)]
      /\ Over(w, s)
      /\ UNCHANGED <<pay, visitor, merchant, now>>
  BY <1>2 DEF Mint, Taken
<1>4. row \in SubRows /\ row.next \in Nat /\ row.billed \in Nat /\ row.next + 1 \in Periods
  BY <1>1, DateIsNotLast DEF BillingTypes, SubRows, Periods
<1>5. /\ Advanced(row) \in SubRows
      /\ Advanced(row).next = row.next + 1 /\ Advanced(row).billed = row.billed + 1
  <2> HIDE DEF row
  <2>1. ASSUME NEW c \in SubStatuses, NEW next,
               next = [row EXCEPT !.next = row.next + 1, !.billed = row.billed + 1, !.status = c]
        PROVE  next \in SubRows /\ next.next = row.next + 1 /\ next.billed = row.billed + 1
    <3>1. /\ DOMAIN row = {"status", "next", "billed", "total", "sound"}
          /\ row.total \in Nat /\ row.sound \in BOOLEAN /\ row.billed + 1 \in Nat
      BY <1>4 DEF SubRows
    <3>2. next = [status |-> c, next |-> row.next + 1, billed |-> row.billed + 1,
                  total |-> row.total, sound |-> row.sound]
      BY <1>4, <2>1 DEF SubRows
    <3> QED  BY <1>4, <3>1, <3>2 DEF SubRows
  <2>2. row.status \in SubStatuses /\ "canceled" \in SubStatuses
    BY <1>4 DEF SubRows, SubStatuses
  <2>3. \E c \in SubStatuses :
          Advanced(row) = [row EXCEPT !.next = row.next + 1, !.billed = row.billed + 1, !.status = c]
    <3>1. CASE row.total # 0 /\ row.billed + 1 >= row.total
      BY <2>2, <3>1 DEF Advanced
    <3>2. CASE ~(row.total # 0 /\ row.billed + 1 >= row.total)
      BY <2>2, <3>2 DEF Advanced
    <3> QED  BY <3>1, <3>2
  <2> QED  BY <2>1, <2>3
<1>6. /\ subscription' \in [Subs -> SubRows]
      /\ subscription'[s].next = row.next + 1 /\ subscription'[s].billed = row.billed + 1
      /\ \A k \in Subs \ {s} : subscription'[k] = subscription[k]
  BY <1>3, <1>5 DEF BillingTypes
<1>7. /\ link' \in [Links -> LinkRows] /\ invoice' \in [Invoices -> InvoiceRows] /\ CheckoutInv'
  BY <1>1, <1>3, <1>4, InsertRows
<1>8. /\ invoice'[n].status = "open" /\ invoice'[n].sub = s
      /\ invoice'[n].cycle = row.billed + 1 /\ invoice'[n].period = row.next
      /\ \A k \in Invoices \ {n} : invoice'[k] = invoice[k]
  BY <1>3 DEF Insert, CheckoutTypes
<1>9. PICK run \in Runs : worker' = [worker EXCEPT ![w] = run] /\ run.at \in {"off", "on"}
  BY <1>3, OverIsRun
<1>10. /\ worker' \in [Workers -> Runs] /\ worker'[w].at \in {"off", "on"}
       /\ \A u \in Workers \ {w} : worker'[u] = worker[u]
  BY <1>9 DEF BillingTypes
<1> HIDE DEF row
<1>11. CheckoutTypes' /\ BillingTypes'
  BY <1>3, <1>6, <1>7, <1>10 DEF CheckoutTypes, BillingTypes, Invoices
<1>12. NumberIsHeld'
  BY <1>1, <1>3, <1>10, OnlyHolder DEF BillingInv, NumberIsHeld
<1>13. NumbersAreWhole'
  BY <1>1, <1>3, <1>8, CheckoutAssumption DEF BillingInv, NumbersAreWhole, Invoices
<1>14. NewIsNobodys' /\ VoidHasInvoice'
  BY <1>3, <1>8 DEF BillingInv, NewIsNobodys, VoidHasInvoice, Voids
<1>15. OneBiller'
  <2>1. \A k \in Subs \ {s} : Due(k)' <=> Due(k)
    BY <1>3, <1>6 DEF Due, Date
  <2>2. \A u \in Workers : InBill(u)' => InBill(u) /\ worker'[u] = worker[u] /\ worker[u].sub # s
    BY <1>1, <1>10 DEF BillingInv, OneBiller, InBill
  <2> QED  BY <2>1, <2>2 DEF BillingInv, OneBiller
<1>16. CyclesAreWhole'
  <2>1. /\ n \notin InvoicesOf(s) /\ InvoicesOf(s)' = InvoicesOf(s) \cup {n}
        /\ \A k \in Subs \ {s} : n \notin InvoicesOf(k) /\ InvoicesOf(k)' = InvoicesOf(k)
    BY <1>1, <1>8, BillingAssumption DEF InvoicesOf
  <2>2. \A k \in Subs : \A i \in InvoicesOf(k) :
          invoice'[i] = invoice[i] /\ invoice[i].cycle \in Nat /\ invoice[i].period \in Nat
    BY <1>1, <1>8, BillingAssumption DEF InvoicesOf, CheckoutTypes, InvoiceRows
  <2>3. Whole(s)'
    <3>1. Whole(s) /\ subscription[s].billed \in Nat /\ subscription[s].next \in Nat
      BY <1>4 DEF BillingInv, CyclesAreWhole, row
    <3> QED  BY <1>6, <1>8, <2>1, <2>2, <3>1, WholeGrows DEF row
  <2>4. ASSUME NEW k \in Subs \ {s}  PROVE Whole(k)'
    <3>1. Whole(k) /\ \A i \in InvoicesOf(k) : invoice[i].period < subscription'[k].next
      BY <1>6 DEF BillingInv, CyclesAreWhole, Whole
    <3> QED  BY <1>6, <2>1, <2>2, <3>1, CyclesKept
  <2> QED  BY <2>3, <2>4 DEF CyclesAreWhole
<1> QED  BY <1>7, <1>11, <1>12, <1>13, <1>14, <1>15, <1>16 DEF BillingInv

-----------------------------------------------------------------------------
(* Every step.                                                               *)

LEMMA CheckoutStepInv ==
  ASSUME Inv, UNCHANGED billingVars, CheckoutStep  PROVE Inv'
<1>1. ASSUME NEW v \in Visitors, Visit(v)  PROVE Inv'
  <2>1. CASE ClaimRollback(v)
    BY <2>1, LeaveInv DEF ClaimRollback
  <2> QED  BY <1>1, <2>1, ClaimLockInv, ClaimCountInv, ClaimCommitInv DEF Visit
<1>2. ASSUME NEW m \in Merchants, Manage(m)  PROVE Inv'
  BY <1>2, StartInvoiceInv, CommitInvoiceInv, AbandonInvoiceInv, VoidLockInv, VoidDisableInv,
     VoidCommitInv DEF Manage, Void
<1> QED  BY <1>1, <1>2, PaymentStepInv, CreateLinkInv, SetLinkStatusInv, ReconcilePaidInv
         DEF CheckoutStep

LEMMA NextInv ==
  ASSUME Inv, [Next]_vars  PROVE Inv'
<1>1. ASSUME NEW w \in Workers, Bill(w)  PROVE Inv'
  BY <1>1, SelectDueInv, BillLockInv, BillSkipInv, BillParkInv, TakeNumberInv, MintInv,
     BillThrowInv DEF Bill
<1>2. CASE UNCHANGED vars
  BY <1>2, StutterInv DEF vars
<1> QED  BY <1>1, <1>2, CheckoutStepInv, PassInv, CrashInv, EditInv DEF Next

THEOREM Invariant == Spec => []Inv
<1>1. Init => Inv
  BY InitInv
<1>2. Inv /\ [Next]_vars => Inv'
  BY NextInv
<1> QED  BY <1>1, <1>2, PTL DEF Spec

-----------------------------------------------------------------------------
(* What it gives.                                                            *)

\* However many customers start at once, no more payments hold a use of a link than
\* it has (HeldWithinCap), for any number of customers and any limit.
THEOREM UsesWithinCap == Spec => []HeldWithinCap
<1>1. Inv => HeldWithinCap
  BY DEF Inv, CheckoutInv
<1> QED  BY <1>1, Invariant, PTL

\* A subscription's invoices are its cycles from the first, one each and in order
\* (CyclesAreWhole), for any number of hosts, crashes, throws and edits.
THEOREM CyclesBilledOnce == Spec => []CyclesAreWhole
<1>1. Inv => CyclesAreWhole
  BY DEF Inv, BillingInv
<1> QED  BY <1>1, Invariant, PTL

\* A merchant's invoices are numbered without a hole (NumbersAreWhole), whoever
\* takes the numbers and gives them back.
THEOREM NumberedWithoutHole == Spec => []NumbersAreWhole
<1>1. Inv => NumbersAreWhole
  BY DEF Inv, BillingInv
<1> QED  BY <1>1, Invariant, PTL

\* The steps that write invoices.
LEMMA InvoiceSteps ==
  ASSUME [Next]_vars
  PROVE  \/ invoice' = invoice
         \/ \E m \in Merchants : CommitInvoice(m) \/ VoidCommit(m)
         \/ ReconcilePaid
         \/ \E w \in Workers : Mint(w)
<1>1. ASSUME CheckoutStep
      PROVE  \/ invoice' = invoice \/ ReconcilePaid
             \/ \E m \in Merchants : CommitInvoice(m) \/ VoidCommit(m)
  <2>1. ASSUME NEW v \in Visitors, Visit(v)  PROVE invoice' = invoice
    BY <2>1 DEF Visit, ClaimLock, ClaimCount, ClaimRollback, ClaimCommit
  <2>2. ASSUME NEW p \in Payments, PaymentStep(p)  PROVE invoice' = invoice
    BY <2>2 DEF PaymentStep, SendMoney, Credit, Hold, Promote, Sweep, Expire, ReapLate
  <2>3. ASSUME NEW m \in Merchants, Manage(m)
        PROVE  invoice' = invoice \/ CommitInvoice(m) \/ VoidCommit(m)
    BY <2>3 DEF Manage, Void, StartInvoice, AbandonInvoice, VoidLock, VoidDisable, VoidRead, Credited
  <2>4. CASE \/ \E cap \in Caps : CreateLink(cap)
             \/ \E l \in Links, status \in {"active", "disabled"} : SetLinkStatus(l, status)
    BY <2>4 DEF CreateLink, SetLinkStatus
  <2> QED  BY <1>1, <2>1, <2>2, <2>3, <2>4 DEF CheckoutStep
<1>2. ASSUME NEW w \in Workers, Bill(w) \/ Crash(w)  PROVE invoice' = invoice \/ Mint(w)
  BY <1>2 DEF Bill, Crash, SelectDue, BillLock, BillSkip, BillPark, TakeNumber, BillThrow, checkoutVars
<1>3. CASE \E s \in Subs : Pause(s) \/ Cancel(s) \/ Resume(s)
  BY <1>3 DEF Pause, Cancel, Resume, SetStatus, checkoutVars
<1>4. CASE Pass \/ UNCHANGED vars
  BY <1>4 DEF Pass, vars, checkoutVars
<1> QED  BY <1>1, <1>2, <1>3, <1>4 DEF Next

LEMMA VoidStep ==
  ASSUME Inv, [Next]_vars, NEW n \in Invoices, invoice[n].status = "open", invoice'[n].status = "void",
         NEW p \in Payments, pay'[p].link = n, pay'[p].status \in Live
  PROVE  FALSE
<1> USE DEF Inv
<1>1. invoice \in [Invoices -> InvoiceRows]
  BY DEF CheckoutTypes
<1>2. ASSUME NEW m \in Merchants, CommitInvoice(m)  PROVE FALSE
  BY <1>1, <1>2 DEF CommitInvoice, Insert
<1>3. ASSUME NEW w \in Workers, Mint(w)  PROVE FALSE
  BY <1>1, <1>3 DEF Mint, Insert
<1>4. ASSUME ReconcilePaid  PROVE FALSE
  BY <1>1, <1>4 DEF ReconcilePaid, InvoiceRows
<1>5. PICK m \in Merchants : VoidCommit(m)
  BY <1>2, <1>3, <1>4, InvoiceSteps
<1>6. merchant[m].n = n /\ merchant[m].at = "read"
  <2>1. invoice' = [invoice EXCEPT ![merchant[m].n].status = "void"]
    BY <1>5 DEF VoidCommit
  <2>2. merchant[m].n = n
    BY <1>1, <2>1
  <2> QED  BY <1>5, <2>2 DEF VoidCommit
<1>7. pay'[p] = IF Abandoned(p, n) THEN [pay[p] EXCEPT !.status = "expired"] ELSE pay[p]
  BY <1>5, <1>6 DEF VoidCommit
<1>8. pay[p] \in PayRows
  BY DEF CheckoutTypes
<1>9. ~Abandoned(p, n) /\ pay'[p] = pay[p]
  BY <1>7, <1>8 DEF PayRows, Live
<1>10. p \in OnLink(n) /\ pay[p].received = "nothing"
  BY <1>6, <1>9 DEF OnLink, Live, CheckoutInv, VoidFoundNone
<1> QED  BY <1>9, <1>10 DEF Abandoned, CheckoutInv, CreditIsStatus, Live, Credited

\* When an invoice is voided, no checkout of it stays open (VoidClosesCheckouts), in
\* whatever order claims, credits and voids run.
THEOREM VoidLeavesNoCheckout == Spec => VoidClosesCheckouts
<1> DEFINE Closes == \A n \in Invoices : invoice[n].status = "open" /\ invoice'[n].status = "void" =>
                       \A p \in Payments : ~(pay'[p].link = n /\ pay'[p].status \in Live)
<1>1. Inv /\ [Next]_vars => Closes
  BY VoidStep
<1>2. Spec => [][Closes]_vars
  BY <1>1, Invariant, PTL DEF Spec
<1> QED  BY <1>2 DEF VoidClosesCheckouts

LEMMA BillStep ==
  ASSUME Inv, [Next]_vars, NEW n \in Invoices, NEW s \in Subs,
         invoice[n].sub = None, invoice'[n].sub = s
  PROVE  Due(s)
<1> USE DEF Inv
<1>1. invoice \in [Invoices -> InvoiceRows] /\ s # None
  BY BillingAssumption DEF CheckoutTypes
<1>2. ASSUME NEW m \in Merchants, CommitInvoice(m)  PROVE FALSE
  BY <1>1, <1>2 DEF CommitInvoice, Insert
<1>3. ASSUME NEW m \in Merchants, VoidCommit(m)  PROVE FALSE
  BY <1>1, <1>3 DEF VoidCommit, InvoiceRows
<1>4. ASSUME ReconcilePaid  PROVE FALSE
  BY <1>1, <1>4 DEF ReconcilePaid, InvoiceRows
<1>5. PICK w \in Workers : Mint(w)
  BY <1>1, <1>2, <1>3, <1>4, InvoiceSteps
<1>6. worker[w].sub = s
  BY <1>1, <1>5 DEF Mint, Insert
<1> QED  BY <1>5, <1>6 DEF Mint, BillingInv, OneBiller, InBill

\* Only a subscription that is active and due when its invoice is committed is
\* billed (StoppedIsNotBilled), whoever pauses or bills it in between.
THEOREM StoppedStaysUnbilled == Spec => StoppedIsNotBilled
<1> DEFINE Bills == \A n \in Invoices, s \in Subs :
                      invoice[n].sub = None /\ invoice'[n].sub = s => Due(s)
<1>1. Inv /\ [Next]_vars => Bills
  BY BillStep
<1>2. Spec => [][Bills]_vars
  BY <1>1, Invariant, PTL DEF Spec
<1> QED  BY <1>2 DEF StoppedIsNotBilled
=============================================================================
