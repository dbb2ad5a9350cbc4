------------------------------- MODULE Checkout -------------------------------
(***************************************************************************)
(* Payment links and invoices: a customer opens a link and starts a        *)
(* payment (claimLinkUse, createPayment), a merchant makes, lists and      *)
(* voids invoices (createInvoice, voidInvoice, setLinkStatus), the         *)
(* listeners and the ticks move the payments on, and the settle tick marks *)
(* the paid invoices (reconcilePaidInvoices).                              *)
(*                                                                         *)
(* Transactions run under READ COMMITTED: a statement is one step, what a  *)
(* transaction writes is written at its COMMIT, and its row locks are held *)
(* until then.  Invoice n owns link n; link 0 is one the merchant made.    *)
(* A disabled link stands for an expired one too.                          *)
(***************************************************************************)
EXTENDS Integers, FiniteSetsExt

CONSTANTS
  Payments,     \* payments, in the order they are made: 1..k
  MaxInvoices,  \* invoices
  Visitors,     \* checkout requests at once
  Merchants,    \* merchant requests at once
  Caps,         \* max_uses a merchant gives a link, NoCap for none
  Enough,       \* what the listeners take for a paid amount: the whole of it, or,
                \* where a shortfall is tolerated (underpayment.ts), a part too
  NoCap, None

Invoices == 1..MaxInvoices
Links    == 0..MaxInvoices
Receipts == {"part", "whole"}

ASSUME CheckoutAssumption ==
  /\ MaxInvoices \in Nat
  /\ Payments \subseteq Nat \ {0} /\ IsFiniteSet(Payments)
  /\ NoCap \in Nat /\ Caps \subseteq Nat \ {0}
  /\ Enough \subseteq Receipts
  /\ None \notin Merchants

VARIABLES
  link,      \* payment_links: status, max_uses, use_count
  invoice,   \* invoices: status, and the subscription cycle it bills
  counter,   \* invoice_counters: next_seq, and who holds its row
  pay,       \* payments, and what their address got on the chain
  visitor,   \* where each checkout transaction is
  merchant,  \* where each merchant transaction is
  left       \* how often the environment may still do each thing

checkoutVars == <<link, invoice, counter, pay, visitor, merchant>>

Live == {"waiting", "confirming", "partial"}
Paid == {"confirmed", "swept"}

NoLink    == [status |-> "none", cap |-> NoCap, used |-> 0]
NewLink   == [status |-> "active", cap |-> 1, used |-> 0]
NoInvoice == [status |-> "none", sub |-> None, cycle |-> 0, period |-> 0]
NoPayment == [status |-> "none", link |-> 0, received |-> "nothing", funded |-> FALSE, late |-> FALSE]
Away      == [at |-> "away", link |-> 0, uses |-> 0]
Idle      == [at |-> "idle", n |-> 0]

\* The environment uses one of its turns.
Use(what) == left[what] > 0 /\ left' = [left EXCEPT ![what] = @ - 1]

LinkLocked(l) ==
  \/ \E v \in Visitors : visitor[v].at # "away" /\ visitor[v].link = l
  \/ \E m \in Merchants : merchant[m].at \in {"disabled", "read"} /\ merchant[m].n = l
InvoiceLocked(n) ==
  \E m \in Merchants : merchant[m].at \in {"voiding", "disabled", "read"} /\ merchant[m].n = n
PayFree(p) == FALSE

\* The payments voidInvoice selected FOR UPDATE.
PayLocked(p) ==
  /\ pay[p].status \in Live
  /\ \E m \in Merchants : merchant[m].at = "read" /\ merchant[m].n = pay[p].link

OnLink(l) == {p \in Payments : pay[p].status # "none" /\ pay[p].link = l}

-----------------------------------------------------------------------------
(* A customer starts a payment: POST /pay/:token/payments.                  *)

\* RELEASED_PAYMENT_SQL: dead, empty and without a late deposit.
Credited(p) == pay[p].received # "nothing"
Released(p) == pay[p].status = "expired" /\ ~Credited(p) /\ ~pay[p].late
Consumed(l) == Cardinality({p \in OnLink(l) : ~Released(p)})

Leave(v) == visitor' = [visitor EXCEPT ![v] = Away]

\* Without the row lock, and with the count taken before it.
ClaimUnlocked(v, l) ==
  /\ visitor[v].at = "away"
  /\ link[l].status # "none"
  /\ Use("visits")
  /\ visitor' = [visitor EXCEPT ![v] = [at |-> "locked", link |-> l, uses |-> 0]]
  /\ UNCHANGED <<link, invoice, counter, pay, merchant>>

\* SELECT ... FOR UPDATE OF l.
ClaimLock(v, l) ==
  /\ visitor[v].at = "away"
  /\ link[l].status # "none"
  /\ ~LinkLocked(l)
  /\ Use("visits")
  /\ visitor' = [visitor EXCEPT ![v] = [at |-> "locked", link |-> l, uses |-> 0]]
  /\ UNCHANGED <<link, invoice, counter, pay, merchant>>

\* The count, which is a statement of its own, and the verdict.
Usable(l, uses) ==
  /\ link[l].status = "active"
  /\ link[l].cap # NoCap => uses < link[l].cap

ClaimCount(v) ==
  LET l == visitor[v].link
      uses == IF link[l].cap = NoCap THEN link[l].used ELSE Consumed(l)
  IN  /\ visitor[v].at = "locked"
      /\ IF Usable(l, uses)
         THEN visitor' = [visitor EXCEPT ![v].at = "counted", ![v].uses = uses]
         ELSE Leave(v)
      /\ UNCHANGED <<link, invoice, counter, pay, merchant, left>>

\* use_count, the payment, and the COMMIT.
ClaimCommit(v, p) ==
  LET l == visitor[v].link
  IN  /\ visitor[v].at = "counted"
      /\ pay[p].status = "none" /\ \A q \in Payments : q < p => pay[q].status # "none"
      /\ pay' = [pay EXCEPT ![p].status = "waiting", ![p].link = l]
      /\ link' = [link EXCEPT ![l].used = visitor[v].uses + 1]
      /\ Leave(v)
      /\ UNCHANGED <<invoice, counter, merchant, left>>

\* createPayment throws (no rate, no address): the claim is rolled back with it.
ClaimRollback(v) ==
  /\ visitor[v].at = "counted"
  /\ Use("faults")
  /\ Leave(v)
  /\ UNCHANGED <<link, invoice, counter, pay, merchant>>

Visit(v) ==
  \/ \E l \in Links : ClaimLock(v, l)
  \/ ClaimCount(v) \/ ClaimRollback(v)
  \/ \E p \in Payments : ClaimCommit(v, p)

-----------------------------------------------------------------------------
(* What the payments go through meanwhile: the listeners (Deposits), the    *)
(* sweep (Settlement) and the ticks.                                        *)

\* The customer's money is mined; the address stays theirs after the payment
\* has expired.
SendMoney(p) ==
  /\ pay[p].status # "none" /\ ~pay[p].funded
  /\ pay' = [pay EXCEPT ![p].funded = TRUE]
  /\ UNCHANGED <<link, invoice, counter, visitor, merchant, left>>

\* amount_received, written on a payment that is still live only.
Credit(p) ==
  /\ pay[p].funded /\ pay[p].received # "whole"
  /\ pay[p].status \in Live /\ ~PayLocked(p)
  /\ \E sum \in Receipts \ {pay[p].received} :
       pay' = [pay EXCEPT ![p].received = sum, ![p].status = IF @ = "waiting" THEN "confirming" ELSE @]
  /\ UNCHANGED <<link, invoice, counter, visitor, merchant, left>>

\* An underpaid payment stays open for a top-up.
Hold(p) ==
  /\ pay[p].status = "confirming" /\ pay[p].received \notin Enough /\ ~PayLocked(p)
  /\ pay' = [pay EXCEPT ![p].status = "partial"]
  /\ UNCHANGED <<link, invoice, counter, visitor, merchant, left>>

Promote(p) ==
  /\ pay[p].status \in {"confirming", "partial"} /\ pay[p].received \in Enough /\ ~PayLocked(p)
  /\ pay' = [pay EXCEPT ![p].status = "confirmed"]
  /\ UNCHANGED <<link, invoice, counter, visitor, merchant, left>>

Sweep(p) ==
  /\ pay[p].status = "confirmed"
  /\ pay' = [pay EXCEPT ![p].status = "swept"]
  /\ UNCHANGED <<link, invoice, counter, visitor, merchant, left>>

\* FOR UPDATE SKIP LOCKED.
Expire(p) ==
  /\ pay[p].status = "waiting" /\ ~PayLocked(p)
  /\ pay' = [pay EXCEPT ![p].status = "expired"]
  /\ UNCHANGED <<link, invoice, counter, visitor, merchant, left>>

\* The settle tick lists what it finds at an expired address.
ReapLate(p) ==
  /\ pay[p].status = "expired" /\ pay[p].funded /\ ~pay[p].late
  /\ pay' = [pay EXCEPT ![p].late = TRUE]
  /\ UNCHANGED <<link, invoice, counter, visitor, merchant, left>>

PaymentStep(p) ==
  SendMoney(p) \/ Credit(p) \/ Hold(p) \/ Promote(p) \/ Sweep(p) \/ Expire(p) \/ ReapLate(p)

-----------------------------------------------------------------------------
(* The merchant's side.                                                     *)

CreateLink(cap) ==
  /\ link[0].status = "none" /\ Use("links")
  /\ link' = [link EXCEPT ![0] = [status |-> "active", cap |-> cap, used |-> 0]]
  /\ UNCHANGED <<invoice, counter, pay, visitor, merchant>>

\* Any link of the merchant, an invoice's too.
SetLinkStatus(l, status) ==
  /\ link[l].status \notin {"none", status} /\ ~LinkLocked(l)
  /\ Use("relists")
  /\ link' = [link EXCEPT ![l].status = status]
  /\ UNCHANGED <<invoice, counter, pay, visitor, merchant>>

\* nextInvoiceNumber: the counter's row lock is held to the end of the transaction.
CounterFree == counter.holder = None
NumberFor(who) == counter' = [counter EXCEPT !.holder = who]
Taken(n) == counter' = [next |-> n + 1, holder |-> None]
GivenBack == counter' = [counter EXCEPT !.holder = None]
GivenUp == counter' = [next |-> counter.next + 1, holder |-> None]

StartInvoice(m) ==
  /\ merchant[m].at = "idle" /\ Use("issues")
  /\ counter.next \in Invoices /\ CounterFree
  /\ NumberFor(m)
  /\ merchant' = [merchant EXCEPT ![m] = [at |-> "numbered", n |-> counter.next]]
  /\ UNCHANGED <<link, invoice, pay, visitor>>

\* The rows of an invoice: a single-use link unless it is a draft.
Insert(n, status, sub, cycle, period) ==
  /\ invoice' = [invoice EXCEPT ![n] = [status |-> status, sub |-> sub, cycle |-> cycle, period |-> period]]
  /\ link' = IF status = "open" THEN [link EXCEPT ![n] = NewLink] ELSE link

Rest(m) == merchant' = [merchant EXCEPT ![m] = Idle]

CommitInvoice(m) ==
  LET n == merchant[m].n
  IN  /\ merchant[m].at = "numbered"
      /\ \E status \in {"open", "draft"} : Insert(n, status, None, 0, 0)
      /\ Taken(n)
      /\ Rest(m)
      /\ UNCHANGED <<pay, visitor, left>>

\* An item that is refused, or a statement that fails.
AbandonInvoice(m) ==
  /\ merchant[m].at = "numbered" /\ Use("faults")
  /\ GivenBack
  /\ Rest(m)
  /\ UNCHANGED <<link, invoice, pay, visitor>>

\* voidInvoice: the invoice's row,
VoidLock(m, n) ==
  /\ merchant[m].at = "idle"
  /\ invoice[n].status # "none" /\ ~InvoiceLocked(n)
  /\ Use("voids")
  /\ merchant' = IF invoice[n].status \in {"paid", "void"} THEN merchant
                 ELSE [merchant EXCEPT ![m] = [at |-> "voiding", n |-> n]]
  /\ UNCHANGED <<link, invoice, counter, pay, visitor>>

\* its link, which no claim may hold,
VoidDisable(m) ==
  LET n == merchant[m].n
  IN  /\ merchant[m].at = "voiding" /\ invoice[n].status = "open"
      /\ ~LinkLocked(n)
      /\ merchant' = [merchant EXCEPT ![m].at = "disabled"]
      /\ UNCHANGED <<link, invoice, counter, pay, visitor, left>>

\* then the live payments; any that is funded refuses the void.
VoidRead(m) ==
  /\ merchant[m].at = "disabled"
  /\ IF \E p \in OnLink(merchant[m].n) : pay[p].status \in Live /\ Credited(p)
     THEN Rest(m)
     ELSE merchant' = [merchant EXCEPT ![m].at = "read"]
  /\ UNCHANGED <<link, invoice, counter, pay, visitor, left>>

Abandoned(p, n) == p \in OnLink(n) /\ pay[p].status = "waiting" /\ ~Credited(p)

VoidCommit(m) ==
  LET n == merchant[m].n
  IN  /\ \/ merchant[m].at = "read"
         \/ merchant[m].at = "voiding" /\ invoice[n].status = "draft"
      /\ pay' = [p \in Payments |-> IF Abandoned(p, n) THEN [pay[p] EXCEPT !.status = "expired"] ELSE pay[p]]
      /\ link' = IF invoice[n].status = "open" THEN [link EXCEPT ![n].status = "disabled"] ELSE link
      /\ invoice' = [invoice EXCEPT ![n].status = "void"]
      /\ Rest(m)
      /\ UNCHANGED <<counter, visitor, left>>

Void(m) == (\E n \in Invoices : VoidLock(m, n)) \/ VoidDisable(m) \/ VoidRead(m) \/ VoidCommit(m)

Manage(m) ==
  StartInvoice(m) \/ CommitInvoice(m) \/ AbandonInvoice(m) \/ Void(m)

SettlesEarly(p, n) == p \in OnLink(n) /\ pay[p].status = "confirmed" /\ pay[p].received = "whole"

\* reconcilePaidInvoices: one UPDATE, which waits for a row that is held.
Settles(p, n) == p \in OnLink(n) /\ pay[p].status \in Paid /\ pay[p].received = "whole"

ReconcilePaid ==
  LET covered == {n \in Invoices : invoice[n].status = "open" /\ \E p \in Payments : Settles(p, n)}
  IN  /\ covered # {} /\ \A n \in covered : ~InvoiceLocked(n)
      /\ invoice' = [n \in Invoices |-> IF n \in covered THEN [invoice[n] EXCEPT !.status = "paid"] ELSE invoice[n]]
      /\ UNCHANGED <<link, counter, pay, visitor, merchant, left>>

-----------------------------------------------------------------------------

CheckoutStep ==
  \/ \E v \in Visitors : Visit(v)
  \/ \E p \in Payments : PaymentStep(p)
  \/ \E cap \in Caps : CreateLink(cap)
  \/ \E l \in Links, status \in {"active", "disabled"} : SetLinkStatus(l, status)
  \/ \E m \in Merchants : Manage(m)
  \/ ReconcilePaid

\* A transaction that has begun ends.
ClaimEnds(v) == ClaimCount(v) \/ \E p \in Payments : ClaimCommit(v, p)
ManageEnds(m) == CommitInvoice(m) \/ VoidDisable(m) \/ VoidRead(m) \/ VoidCommit(m)
=============================================================================
