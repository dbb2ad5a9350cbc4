------------------------------- MODULE Billing --------------------------------
(***************************************************************************)
(* Recurring billing on top of Checkout: the tick that mints one invoice   *)
(* per subscription and cycle (runDueSubscriptions, billOne, advance), and *)
(* the merchant who pauses, resumes and cancels (setSubscriptionStatus).   *)
(*                                                                         *)
(* Time counts in units of which the calendar (Dates) gives a period one   *)
(* or more; next_run_at is the number of a period.                         *)
(***************************************************************************)
EXTENDS Checkout, Sequences

CONSTANTS
  Subs,        \* subscriptions
  Workers,     \* hosts that run the tick
  Dates,       \* when each period begins
  Nominal,     \* EXTRACT(EPOCH FROM interval)
  MaxBehind,   \* max_cycles_behind (3)
  BatchLimit,  \* TICK_BATCH_LIMIT (200)
  Horizon,     \* last moment of a run
  Stories      \* what a run starts with, and the turns of the environment

ASSUME BillingAssumption ==
  /\ Dates \in Seq(Nat) \ {<<>>} /\ \A i \in 2..Len(Dates) : Dates[i - 1] < Dates[i]
  /\ Nominal \in Nat \ {0} /\ MaxBehind \in Nat \ {0} /\ BatchLimit \in Nat \ {0}
  /\ Horizon \in Nat /\ Horizon < Dates[Len(Dates)]
  /\ None \notin Workers \cup Subs /\ Workers \cap Merchants = {}
  /\ \A story \in Stories : /\ story.open \in 0..MaxInvoices
                             /\ story.totals \subseteq Nat /\ story.sound \subseteq BOOLEAN

VARIABLES
  now,
  subscription,  \* status, next_run_at, cycles_billed, total_cycles; whether createInvoice takes it
  worker         \* where each run of the tick is

billingVars == <<now, subscription, worker>>
vars == <<checkoutVars, left, billingVars>>

Periods == 0..(Len(Dates) - 1)
Date(k) == Dates[k + 1]

SubStatuses == {"active", "paused", "canceled", "needs_attention"}
Off == [at |-> "off", rest |-> {}, sub |-> None, n |-> 0]

TypeOK ==
  /\ link \in [Links -> [status : {"none", "active", "disabled"}, cap : Caps \cup {1, NoCap}, used : 0..Cardinality(Payments)]]
  /\ invoice \in [Invoices -> [status : {"none", "draft", "open", "paid", "void"}, sub : Subs \cup {None}, cycle : Nat, period : Periods]]
  /\ counter.next \in 1..(MaxInvoices + 1) /\ counter.holder \in Workers \cup Merchants \cup {None}
  /\ pay \in [Payments -> [status : {"none", "expired"} \cup Live \cup Paid, link : Links, received : Receipts \cup {"nothing"}, funded : BOOLEAN, late : BOOLEAN]]
  /\ visitor \in [Visitors -> [at : {"away", "locked", "counted"}, link : Links, uses : 0..Cardinality(Payments)]]
  /\ \A p \in Payments : /\ Credited(p) <=> pay[p].status \in {"confirming", "partial"} \cup Paid
                         /\ pay[p].late => pay[p].status = "expired"
  /\ merchant \in [Merchants -> [at : {"idle", "numbered", "voiding", "disabled", "read"}, n : 0..MaxInvoices]]
  /\ now \in 0..Horizon
  /\ subscription \in [Subs -> [status : SubStatuses, next : Periods, billed : Nat, total : Nat, sound : BOOLEAN]]
  /\ worker \in [Workers -> [at : {"off", "on", "locked", "numbered"}, rest : SUBSET Subs, sub : Subs \cup {None}, n : 0..MaxInvoices]]

Init ==
  \E story \in Stories :
    /\ left = story.turns
    /\ invoice = [n \in Invoices |-> IF n <= story.open THEN [NoInvoice EXCEPT !.status = "open"] ELSE NoInvoice]
    /\ link = [l \in Links |-> IF l \in 1..story.open THEN NewLink ELSE NoLink]
    /\ counter = [next |-> story.open + 1, holder |-> None]
    /\ pay = [p \in Payments |-> NoPayment]
    /\ visitor = [v \in Visitors |-> Away]
    /\ merchant = [m \in Merchants |-> Idle]
    /\ now = 0
    /\ \E total \in [Subs -> story.totals], sound \in [Subs -> story.sound] :
         subscription = [s \in Subs |-> [status |-> IF s \in story.subs THEN "active" ELSE "canceled", next |-> 0, billed |-> 0, total |-> total[s], sound |-> sound[s]]]
    /\ worker = [w \in Workers |-> Off]

-----------------------------------------------------------------------------
(* The tick.                                                               *)

Due(s) == subscription[s].status = "active" /\ Date(subscription[s].next) <= now
SubLocked(s) == \E w \in Workers : worker[w].at \in {"locked", "numbered"} /\ worker[w].sub = s

Pass ==
  /\ now < Horizon /\ now' = now + 1
  /\ UNCHANGED <<checkoutVars, left, subscription, worker>>

\* ORDER BY next_run_at LIMIT: the oldest, without a lock.
Batch(b) ==
  LET due == {s \in Subs : Due(s)}
  IN  /\ b \subseteq due
      /\ Cardinality(b) <= BatchLimit
      /\ b # due => Cardinality(b) = BatchLimit
      /\ \A s \in b, t \in due \ b : Date(subscription[s].next) <= Date(subscription[t].next)

SelectDue(w) ==
  /\ worker[w].at = "off"
  /\ \E b \in SUBSET Subs \ {{}} : Batch(b) /\ worker' = [worker EXCEPT ![w] = [Off EXCEPT !.at = "on", !.rest = b]]
  /\ UNCHANGED <<checkoutVars, left, now, subscription>>

\* The run is done with one subscription.
Over(w, s) ==
  LET rest == worker[w].rest \ {s}
  IN  worker' = [worker EXCEPT ![w] = IF rest = {} THEN Off ELSE [Off EXCEPT !.at = "on", !.rest = rest]]

BehindNever(s) == FALSE

Behind(s) ==
  LET k == subscription[s].next + MaxBehind + 1
  IN  k \in Periods /\ Date(k) <= now

\* What was due when the list was read is billed without another look.
BillListed(w, s) ==
  /\ worker[w].at = "on" /\ s \in worker[w].rest
  /\ ~SubLocked(s)
  /\ worker' = [worker EXCEPT ![w].at = "locked", ![w].sub = s]
  /\ UNCHANGED <<checkoutVars, left, now, subscription>>

\* billOne reads the row again, now with its lock: another run may have billed it,
\* a merchant may have stopped it.
BillLock(w, s) ==
  /\ worker[w].at = "on" /\ s \in worker[w].rest
  /\ ~SubLocked(s)
  /\ Due(s) /\ ~Behind(s)
  /\ worker' = [worker EXCEPT ![w].at = "locked", ![w].sub = s]
  /\ UNCHANGED <<checkoutVars, left, now, subscription>>

BillSkip(w, s) ==
  /\ worker[w].at = "on" /\ s \in worker[w].rest
  /\ ~SubLocked(s)
  /\ ~Due(s)
  /\ Over(w, s)
  /\ UNCHANGED <<checkoutVars, left, now, subscription>>

\* A backlog is parked, not flushed.
BillPark(w, s) ==
  /\ worker[w].at = "on" /\ s \in worker[w].rest
  /\ ~SubLocked(s)
  /\ Due(s) /\ Behind(s)
  /\ subscription' = [subscription EXCEPT ![s].status = "needs_attention"]
  /\ Over(w, s)
  /\ UNCHANGED <<checkoutVars, left, now>>

TakeNumber(w) ==
  /\ worker[w].at = "locked" /\ subscription[worker[w].sub].sound
  /\ counter.next \in Invoices /\ CounterFree
  /\ NumberFor(w)
  /\ worker' = [worker EXCEPT ![w].at = "numbered", ![w].n = counter.next]
  /\ UNCHANGED <<link, invoice, pay, visitor, merchant, left, now, subscription>>

\* One interval from its own value, and the end of a plan with a last cycle.
Advanced(row) ==
  [row EXCEPT !.next = @ + 1, !.billed = @ + 1,
              !.status = IF row.total # 0 /\ row.billed + 1 >= row.total THEN "canceled" ELSE @]

\* A second invoice for the cycle (23505) only moves the schedule on.
Minted(s) == \E n \in Invoices : invoice[n].sub = s /\ invoice[n].cycle = subscription[s].billed + 1

\* The invoice committed on its own, and the schedule perhaps after it.
MintApart(w) ==
  LET s == worker[w].sub
      row == subscription[s]
  IN  /\ worker[w].at = "numbered"
      /\ IF Minted(s) THEN GivenBack /\ UNCHANGED <<invoice, link>>
         ELSE Insert(worker[w].n, "open", s, row.billed + 1, row.next) /\ Taken(worker[w].n)
      /\ subscription' \in {subscription, [subscription EXCEPT ![s] = Advanced(row)]}
      /\ Over(w, s)
      /\ UNCHANGED <<pay, visitor, merchant, left, now>>

Mint(w) ==
  LET s == worker[w].sub
      row == subscription[s]
  IN  /\ worker[w].at = "numbered"
      /\ IF Minted(s) THEN GivenBack /\ UNCHANGED <<invoice, link>>
         ELSE Insert(worker[w].n, "open", s, row.billed + 1, row.next) /\ Taken(worker[w].n)
      /\ subscription' = [subscription EXCEPT ![s] = Advanced(row)]
      /\ Over(w, s)
      /\ UNCHANGED <<pay, visitor, merchant, left, now>>

ReleaseUsed(w) == IF worker[w].at = "numbered" THEN GivenUp ELSE UNCHANGED counter

\* createInvoice throws, always for a broken one: the transaction is rolled back
\* and the run goes on with the next.
Release(w) == IF worker[w].at = "numbered" THEN GivenBack ELSE UNCHANGED counter

BillThrow(w) ==
  /\ \/ worker[w].at = "locked" /\ ~subscription[worker[w].sub].sound /\ UNCHANGED left
     \/ worker[w].at \in {"locked", "numbered"} /\ subscription[worker[w].sub].sound /\ Use("faults")
  /\ Release(w)
  /\ Over(w, worker[w].sub)
  /\ UNCHANGED <<link, invoice, pay, visitor, merchant, now, subscription>>

\* The worker dies, and PostgreSQL rolls back what it had open.
Crash(w) ==
  /\ worker[w].at # "off" /\ Use("faults")
  /\ Release(w)
  /\ worker' = [worker EXCEPT ![w] = Off]
  /\ UNCHANGED <<link, invoice, pay, visitor, merchant, now, subscription>>

Bill(w) ==
  \/ SelectDue(w)
  \/ \E s \in Subs : BillLock(w, s) \/ BillSkip(w, s) \/ BillPark(w, s)
  \/ TakeNumber(w) \/ Mint(w)
  \/ BillThrow(w)

-----------------------------------------------------------------------------
(* setSubscriptionStatus, under the row's lock.                             *)

\* Whole intervals, until it is in the future.
Resumed(row) ==
  [row EXCEPT !.status = "active",
              !.next = IF Date(@) > now THEN @ ELSE @ + ((now - Date(@)) \div Nominal) + 1]

SetStatus(s, row) ==
  /\ ~SubLocked(s) /\ subscription[s].status # "canceled"
  /\ Use("edits")
  /\ row.next \in Periods
  /\ subscription' = [subscription EXCEPT ![s] = row]
  /\ UNCHANGED <<checkoutVars, now, worker>>

Pause(s)  == SetStatus(s, [subscription[s] EXCEPT !.status = "paused"])
Cancel(s) == SetStatus(s, [subscription[s] EXCEPT !.status = "canceled"])
Resume(s) == SetStatus(s, Resumed(subscription[s]))

-----------------------------------------------------------------------------

Next ==
  \/ CheckoutStep /\ UNCHANGED billingVars
  \/ Pass
  \/ \E w \in Workers : Bill(w) \/ Crash(w)
  \/ \E s \in Subs : Pause(s) \/ Cancel(s) \/ Resume(s)

Spec == Init /\ [][Next]_vars

\* Transactions end, the settle tick runs every minute, time passes, and a host that is up runs the tick and ends its transactions.
Fairness ==
  /\ \A v \in Visitors : WF_vars(ClaimEnds(v) /\ UNCHANGED billingVars)
  /\ \A m \in Merchants : WF_vars(ManageEnds(m) /\ UNCHANGED billingVars)
  /\ WF_vars(ReconcilePaid /\ UNCHANGED billingVars)
  /\ WF_vars(Pass)
  /\ \A w \in Workers : WF_vars(Bill(w))
FairSpec == Spec /\ Fairness

-----------------------------------------------------------------------------
(* Properties.                                                              *)

\* The payments that hold a use of a link.
Held(l) == {p \in OnLink(l) : pay[p].status \in Live \/ Credited(p)}

\* However many customers start at once, no more payments hold a use of a link
\* than it has: what is live or was credited counts for good, what expired empty
\* gives its use back (paymentLinkService.ts).
HeldWithinCap ==
  \A l \in Links : link[l].cap # NoCap => Cardinality(Held(l)) <= link[l].cap

\* When an invoice is voided, no checkout of it stays open for a listener to
\* credit, whatever order the claim, the credit and the void ran in (voidInvoice).
VoidClosesCheckouts ==
  [][\A n \in Invoices : invoice[n].status = "open" /\ invoice'[n].status = "void" =>
       \A p \in Payments : ~(pay'[p].link = n /\ pay'[p].status \in Live)]_vars

\* A payment that settled marks its invoice paid, also when the sweep was faster
\* than the tick (reconcilePaidInvoices).
SettledIsPaid ==
  LET unpaid == {n \in Invoices : invoice[n].status = "open" /\ \E p \in OnLink(n) : pay[p].status \in Paid}
  IN  unpaid # {} ~> unpaid = {}

InvoicesOf(s) == {n \in Invoices : invoice[n].sub = s}

Whole(s) ==
  /\ {invoice[n].cycle : n \in InvoicesOf(s)} = 1..subscription[s].billed
  /\ Cardinality(InvoicesOf(s)) = subscription[s].billed
  /\ \A i, j \in InvoicesOf(s) :
       invoice[i].cycle < invoice[j].cycle => invoice[i].period < invoice[j].period
  /\ \A n \in InvoicesOf(s) : invoice[n].period < subscription[s].next

\* A subscription's invoices are its cycles from the first, one each, for
\* different periods, in the order they were billed: two hosts, a retry or a
\* restart neither bill a cycle twice nor leave one out (subscriptionService.ts).
CyclesAreWhole == \A s \in Subs : Whole(s)

\* A merchant's invoices are numbered without a hole: a number whose transaction
\* was rolled back is given out again (nextInvoiceNumber).
NumbersAreWhole ==
  \A n \in Invoices : invoice[n].status # "none" <=> n < counter.next

\* Only a subscription that is active when the invoice is committed is billed: a
\* pause, a cancellation or another host that came between the list and the lock
\* wins (billOne).
StoppedIsNotBilled ==
  [][\A n \in Invoices, s \in Subs :
       invoice[n].sub = None /\ invoice'[n].sub = s => Due(s)]_vars

\* A due subscription is billed until it is not, or parked, or stopped, also when
\* others fail at every tick before it (runDueSubscriptions).
DueIsDealtWith == \A s \in Subs : Due(s) ~> ~Due(s)
=============================================================================
