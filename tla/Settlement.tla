----------------------------- MODULE Settlement -----------------------------
(***************************************************************************)
(* What happens to the money of a confirmed payment: the sweep worker      *)
(* (processSweep) empties its deposit address, either in two hops (all of  *)
(* it to the central wallet, then a payout row) or directly, with one      *)
(* transfer to the merchant and one to the central wallet, by way of a     *)
(* settlement address of its own when configured so.  Every transfer has a *)
(* row in blockchain_transactions (`ledger`), written after the transfer   *)
(* has been mined, and the rows decide what a retry does again.            *)
(*                                                                         *)
(* The execution of the payout rows is module Payout; here a row of the    *)
(* payouts table is a claim on the merchant's balance.                     *)
(***************************************************************************)
EXTENDS Integers, FiniteSetsExt

CONSTANTS
  Payments,     \* confirmed payments of one merchant, in one asset of one chain
  Paid,         \* Paid[x]: what the customer paid; it is credited at the start
  LateAmounts,  \* amounts a customer may send to a deposit address afterwards
  MaxUnits,     \* bound on what one deposit address ever receives
  Fee,          \* Fee[g]: the commission computeSplit takes from gross g
  MinSweep,     \* minSweep of the asset
  Modes,        \* settings of the two settlement flags a run considers
  Workers,      \* sweep worker slots, over every worker process
  MaxAttempts,  \* BullMQ attempts of one sweep job (5 in queues.ts)
  MaxStalls,    \* stalled redeliveries of one job (BullMQ's default is 1)
  Faults,       \* the kinds of fault a run admits
  MaxFaults,    \* how many of them, altogether
  None

AllModes == {"twoHop", "direct", "intermediate"}
FaultKinds ==
  {"crash", "unrecorded", "torn", "stall", "directStall", "decline", "defer", "credit"}

ASSUME SettlementAssumption ==
  /\ IsFiniteSet(Payments)
  /\ MaxUnits \in Nat
  /\ Paid \in [Payments -> 1..MaxUnits]
  /\ LateAmounts \subseteq Nat \ {0}
  /\ Fee \in [0..MaxUnits -> Nat]
  /\ MinSweep \in Nat \ {0}
  /\ Modes \subseteq AllModes
  /\ MaxAttempts \in Nat \ {0}
  /\ MaxStalls \in Nat
  /\ MaxFaults \in Nat
  /\ Faults \subseteq FaultKinds
  /\ None \notin Payments \cup Workers

VARIABLES
  mode,      \* how the deployment is configured
  state,     \* payments.status: "confirmed" or "swept"
  credited,  \* payments.amount_received
  settled,   \* payments with settle_done_at IS NOT NULL, set by this worker
  row,       \* the payout row that carries the payment's id
  manual,    \* gross reserved by payouts that carry no payment id
  deposit,   \* token balance of the deposit address
  middle,    \* token balance of the settlement address
  central,   \* what has been moved from the payment to the central wallet
  merchant,  \* what has been sent to the merchant from these addresses
  ledger,    \* the legs with a row in blockchain_transactions
  job,       \* the BullMQ job with id sweep-<payment>
  pc,        \* where each worker is in processSweep
  on,        \* the payment it works on
  mem,       \* what it has read and computed
  faults     \* faults so far

bookVars  == <<state, credited, settled, row, manual, ledger>>
moneyVars == <<deposit, middle, central, merchant>>
workVars  == <<job, pc, on, mem>>
vars == <<mode, bookVars, moneyVars, workVars, faults>>

Legs  == {"hop", "net", "fee"}
PCs   == {"idle", "split", "plan", "check", "transfer", "record", "book", "mark",
          "sweep", "move", "receipt", "credit", "close", "pay", "adopt"}
NoRow == [type |-> "none", gross |-> 0, net |-> 0]
NoJob == [state |-> "none", owner |-> None, tries |-> 0, stalls |-> 0]
NoMem == [credited |-> 0, gross |-> 0, net |-> 0, fee |-> 0, moved |-> 0, todo |-> {}]

Rows == [type : {"none", "direct", "auto"}, gross : Nat, net : Nat]
Jobs == [state : {"none", "wait", "active", "done", "dead"},
         owner : Workers \cup {None}, tries : Nat, stalls : Nat]
Mems == [credited : Nat, gross : Nat, net : Nat, fee : Nat, moved : Nat,
         todo : SUBSET Legs]

TypeOK ==
  /\ mode \in AllModes
  /\ state \in [Payments -> {"confirmed", "swept"}]
  /\ credited \in [Payments -> Nat]
  /\ settled \subseteq Payments
  /\ row \in [Payments -> Rows]
  /\ manual \in Nat
  /\ deposit \in [Payments -> Nat]
  /\ middle \in [Payments -> Nat]
  /\ central \in [Payments -> Nat]
  /\ merchant \in [Payments -> Nat]
  /\ ledger \in [Payments -> SUBSET (Legs \cup {"sweep"})]
  /\ job \in [Payments -> Jobs]
  /\ pc \in [Workers -> PCs]
  /\ on \in [Workers -> Payments \cup {None}]
  /\ mem \in [Workers -> Mems]
  /\ faults \in Nat

Init ==
  /\ mode \in Modes
  /\ state = [x \in Payments |-> "confirmed"]
  /\ credited = Paid
  /\ settled = {}
  /\ row = [x \in Payments |-> NoRow]
  /\ manual = 0
  /\ deposit = Paid
  /\ middle = [x \in Payments |-> 0]
  /\ central = [x \in Payments |-> 0]
  /\ merchant = [x \in Payments |-> 0]
  /\ ledger = [x \in Payments |-> {}]
  /\ job = [x \in Payments |-> NoJob]
  /\ pc = [w \in Workers |-> "idle"]
  /\ on = [w \in Workers |-> None]
  /\ mem = [w \in Workers |-> NoMem]
  /\ faults = 0

Fault(k) == k \in Faults /\ faults < MaxFaults /\ faults' = faults + 1

\* Everything the customer has sent to the deposit address of x.
Arrived(x) == deposit[x] + middle[x] + central[x] + merchant[x]

\* Money of x has left the deposit address by the direct path, and the
\* payment is still to be settled.
Underway(x) == state[x] = "confirmed" /\ merchant[x] + middle[x] > 0

-----------------------------------------------------------------------------
(* The queue, the settle tick, the customer and the merchant.              *)


\* enqueueSweep: a job in a terminal state is removed first, because BullMQ
\* ignores an add whose job id exists.  The cooldown is left out: it only
\* delays.
EnqueueSweep(x) ==
  /\ state[x] = "confirmed"
  /\ job[x].state \in {"none", "done", "dead"}
  /\ job' = [job EXCEPT ![x] = [NoJob EXCEPT !.state = "wait"]]
  /\ UNCHANGED <<mode, bookVars, moneyVars, pc, on, mem, faults>>

\* The customer sends more.  The payment is not live any more: no listener
\* credits it.
ArriveLate(x) ==
  /\ \E a \in LateAmounts :
       /\ Arrived(x) + a <= MaxUnits
       /\ deposit' = [deposit EXCEPT ![x] = @ + a]
  /\ UNCHANGED <<mode, bookVars, middle, central, merchant, workVars, faults>>

Total(f) == MapThenSumSet(LAMBDA x : f[x], Payments)
Available == Total(credited) - Total([x \in Payments |-> row[x].gross]) - manual

\* Mutant: the balance is not read.
RequestableBlind(x, a) == row[x] = NoRow /\ Fee[a] < a

\* requestPayout as one step (module Payout takes it apart).
Requestable(x, a) ==
  /\ row[x] = NoRow
  /\ Fee[a] < a
  /\ a <= Available
AutoRow(x, a) == row' = [row EXCEPT ![x] = [type |-> "auto", gross |-> a, net |-> a - Fee[a]]]

\* redrivePayouts: a swept payment without a payout.
RedrivePayout(x) ==
  /\ state[x] = "swept" /\ x \notin settled
  /\ Requestable(x, credited[x])
  /\ AutoRow(x, credited[x])
  /\ UNCHANGED <<mode, state, credited, settled, manual, ledger, moneyVars, workVars, faults>>

\* The merchant asks for a payout of part of the balance.
ManualPayout ==
  /\ \E a \in 1..MaxUnits : a <= Available /\ Fee[a] < a /\ manual' = manual + a
  /\ UNCHANGED <<mode, state, credited, settled, row, ledger, moneyVars, workVars, faults>>

Owns(w, x) == job[x].state = "active" /\ job[x].owner = w

Completed(w, x) ==
  IF Owns(w, x) THEN [job EXCEPT ![x].state = "done", ![x].owner = None] ELSE job
Threw(w, x) ==
  IF ~Owns(w, x) THEN job
  ELSE [job EXCEPT ![x] =
         [state |-> IF job[x].tries + 1 < MaxAttempts THEN "wait" ELSE "dead",
          owner |-> None, tries |-> job[x].tries + 1, stalls |-> job[x].stalls]]

Orphaned(x) == job[x].state = "active" /\ on[job[x].owner] # x

\* BullMQ redelivers the job of a worker that died, or was only paused.
Redeliver(x) ==
  /\ job[x].state = "active"
  /\ IF Orphaned(x) THEN UNCHANGED faults
     ELSE Fault(IF mode = "twoHop" THEN "stall" ELSE "directStall")
  /\ job' = [job EXCEPT ![x] =
       IF job[x].stalls < MaxStalls
         THEN [state |-> "wait", owner |-> None, tries |-> job[x].tries,
               stalls |-> job[x].stalls + 1]
         ELSE [state |-> "dead", owner |-> None, tries |-> job[x].tries,
               stalls |-> job[x].stalls]]
  /\ UNCHANGED <<mode, bookVars, moneyVars, pc, on, mem>>

Goto(w, l) == pc' = [pc EXCEPT ![w] = l]

Leave(w) ==
  /\ pc' = [pc EXCEPT ![w] = "idle"]
  /\ on' = [on EXCEPT ![w] = None]
  /\ mem' = [mem EXCEPT ![w] = NoMem]

-----------------------------------------------------------------------------
(* processSweep: the payment is read, and either path begins.              *)

StartSweep(w, x) ==
  /\ pc[w] = "idle"
  /\ job[x].state = "wait"
  /\ \/ /\ state[x] # "confirmed"
        /\ job' = [job EXCEPT ![x].state = "done"]
        /\ UNCHANGED <<pc, on, mem>>
     \/ /\ state[x] = "confirmed"
        /\ job' = [job EXCEPT ![x].state = "active", ![x].owner = w]
        /\ Goto(w, IF mode = "twoHop" THEN "sweep" ELSE "split")
        /\ on' = [on EXCEPT ![w] = x]
        /\ mem' = [mem EXCEPT ![w].credited = credited[x]]
  /\ UNCHANGED <<mode, bookVars, moneyVars, faults>>

-----------------------------------------------------------------------------
(* trySettleDirect and the two adapters it calls.                          *)

\* Mutant: the commission is taken from the credit, the net from the balance.
SplitOnCredit(w) ==
  LET g == deposit[on[w]]
      c == Fee[credited[on[w]]] IN
  /\ pc[w] = "split"
  /\ IF c < g
       THEN /\ mem' = [mem EXCEPT ![w].gross = g, ![w].net = g - c, ![w].fee = c]
            /\ Goto(w, "plan")
       ELSE Goto(w, "sweep") /\ UNCHANGED mem
  /\ UNCHANGED <<mode, bookVars, moneyVars, job, on, faults>>

\* The split of the live balance.  An empty address, a commission that exceeds
\* it and a net of zero all decline.
Split(w) ==
  LET g == deposit[on[w]] IN
  /\ pc[w] = "split"
  /\ IF Fee[g] < g
       THEN /\ mem' = [mem EXCEPT ![w].gross = g, ![w].net = g - Fee[g], ![w].fee = Fee[g]]
            /\ Goto(w, "plan")
       ELSE Goto(w, "sweep") /\ UNCHANGED mem
  /\ UNCHANGED <<mode, bookVars, moneyVars, job, on, faults>>

\* No approved client, no valid payout wallet, or a commission in the wrong
\* denomination: the two-hop sweep runs instead.
Decline(w) ==
  /\ pc[w] = "split"
  /\ Fault(IF Underway(on[w]) THEN "torn" ELSE "decline")
  /\ Goto(w, "sweep")
  /\ UNCHANGED <<mode, bookVars, moneyVars, job, on, mem>>

\* The legs without a ledger row.
Plan(w) ==
  LET legs == {"net"} \cup (IF mem[w].fee > 0 THEN {"fee"} ELSE {})
                      \cup (IF mode = "intermediate" THEN {"hop"} ELSE {})
      todo == legs \ ledger[on[w]] IN
  /\ pc[w] = "plan"
  /\ mem' = [mem EXCEPT ![w].todo = todo]
  /\ Goto(w, IF todo = {} THEN "book" ELSE "check")
  /\ UNCHANGED <<mode, bookVars, moneyVars, job, on, faults>>

\* The leg that comes next, what it moves, and the balance it draws on.
NextLeg(w) == IF "hop" \in mem[w].todo THEN "hop"
              ELSE IF "net" \in mem[w].todo THEN "net" ELSE "fee"
Amount(w, l) == CASE l = "hop" -> mem[w].moved
                  [] l = "net" -> mem[w].net
                  [] l = "fee" -> mem[w].fee
Source(w) == IF mode = "intermediate" /\ "hop" \notin mem[w].todo
               THEN middle[on[w]] ELSE deposit[on[w]]
Required(w) ==
  IF "hop" \in mem[w].todo THEN mem[w].net + mem[w].fee
  ELSE (IF "net" \in mem[w].todo THEN mem[w].net ELSE 0)
         + (IF "fee" \in mem[w].todo THEN mem[w].fee ELSE 0)

\* The balance must cover the split, and the gas price its ceiling; otherwise
\* the adapter returns null and the two-hop sweep runs.
CheckBalance(w) ==
  /\ pc[w] = "check"
  /\ IF Source(w) >= Required(w)
       THEN mem' = [mem EXCEPT ![w].moved = Source(w)] /\ Goto(w, "transfer")
       ELSE Goto(w, "sweep") /\ UNCHANGED mem
  /\ UNCHANGED <<mode, bookVars, moneyVars, job, on, faults>>

DeferGas(w) ==
  /\ pc[w] = "check"
  /\ Fault(IF Underway(on[w]) THEN "torn" ELSE "defer")
  /\ Goto(w, "sweep")
  /\ UNCHANGED <<mode, bookVars, moneyVars, job, on, mem>>

\* A leg is sent and mined; a transfer the address cannot cover reverts.
TransferLeg(w) ==
  LET x == on[w]
      l == NextLeg(w)
      a == Amount(w, l) IN
  /\ pc[w] = "transfer"
  /\ Source(w) >= a
  /\ IF mode = "intermediate" /\ l # "hop"
       THEN middle' = [middle EXCEPT ![x] = @ - a] /\ UNCHANGED deposit
       ELSE /\ deposit' = [deposit EXCEPT ![x] = @ - a]
            /\ middle' = IF l = "hop" THEN [middle EXCEPT ![x] = @ + a] ELSE middle
  /\ merchant' = IF l = "net" THEN [merchant EXCEPT ![x] = @ + a] ELSE merchant
  /\ central' = IF l = "fee" THEN [central EXCEPT ![x] = @ + a] ELSE central
  /\ Goto(w, "record")
  /\ UNCHANGED <<mode, bookVars, job, on, mem, faults>>

\* The ledger row of the leg; then the next leg.
RecordLeg(w) ==
  LET l == NextLeg(w)
      rest == mem[w].todo \ {l} IN
  /\ pc[w] = "record"
  /\ ledger' = [ledger EXCEPT ![on[w]] = @ \cup {l}]
  /\ mem' = [mem EXCEPT ![w].todo = rest]
  /\ Goto(w, IF rest = {} THEN "book" ELSE IF l = "hop" THEN "check" ELSE "transfer")
  /\ UNCHANGED <<mode, state, credited, settled, row, manual, moneyVars, job, on, faults>>

\* The payout row of a direct settlement, ON CONFLICT DO NOTHING.  Both legs
\* are on chain here: the "part of the settlement" branch cannot be reached.
BookDirect(w) ==
  LET x == on[w] IN
  /\ pc[w] = "book"
  /\ row' = IF row[x] # NoRow THEN row
            ELSE [row EXCEPT ![x] = [type |-> "direct", gross |-> mem[w].gross,
                                     net |-> mem[w].net]]
  /\ Goto(w, "mark")
  /\ UNCHANGED <<mode, state, credited, settled, manual, ledger, moneyVars, job, on, mem,
                 faults>>

\* status = 'swept' and settle_done_at, if the payment is still confirmed.
MarkSettled(w) ==
  LET x == on[w] IN
  /\ pc[w] = "mark"
  /\ IF state[x] = "confirmed"
       THEN state' = [state EXCEPT ![x] = "swept"] /\ settled' = settled \cup {x}
       ELSE UNCHANGED <<state, settled>>
  /\ job' = Completed(w, x)
  /\ Leave(w)
  /\ UNCHANGED <<mode, credited, row, manual, ledger, moneyVars, faults>>

-----------------------------------------------------------------------------
(* The two-hop sweep.                                                      *)

\* sweepDeposit reads the balance: nothing to move below the minimum, or when
\* gas is too dear.
ReadBalance(w) ==
  LET b == deposit[on[w]] IN
  /\ pc[w] = "sweep"
  /\ \/ /\ b >= MinSweep
        /\ mem' = [mem EXCEPT ![w].moved = b]
        /\ Goto(w, "move")
        /\ UNCHANGED faults
     \/ /\ \/ b < MinSweep /\ UNCHANGED faults
           \/ b >= MinSweep /\ Fault("defer")
        /\ Goto(w, "adopt")
        /\ UNCHANGED mem
  /\ UNCHANGED <<mode, bookVars, moneyVars, job, on>>

\* The balance that was read is moved to the central wallet.
MoveBalance(w) ==
  LET x == on[w]
      a == mem[w].moved IN
  /\ pc[w] = "move"
  /\ deposit[x] >= a
  /\ deposit' = [deposit EXCEPT ![x] = @ - a]
  /\ central' = [central EXCEPT ![x] = @ + a]
  /\ Goto(w, "receipt")
  /\ UNCHANGED <<mode, bookVars, middle, merchant, job, on, mem, faults>>

RecordSweep(w) ==
  /\ pc[w] = "receipt"
  /\ ledger' = [ledger EXCEPT ![on[w]] = @ \cup {"sweep"}]
  /\ Goto(w, "credit")
  /\ UNCHANGED <<mode, state, credited, settled, row, manual, moneyVars, job, on, mem, faults>>

\* Mutant: what was moved is added to the credit.
CreditMore(w) ==
  LET x == on[w] IN
  /\ pc[w] = "credit"
  /\ credited' = IF mem[w].moved > mem[w].credited /\ state[x] = "confirmed"
                   THEN [credited EXCEPT ![x] = @ + mem[w].moved] ELSE credited
  /\ Goto(w, "close")
  /\ UNCHANGED <<mode, state, settled, row, manual, ledger, moneyVars, job, on, mem, faults>>

\* reconcileSweptExcess: more was moved than had been credited when the payment
\* was read.  A failure here is swallowed.
CreditExcess(w) ==
  LET x == on[w]
      a == mem[w].moved IN
  /\ pc[w] = "credit"
  /\ \/ /\ credited' = IF a > mem[w].credited /\ state[x] = "confirmed" /\ credited[x] < a
                         THEN [credited EXCEPT ![x] = a] ELSE credited
        /\ UNCHANGED faults
     \/ UNCHANGED credited /\ Fault("credit")
  /\ Goto(w, "close")
  /\ UNCHANGED <<mode, state, settled, row, manual, ledger, moneyVars, job, on, mem>>

\* status = 'swept', if the payment is still confirmed.
CloseSweep(w) ==
  LET x == on[w] IN
  /\ pc[w] = "close"
  /\ state' = IF state[x] = "confirmed" THEN [state EXCEPT ![x] = "swept"] ELSE state
  /\ Goto(w, "pay")
  /\ UNCHANGED <<mode, credited, settled, row, manual, ledger, moneyVars, job, on, mem, faults>>

\* The auto payout of what was moved; whatever it throws is logged.
AutoPayout(w) ==
  LET x == on[w]
      a == mem[w].moved IN
  /\ pc[w] = "pay"
  /\ \/ Requestable(x, a) /\ AutoRow(x, a) /\ UNCHANGED faults
     \/ ~Requestable(x, a) /\ UNCHANGED <<row, faults>>
     \/ UNCHANGED row /\ Fault("decline")
  /\ job' = Completed(w, x)
  /\ Leave(w)
  /\ UNCHANGED <<mode, state, credited, settled, manual, ledger, moneyVars>>

\* Nothing to move: a sweep row left by an earlier attempt is its receipt.
AdoptSweep(w) ==
  LET x == on[w] IN
  /\ pc[w] = "adopt"
  /\ state' = IF "sweep" \in ledger[x] /\ state[x] = "confirmed"
                THEN [state EXCEPT ![x] = "swept"] ELSE state
  /\ job' = Completed(w, x)
  /\ Leave(w)
  /\ UNCHANGED <<mode, credited, settled, row, manual, ledger, moneyVars, faults>>

\* A transfer of more than the address holds reverts, and the job with it.
TransferReverts(w) ==
  /\ \/ pc[w] = "transfer" /\ Source(w) < Amount(w, NextLeg(w))
     \/ pc[w] = "move" /\ deposit[on[w]] < mem[w].moved
  /\ job' = Threw(w, on[w])
  /\ Leave(w)
  /\ UNCHANGED <<mode, bookVars, moneyVars, faults>>

\* A call of this step throws, or the worker dies in it.
Abort(w) ==
  /\ pc[w] # "idle"
  /\ Fault(IF Underway(on[w]) THEN "torn"
           ELSE IF pc[w] = "receipt" THEN "unrecorded" ELSE "crash")
  /\ job' \in {Threw(w, on[w]), job}
  /\ Leave(w)
  /\ UNCHANGED <<mode, bookVars, moneyVars>>

Work(w) ==
  \/ \E x \in Payments : StartSweep(w, x)
  \/ Split(w) \/ Decline(w) \/ Plan(w) \/ CheckBalance(w) \/ DeferGas(w)
  \/ TransferLeg(w) \/ RecordLeg(w) \/ BookDirect(w) \/ MarkSettled(w)
  \/ ReadBalance(w) \/ MoveBalance(w) \/ RecordSweep(w) \/ CreditExcess(w)
  \/ CloseSweep(w) \/ AutoPayout(w) \/ AdoptSweep(w) \/ TransferReverts(w) \/ Abort(w)

Next ==
  \/ \E x \in Payments :
       EnqueueSweep(x) \/ ArriveLate(x) \/ RedrivePayout(x) \/ Redeliver(x)
  \/ ManualPayout
  \/ \E w \in Workers : Work(w)

Spec == Init /\ [][Next]_vars

(* A worker that is up goes on; BullMQ hands out and redelivers jobs; the   *)
(* settle tick runs every minute.  Nothing is assumed of the customer.      *)
Fairness ==
  /\ \A w \in Workers : WF_vars(Work(w))
  /\ \A x \in Payments : /\ WF_vars(EnqueueSweep(x))
                         /\ WF_vars(Orphaned(x) /\ Redeliver(x))
                         /\ WF_vars(RedrivePayout(x))

FairSpec == Spec /\ Fairness

-----------------------------------------------------------------------------
(* Properties.                                                             *)

\* A swept payment is worth no more than what left its deposit address: the
\* balance the merchant may draw on is backed (reconcileSweptExcess, "make the
\* ledger say what the chain did").
SweptBacked ==
  \A x \in Payments :
    state[x] = "swept" => credited[x] <= central[x] + merchant[x]

\* However its settlement is retried, redelivered or falls back, a payment
\* pays its merchant no more than the net of what the customer sent.
PaidItsNet ==
  \A x \in Payments :
    merchant[x] + (IF row[x].type = "auto" THEN row[x].net ELSE 0)
      <= Arrived(x) - Fee[Arrived(x)]

\* All of x is at the central wallet and no row says so: a worker died between
\* the transfer of its sweep and the receipt.
Unreceipted(x) == deposit[x] = 0 /\ central[x] > 0 /\ "sweep" \notin ledger[x]


\* Through the central wallet, what is reserved for payouts never exceeds what
\* the merchant was credited, late money included (getBalanceWith).  A direct
\* settlement asks no balance: it may pay out what a manual payout has drawn.
TwoHopWithinBalance == mode = "twoHop" => Available >= 0
=============================================================================
