------------------------------ MODULE Withdrawal ------------------------------
(***************************************************************************)
(* The operator's commission: what the central wallet holds of one asset   *)
(* beyond what it owes the merchants (getCommissionBalance), the request   *)
(* that reserves a part of it (requestAdminWithdrawal) and the worker that *)
(* sends it (executeAdminWithdrawal, with broadcastTransferOnce).          *)
(*                                                                         *)
(* The worker reads the row once, at the start, and claims nothing: all it *)
(* later decides rests on that reading.                                    *)
(***************************************************************************)
EXTENDS Integers, FiniteSetsExt

CONSTANTS
  Withdrawals,  \* row ids of admin_withdrawals
  Amounts,      \* amounts an operator may ask for
  Payments,     \* payments that settle through this wallet
  Gross, Net,   \* what a payment brings in, and what its merchant is owed
  Direct,       \* payments settled directly: only the commission comes here
  Workers,      \* slots of the admin-withdraw worker (concurrency 2)
  Operators,    \* concurrent callers of requestAdminWithdrawal
  Slots,        \* nonces of the central wallet
  Chains,       \* TRUE: one that can sign before it broadcasts; FALSE: Tron
  MaxAttempts,  \* BullMQ attempts (5 in queues.ts)
  Faults, MaxFaults,
  None

FaultKinds == {"crash", "stall", "prepare", "persist", "unsent", "lostAck", "book",
               "sentWrite", "enqueue", "request"}

ASSUME WithdrawalAssumption ==
  /\ IsFiniteSet(Withdrawals) /\ IsFiniteSet(Payments)
  /\ Amounts \subseteq Nat \ {0}
  /\ Gross \in [Payments -> Nat] /\ Net \in [Payments -> Nat]
  /\ \A x \in Payments : Net[x] <= Gross[x]
  /\ Direct \subseteq Payments
  /\ Slots \subseteq Nat
  /\ Chains \subseteq BOOLEAN
  /\ MaxAttempts \in Nat \ {0}
  /\ Faults \subseteq FaultKinds /\ MaxFaults \in Nat
  /\ None \notin Withdrawals \cup Workers \cup Operators \cup Slots

VARIABLES
  prepares,  \* the chain of this wallet, of Chains
  swept,     \* payments with a 'sweep' or 'settle_fee' row
  owed,      \* payments with a payout row in a reserving status
  status,    \* admin_withdrawals.status, "none" before the row exists
  amount,    \* admin_withdrawals.amount
  stamped,   \* broadcast_at IS NOT NULL
  signed,    \* signed_tx and its nonce
  job,       \* the BullMQ job of each row
  pc, on,    \* where each worker is, and on which row
  held,      \* the row as the worker read it
  bytes,     \* the transaction it is about to store or send
  rpc, ask,  \* where each operator's request is, and its amount or row
  advisory,  \* holder of pg_advisory_xact_lock(8124, network)
  lease,     \* holder of the chain lock
  wire,      \* wire[s]: the row whose transaction the node took with nonce s
  faults

ledgerVars == <<swept, owed>>
rowVars    == <<status, amount, stamped, signed>>
workVars   == <<pc, on, held, bytes>>
askVars    == <<rpc, ask, advisory>>
vars == <<prepares, ledgerVars, rowVars, job, workVars, askVars, lease, wire, faults>>

Statuses  == {"none", "pending", "processing", "sent", "confirmed", "failed"}
Reserving == {"pending", "processing", "sent", "confirmed"}
NoJob  == [state |-> "none", owner |-> None, tries |-> 0]
NoHeld == [signed |-> None, stamped |-> FALSE]

TypeOK ==
  /\ prepares \in Chains
  /\ swept \subseteq Payments /\ owed \subseteq swept \ Direct
  /\ status \in [Withdrawals -> Statuses]
  /\ amount \in [Withdrawals -> Nat]
  /\ stamped \in [Withdrawals -> BOOLEAN]
  /\ signed \in [Withdrawals -> Slots \cup {None}]
  /\ job \in [Withdrawals -> [state : {"none", "wait", "active", "done", "dead"},
                              owner : Workers \cup {None}, tries : 0..MaxAttempts]]
  /\ pc \in [Workers -> {"idle", "mark", "lock", "locked", "persist", "send", "write",
                         "failed", "watch"}]
  /\ on \in [Workers -> Withdrawals \cup {None}]
  /\ held \in [Workers -> [signed : Slots \cup {None}, stamped : BOOLEAN]]
  /\ bytes \in [Workers -> Slots \cup {None}]
  /\ rpc \in [Operators -> {"idle", "lock", "insert", "enqueue"}]
  /\ ask \in [Operators -> [amount : Nat, row : Withdrawals \cup {None}]]
  /\ advisory \in Operators \cup {None}
  /\ lease \in Workers \cup {None}
  /\ wire \in [Slots -> Withdrawals \cup {None}]
  /\ faults \in Nat

Init ==
  /\ prepares \in Chains
  /\ swept = {} /\ owed = {}
  /\ status = [w \in Withdrawals |-> "none"]
  /\ amount = [w \in Withdrawals |-> 0]
  /\ stamped = [w \in Withdrawals |-> FALSE]
  /\ signed = [w \in Withdrawals |-> None]
  /\ job = [w \in Withdrawals |-> NoJob]
  /\ pc = [e \in Workers |-> "idle"]
  /\ on = [e \in Workers |-> None]
  /\ held = [e \in Workers |-> NoHeld]
  /\ bytes = [e \in Workers |-> None]
  /\ rpc = [o \in Operators |-> "idle"]
  /\ ask = [o \in Operators |-> [amount |-> 0, row |-> None]]
  /\ advisory = None /\ lease = None
  /\ wire = [s \in Slots |-> None]
  /\ faults = 0

Fault(k) == k \in Faults /\ faults < MaxFaults /\ faults' = faults + 1

Sum(f, S) == MapThenSumSet(LAMBDA x : f[x], S)

-----------------------------------------------------------------------------
(* The ledger: sweeps, commission legs and payouts of other modules.       *)

\* What reached the central wallet for payment x: all of it, or the fee leg.
Credit == [x \in Payments |-> IF x \in Direct THEN Gross[x] - Net[x] ELSE Gross[x]]

Collected == Sum(Credit, swept)
ClientOwed == Sum(Net, owed)
Withdrawn == Sum(amount, {w \in Withdrawals : status[w] \in Reserving})

\* getCommissionBalance.
Clamp(n) == IF n < 0 THEN 0 ELSE n
Available == Clamp(Clamp(Collected - ClientOwed) - Withdrawn)

Collect(x) ==
  /\ x \notin swept
  /\ swept' = swept \cup {x}
  /\ UNCHANGED <<owed, rowVars, job, workVars, askVars, lease, wire, faults>>

\* The payout row of a swept payment is inserted, fails, is replaced.
Owe(x) ==
  /\ x \in swept \ Direct
  /\ owed' = IF x \in owed THEN owed \ {x} ELSE owed \cup {x}
  /\ UNCHANGED <<swept, rowVars, job, workVars, askVars, lease, wire, faults>>

-----------------------------------------------------------------------------
(* requestAdminWithdrawal: a transaction under an advisory lock.           *)

Ask(o) ==
  /\ rpc[o] = "idle"
  /\ \E a \in Amounts : ask' = [ask EXCEPT ![o].amount = a]
  /\ rpc' = [rpc EXCEPT ![o] = "lock"]
  /\ UNCHANGED <<ledgerVars, rowVars, job, workVars, advisory, lease, wire, faults>>

Done(o) ==
  /\ rpc' = [rpc EXCEPT ![o] = "idle"]
  /\ ask' = [ask EXCEPT ![o] = [amount |-> 0, row |-> None]]

\* Mutant: the balance is read without the lock, as it once was.
CheckUnlocked(o) ==
  /\ rpc[o] = "lock" /\ ask[o].amount <= Available
  /\ rpc' = [rpc EXCEPT ![o] = "insert"]
  /\ UNCHANGED <<ledgerVars, rowVars, job, workVars, ask, advisory, lease, wire, faults>>

\* The lock, and the balance read under it.
Check(o) ==
  /\ rpc[o] = "lock" /\ advisory = None
  /\ IF ask[o].amount > Available
       THEN Done(o) /\ UNCHANGED advisory
       ELSE rpc' = [rpc EXCEPT ![o] = "insert"] /\ advisory' = o /\ UNCHANGED ask
  /\ UNCHANGED <<ledgerVars, rowVars, job, workVars, lease, wire, faults>>

Insert(o) ==
  /\ rpc[o] = "insert"
  /\ \E w \in Withdrawals :
       /\ status[w] = "none"
       /\ status' = [status EXCEPT ![w] = "pending"]
       /\ amount' = [amount EXCEPT ![w] = ask[o].amount]
       /\ ask' = [ask EXCEPT ![o].row = w]
  /\ advisory' = None
  /\ rpc' = [rpc EXCEPT ![o] = "enqueue"]
  /\ UNCHANGED <<ledgerVars, stamped, signed, job, workVars, lease, wire, faults>>

\* The transaction rolls back; also when the instance has no row id left.
Rollback(o) ==
  /\ \/ rpc[o] = "insert" /\ Fault("request")
     \/ /\ rpc[o] = "insert" /\ \A w \in Withdrawals : status[w] # "none"
        /\ UNCHANGED faults
  /\ advisory' = None
  /\ Done(o)
  /\ UNCHANGED <<ledgerVars, rowVars, job, workVars, lease, wire>>

\* adminWithdrawQueue.add, after the COMMIT.
Enqueue(o) ==
  /\ rpc[o] = "enqueue"
  /\ \/ job' = [job EXCEPT ![ask[o].row].state = "wait"] /\ UNCHANGED faults
     \/ UNCHANGED job /\ Fault("enqueue")
  /\ Done(o)
  /\ UNCHANGED <<ledgerVars, rowVars, workVars, advisory, lease, wire>>

-----------------------------------------------------------------------------
(* executeAdminWithdrawal.                                                 *)

Owns(e, w) == job[w].state = "active" /\ job[w].owner = e
Completed(e) ==
  IF Owns(e, on[e]) THEN [job EXCEPT ![on[e]].state = "done", ![on[e]].owner = None] ELSE job
Threw(e) ==
  IF ~Owns(e, on[e]) THEN job
  ELSE [job EXCEPT ![on[e]] =
         [state |-> IF @.tries + 1 < MaxAttempts THEN "wait" ELSE "dead",
          owner |-> None, tries |-> @.tries + 1]]

Goto(e, l) == pc' = [pc EXCEPT ![e] = l]
Leave(e) ==
  /\ Goto(e, "idle")
  /\ on' = [on EXCEPT ![e] = None]
  /\ held' = [held EXCEPT ![e] = NoHeld]
  /\ bytes' = [bytes EXCEPT ![e] = None]

\* Mutant: the worker does not read the stored bytes and the stamp.
StartBlind(e, w) ==
  /\ pc[e] = "idle" /\ job[w].state = "wait"
  /\ status[w] \notin {"sent", "confirmed"}
  /\ job' = [job EXCEPT ![w].state = "active", ![w].owner = e]
  /\ on' = [on EXCEPT ![e] = w]
  /\ Goto(e, "mark")
  /\ UNCHANGED <<ledgerVars, rowVars, held, bytes, askVars, lease, wire, faults>>

\* Mutant: a row in 'processing' is somebody else's.
StartIdle(e, w) ==
  /\ pc[e] = "idle" /\ job[w].state = "wait"
  /\ IF status[w] \in {"processing", "sent", "confirmed"}
       THEN /\ job' = [job EXCEPT ![w].state = "done"]
            /\ UNCHANGED workVars
       ELSE /\ job' = [job EXCEPT ![w].state = "active", ![w].owner = e]
            /\ on' = [on EXCEPT ![e] = w]
            /\ held' = [held EXCEPT ![e] = [signed |-> signed[w], stamped |-> stamped[w]]]
            /\ Goto(e, "mark")
            /\ UNCHANGED bytes
  /\ UNCHANGED <<ledgerVars, rowVars, askVars, lease, wire, faults>>

\* SELECT * ...: the row as it is now; 'sent' and 'confirmed' are skipped.
Start(e, w) ==
  /\ pc[e] = "idle" /\ job[w].state = "wait"
  /\ IF status[w] \in {"sent", "confirmed"}
       THEN /\ job' = [job EXCEPT ![w].state = "done"]
            /\ UNCHANGED workVars
       ELSE /\ job' = [job EXCEPT ![w].state = "active", ![w].owner = e]
            /\ on' = [on EXCEPT ![e] = w]
            /\ held' = [held EXCEPT ![e] = [signed |-> signed[w], stamped |-> stamped[w]]]
            /\ Goto(e, "mark")
            /\ UNCHANGED bytes
  /\ UNCHANGED <<ledgerVars, rowVars, askVars, lease, wire, faults>>

\* SET status = 'processing', whatever it is; a chain that cannot prepare
\* refuses a stamped row before it takes the lock.
MarkProcessing(e) ==
  /\ pc[e] = "mark"
  /\ status' = [status EXCEPT ![on[e]] = "processing"]
  /\ Goto(e, IF ~prepares /\ held[e].stamped THEN "failed" ELSE "lock")
  /\ UNCHANGED <<ledgerVars, amount, stamped, signed, job, on, held, bytes, askVars, lease,
                 wire, faults>>

AcquireLock(e) ==
  /\ pc[e] = "lock" /\ lease = None
  /\ lease' = e
  /\ Goto(e, "locked")
  /\ UNCHANGED <<ledgerVars, rowVars, job, on, held, bytes, askVars, wire, faults>>

\* The stored bytes, or new ones with the next nonce.
Prepare(e) ==
  /\ pc[e] = "locked" /\ prepares
  /\ IF held[e].signed # None
       THEN bytes' = [bytes EXCEPT ![e] = held[e].signed] /\ Goto(e, "send")
       ELSE /\ \E s \in Slots : wire[s] = None
            /\ bytes' = [bytes EXCEPT ![e] = Min({s \in Slots : wire[s] = None})]
            /\ Goto(e, "persist")
  /\ UNCHANGED <<ledgerVars, rowVars, job, on, held, askVars, lease, wire, faults>>

\* preparePayout throws with nothing signed.
PrepareFails(e) ==
  /\ pc[e] = "locked" /\ prepares /\ held[e].signed = None
  /\ Fault("prepare")
  /\ lease' = None
  /\ Goto(e, "failed")
  /\ UNCHANGED <<ledgerVars, rowVars, job, on, held, bytes, askVars, wire>>

\* persistPrepared.
Persist(e) ==
  /\ pc[e] = "persist"
  /\ signed' = [signed EXCEPT ![on[e]] = bytes[e]]
  /\ stamped' = [stamped EXCEPT ![on[e]] = TRUE]
  /\ Goto(e, "send")
  /\ UNCHANGED <<ledgerVars, status, amount, job, on, held, bytes, askVars, lease, wire, faults>>

\* That UPDATE ends in an error, committed or not.
PersistFails(e) ==
  /\ pc[e] = "persist"
  /\ Fault("persist")
  /\ \/ /\ signed' = [signed EXCEPT ![on[e]] = bytes[e]]
        /\ stamped' = [stamped EXCEPT ![on[e]] = TRUE]
     \/ UNCHANGED <<signed, stamped>>
  /\ lease' = None
  /\ Goto(e, "failed")
  /\ UNCHANGED <<ledgerVars, status, amount, job, on, held, bytes, askVars, wire>>

\* markAttempted, where nothing can be prepared.
MarkAttempted(e) ==
  /\ pc[e] = "locked" /\ ~prepares
  /\ \E s \in Slots : wire[s] = None
  /\ stamped' = [stamped EXCEPT ![on[e]] = TRUE]
  /\ bytes' = [bytes EXCEPT ![e] = Min({s \in Slots : wire[s] = None})]
  /\ Goto(e, "send")
  /\ UNCHANGED <<ledgerVars, status, amount, signed, job, on, held, askVars, lease, wire, faults>>

\* That UPDATE ends in an error, committed or not.
MarkAttemptedFails(e) ==
  /\ pc[e] = "locked" /\ ~prepares
  /\ Fault("persist")
  /\ stamped' = [stamped EXCEPT ![on[e]] = TRUE] \/ UNCHANGED stamped
  /\ lease' = None
  /\ Goto(e, "failed")
  /\ UNCHANGED <<ledgerVars, status, amount, signed, job, on, held, bytes, askVars, wire>>

\* The node takes the transaction, or has its nonce already; its answer, or
\* the request, may be lost.  The lock is released either way.
Broadcast(e) ==
  /\ pc[e] = "send"
  /\ \/ /\ wire' = [wire EXCEPT ![bytes[e]] = IF @ = None THEN on[e] ELSE @]
        /\ \/ Goto(e, "write") /\ UNCHANGED faults
           \/ Goto(e, "failed") /\ Fault("lostAck")
     \/ UNCHANGED wire /\ Goto(e, "failed") /\ Fault("unsent")
  /\ lease' = None
  /\ UNCHANGED <<ledgerVars, rowVars, job, on, held, bytes, askVars>>

\* markFailed, then the rethrow.
MarkFailed(e) ==
  /\ pc[e] = "failed"
  /\ status' = [status EXCEPT ![on[e]] = "failed"]
  /\ job' = Threw(e)
  /\ Leave(e)
  /\ UNCHANGED <<ledgerVars, amount, stamped, signed, askVars, lease, wire, faults>>

\* markFailed fails itself: its error is what is thrown, and the row stays as it is.
MarkFailedFails(e) ==
  /\ pc[e] = "failed"
  /\ Fault("book")
  /\ job' = Threw(e)
  /\ Leave(e)
  /\ UNCHANGED <<ledgerVars, rowVars, askVars, lease, wire>>

\* SET status = 'sent'; its failure is thrown.
WriteSent(e) ==
  /\ pc[e] = "write"
  /\ \/ /\ status' = [status EXCEPT ![on[e]] = "sent"]
        /\ Goto(e, "watch")
        /\ UNCHANGED <<job, on, held, bytes, faults>>
     \/ Fault("sentWrite") /\ job' = Threw(e) /\ Leave(e) /\ UNCHANGED status
  /\ UNCHANGED <<ledgerVars, amount, stamped, signed, askVars, lease, wire>>

\* waitForTx: a receipt, or the row stays 'sent'.
Watch(e) ==
  /\ pc[e] = "watch"
  /\ \/ status' = [status EXCEPT ![on[e]] = "confirmed"] /\ wire[bytes[e]] = on[e]
     \/ UNCHANGED status
  /\ job' = Completed(e)
  /\ Leave(e)
  /\ UNCHANGED <<ledgerVars, amount, stamped, signed, askVars, lease, wire, faults>>

\* The worker dies; its lease runs out.
Crash(e) ==
  /\ pc[e] # "idle"
  /\ Fault("crash")
  /\ Leave(e)
  /\ lease' = IF lease = e THEN None ELSE lease
  /\ UNCHANGED <<ledgerVars, rowVars, job, askVars, wire>>

Orphaned(w) == job[w].state = "active" /\ on[job[w].owner] # w

\* A job whose worker died, or only paused, is handed out again.
Redeliver(w) ==
  /\ job[w].state = "active"
  /\ IF Orphaned(w) THEN UNCHANGED faults ELSE Fault("stall")
  /\ job' = [job EXCEPT ![w].state = "wait", ![w].owner = None]
  /\ UNCHANGED <<ledgerVars, rowVars, workVars, askVars, lease, wire>>

Request(o) == Ask(o) \/ Check(o) \/ Insert(o) \/ Rollback(o) \/ Enqueue(o)

Execute(e) ==
  \/ \E w \in Withdrawals : Start(e, w)
  \/ MarkProcessing(e) \/ AcquireLock(e)
  \/ Prepare(e) \/ PrepareFails(e) \/ Persist(e) \/ PersistFails(e)
  \/ MarkAttempted(e) \/ MarkAttemptedFails(e) \/ Broadcast(e)
  \/ MarkFailed(e) \/ MarkFailedFails(e) \/ WriteSent(e) \/ Watch(e)

Next ==
  /\ \/ \E x \in Payments : Collect(x) \/ Owe(x)
     \/ \E o \in Operators : Request(o)
     \/ \E e \in Workers : Execute(e) \/ Crash(e)
     \/ \E w \in Withdrawals : Redeliver(w)
  /\ UNCHANGED prepares

Spec == Init /\ [][Next]_vars

\* A worker that is up goes on; BullMQ hands out the jobs of dead ones.
Fairness ==
  /\ \A e \in Workers : WF_vars(Execute(e) /\ UNCHANGED prepares)
  /\ \A w \in Withdrawals : WF_vars(Orphaned(w) /\ Redeliver(w) /\ UNCHANGED prepares)
FairSpec == Spec /\ Fairness

-----------------------------------------------------------------------------
(* Properties.                                                             *)

Landed(w) == {s \in Slots : wire[s] = w}

\* A withdrawal is sent at most once, however its job fails, dies and is tried
\* again (chainBroadcast.ts).
SentAtMostOnce == \A w \in Withdrawals : Cardinality(Landed(w)) <= 1

\* A withdrawal does not stay 'processing': a worker that died left it so, and the
\* next one must take it although it claims nothing.  The exception is a markFailed
\* that fails on the job's last attempt.
ProcessingEnds ==
  \A w \in Withdrawals :
    status[w] = "processing"
      ~> status[w] \in {"sent", "confirmed", "failed"} \/ job[w].state = "dead"

\* What operators hold reserved was collected: two at once do not both pass the
\* guard.  Rows that failed and are tried again are the exception, since 'failed'
\* gives the commission back and the retry asks no balance.
WithinCollected ==
  Sum(amount, {w \in Withdrawals : status[w] \in Reserving /\ job[w].tries = 0}) <= Collected
=============================================================================
