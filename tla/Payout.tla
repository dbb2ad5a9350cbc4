------------------------------- MODULE Payout -------------------------------
(***************************************************************************)
(* One merchant's payouts on one chain, in one asset: the decision to      *)
(* create a payout row (requestPayout), the worker that executes it        *)
(* (executePayout, broadcastTransferOnce, withChainLock), the BullMQ job   *)
(* that carries it, the settle tick that re-drives swept payments, and the *)
(* chain the transfer lands on.                                            *)
(*                                                                         *)
(* The row is the only thing that survives a worker.  What matters about   *)
(* it is the status, broadcast_at (`stamped`) and the signed bytes         *)
(* (`signed`).  Signed bytes are identified by the nonce they carry: an    *)
(* EVM transaction, a Bitcoin transaction and a Tron transaction all take  *)
(* one Slot of the central wallet (a nonce, an unspent output, a fresh     *)
(* transaction id).                                                        *)
(***************************************************************************)
EXTENDS Integers, FiniteSetsExt

CONSTANTS
  Payouts,        \* row ids: a bound on how many payouts are ever requested
  Payments,       \* the merchant's confirmed payments
  Received,       \* Received[x]: payments.amount_received of payment x
  ManualAmounts,  \* amounts a merchant or an admin may ask for by hand
  Executors,      \* payout worker slots, over every worker process
  Requesters,     \* concurrent callers of requestPayout
  Slots,          \* nonces / coins / transaction ids of the central wallet
  Kind,           \* "evm" | "btc" | "tron"
  MaxAttempts,    \* BullMQ attempts of one payout job (5 in queues.ts)
  MaxStalls,      \* stalled redeliveries of one job (BullMQ's default is 1)
  Faults,         \* the kinds of fault a run admits
  MaxFaults,      \* how many of them, altogether
  None

FaultKinds ==
  {"crash", "lateCrash", "stall", "timeout", "prepare", "persist", "unsent", "lostAck",
   "book", "sentWrite", "lapse", "enqueue", "request"}

ASSUME PayoutAssumption ==
  /\ IsFiniteSet(Payouts) /\ IsFiniteSet(Payments)
  /\ Slots \subseteq Nat
  /\ Kind \in {"evm", "btc", "tron"}
  /\ MaxAttempts \in Nat \ {0}
  /\ MaxStalls \in Nat
  /\ MaxFaults \in Nat
  /\ Faults \subseteq FaultKinds
  /\ None \notin Payouts \cup Payments \cup Executors \cup Requesters \cup Slots
  /\ Received \in [Payments -> Nat \ {0}]
  /\ ManualAmounts \subseteq Nat \ {0}

VARIABLES
  status,      \* payouts.status, or "none" when the row does not exist
  payment,     \* payouts.payment_id, None for a manual payout
  gross,       \* payouts.gross_amount
  stamped,     \* payouts.broadcast_at IS NOT NULL
  signed,      \* payouts.signed_tx and nonce, None when NULL
  swept,       \* payments with status 'swept'; the others are 'confirmed'
  settleDone,  \* payments with settle_done_at IS NOT NULL
  job,         \* the BullMQ job of each row
  pc,          \* where each executor is in executePayout
  on,          \* the row it executes
  held,        \* the BroadcastState it built from the claimed row
  bytes,       \* the transaction it is about to persist or broadcast
  outcome,     \* "ok" or "err": how the locked section ended
  rpc,         \* where each requester is in requestPayout
  ask,         \* what it asks for: [payment, amount], or the inserted row
  advisory,    \* holder of pg_advisory_xact_lock(8123, client:network)
  lease,       \* holder of the Redis lock chainlock:<network>:central
  pool,        \* pool[s]: the row whose transaction the node holds at slot s
  mined,       \* mined[s]: the row whose transaction landed at slot s
  faults       \* faults so far

rowVars   == <<status, payment, gross, stamped, signed>>
payVars   == <<swept, settleDone>>
execVars  == <<pc, on, held, bytes, outcome>>
reqVars   == <<rpc, ask, advisory>>
chainVars == <<pool, mined>>
vars == <<rowVars, payVars, job, execVars, reqVars, lease, chainVars, faults>>

Statuses == {"none", "pending", "processing", "sent", "confirmed", "failed",
             "unresolved"}
\* The statuses that hold the merchant's balance.
Reserving == {"pending", "processing", "sent", "confirmed", "unresolved"}

Section == {"locked", "persist", "send", "unlock"}   \* inside withChainLock
PCs     == {"idle", "claim", "lock", "book", "write", "watch"} \cup Section
NoHeld  == [signed |-> None, stamped |-> FALSE]
NoAsk   == [payment |-> None, amount |-> 0, row |-> None]
NoJob   == [state |-> "none", owner |-> None, tries |-> 0, stalls |-> 0]

Jobs == [state : {"none", "wait", "active", "done", "dead"},
         owner : Executors \cup {None}, tries : Nat, stalls : Nat]
Asks == [payment : Payments \cup {None}, amount : Nat, row : Payouts \cup {None}]

TypeOK ==
  /\ status \in [Payouts -> Statuses]
  /\ payment \in [Payouts -> Payments \cup {None}]
  /\ gross \in [Payouts -> Nat]
  /\ stamped \in [Payouts -> BOOLEAN]
  /\ signed \in [Payouts -> Slots \cup {None}]
  /\ swept \subseteq Payments
  /\ settleDone \subseteq Payments
  /\ job \in [Payouts -> Jobs]
  /\ pc \in [Executors -> PCs]
  /\ on \in [Executors -> Payouts \cup {None}]
  /\ held \in [Executors -> [signed : Slots \cup {None}, stamped : BOOLEAN]]
  /\ bytes \in [Executors -> Slots \cup {None}]
  /\ outcome \in [Executors -> {"none", "ok", "err"}]
  /\ rpc \in [Requesters -> {"idle", "lock", "insert", "enqueue"}]
  /\ ask \in [Requesters -> Asks]
  /\ advisory \in Requesters \cup {None}
  /\ lease \in Executors \cup {None}
  /\ pool \in [Slots -> Payouts \cup {None}]
  /\ mined \in [Slots -> Payouts \cup {None}]
  /\ faults \in Nat

Init ==
  /\ status = [p \in Payouts |-> "none"]
  /\ payment = [p \in Payouts |-> None]
  /\ gross = [p \in Payouts |-> 0]
  /\ stamped = [p \in Payouts |-> FALSE]
  /\ signed = [p \in Payouts |-> None]
  /\ swept = {} /\ settleDone = {}
  /\ job = [p \in Payouts |-> NoJob]
  /\ pc = [e \in Executors |-> "idle"]
  /\ on = [e \in Executors |-> None]
  /\ held = [e \in Executors |-> NoHeld]
  /\ bytes = [e \in Executors |-> None]
  /\ outcome = [e \in Executors |-> "none"]
  /\ rpc = [r \in Requesters |-> "idle"]
  /\ ask = [r \in Requesters |-> NoAsk]
  /\ advisory = None
  /\ lease = None
  /\ pool = [s \in Slots |-> None]
  /\ mined = [s \in Slots |-> None]
  /\ faults = 0

\* A fault of kind k happens in this step.
Fault(k) == k \in Faults /\ faults < MaxFaults /\ faults' = faults + 1

-----------------------------------------------------------------------------
(* requestPayout: a transaction under the advisory lock, then the enqueue. *)

\* SUM(payments confirmed/swept) - SUM(gross of reserving payouts).
Available ==
  MapThenSumSet(LAMBDA x : Received[x], Payments)
    - MapThenSumSet(LAMBDA p : gross[p], {p \in Payouts : status[p] \in Reserving})

\* The rows uq_payouts_active_payment covers for payment x: it admits one.
Active(x) == {p \in Payouts : payment[p] = x /\ status[p] \notin {"none", "failed"}}

\* Mutant: the unique index is missing.
NoIndex(p, x) == FALSE

\* Giving row p of payment x a status other than 'failed' violates the index.
Conflict(p, x) == x # None /\ Active(x) \ {p} # {}

Call(r, x, a) ==
  /\ rpc[r] = "idle"
  /\ rpc' = [rpc EXCEPT ![r] = "lock"]
  /\ ask' = [ask EXCEPT ![r] = [payment |-> x, amount |-> a, row |-> None]]
  /\ UNCHANGED <<rowVars, settleDone, job, execVars, advisory, lease, chainVars, faults>>

\* processSweep: the payment becomes 'swept' and its payout is requested.
SweptPayout(r, x) ==
  /\ x \notin swept
  /\ swept' = swept \cup {x}
  /\ Call(r, x, Received[x])

\* A payout a merchant or an admin asks for; it carries no payment_id.
ManualPayout(r) ==
  /\ \E a \in ManualAmounts : Call(r, None, a)
  /\ UNCHANGED swept

\* Mutant: any row at all, a failed one included, keeps the tick away.
NoPayoutAtAll(x) == ~ \E p \in Payouts : payment[p] = x

\* The NOT EXISTS test the settle tick applies to a swept payment.
NoLivePayout(x) ==
  ~ \E p \in Payouts : payment[p] = x /\ (status[p] \in Reserving \/ stamped[p])

\* redrivePayouts: a swept payment without a live payout is requested again.
RedrivePayout(r, x) ==
  /\ x \in swept \ settleDone
  /\ NoLivePayout(x)
  /\ Call(r, x, Received[x])
  /\ UNCHANGED swept

\* Mutant: any live payout settles its payment, on the wire or not.
MarkLive(x) ==
  /\ x \in swept \ settleDone
  /\ \E p \in Payouts : payment[p] = x /\ status[p] \in Reserving
  /\ settleDone' = settleDone \cup {x}
  /\ UNCHANGED <<rowVars, swept, job, execVars, reqVars, lease, chainVars, faults>>

\* markSettledPayments: the payments whose payout has reached the wire.
MarkSettled(x) ==
  /\ x \in swept \ settleDone
  /\ \E p \in Payouts : /\ payment[p] = x
                        /\ status[p] \in {"sent", "confirmed", "unresolved"} \/ stamped[p]
  /\ settleDone' = settleDone \cup {x}
  /\ UNCHANGED <<rowVars, swept, job, execVars, reqVars, lease, chainVars, faults>>

\* Mutant: the balance is read without the advisory lock.
CheckUnlocked(r) ==
  /\ rpc[r] = "lock"
  /\ ask[r].amount <= Available
  /\ rpc' = [rpc EXCEPT ![r] = "insert"]
  /\ UNCHANGED <<rowVars, payVars, job, execVars, ask, advisory, lease, chainVars, faults>>

\* The advisory lock and the balance read under it.
CheckBalance(r) ==
  /\ rpc[r] = "lock"
  /\ advisory = None
  /\ \/ /\ ask[r].amount > Available
        /\ rpc' = [rpc EXCEPT ![r] = "idle"]
        /\ ask' = [ask EXCEPT ![r] = NoAsk]
        /\ UNCHANGED advisory
     \/ /\ ~(ask[r].amount > Available)
        /\ rpc' = [rpc EXCEPT ![r] = "insert"]
        /\ advisory' = r
        /\ UNCHANGED ask
  /\ UNCHANGED <<rowVars, payVars, job, execVars, lease, chainVars, faults>>

\* The INSERT and the COMMIT that releases the advisory lock.
InsertPayout(r, p) ==
  /\ rpc[r] = "insert"
  /\ status[p] = "none"
  /\ ~Conflict(p, ask[r].payment)
  /\ status' = [status EXCEPT ![p] = "pending"]
  /\ payment' = [payment EXCEPT ![p] = ask[r].payment]
  /\ gross' = [gross EXCEPT ![p] = ask[r].amount]
  /\ advisory' = None
  /\ rpc' = [rpc EXCEPT ![r] = "enqueue"]
  /\ ask' = [ask EXCEPT ![r].row = p]
  /\ UNCHANGED <<stamped, signed, payVars, job, execVars, lease, chainVars, faults>>

\* The transaction rolls back: the unique index refuses the row (or the run
\* has no row id left: a bound), or the connection or the process dies.
RequestRollback(r) ==
  /\ \/ /\ rpc[r] = "insert"
        /\ \A p \in Payouts : status[p] = "none" => Conflict(p, ask[r].payment)
        /\ UNCHANGED faults
     \/ rpc[r] \in {"lock", "insert"} /\ Fault("request")
  /\ advisory' = IF advisory = r THEN None ELSE advisory
  /\ rpc' = [rpc EXCEPT ![r] = "idle"]
  /\ ask' = [ask EXCEPT ![r] = NoAsk]
  /\ UNCHANGED <<rowVars, payVars, job, execVars, lease, chainVars>>

\* payoutQueue.add, after the COMMIT.  A process that dies here, or a Redis
\* that refuses, leaves a pending row without a job.
EnqueuePayout(r) ==
  /\ rpc[r] = "enqueue"
  /\ \/ job' = [job EXCEPT ![ask[r].row].state = "wait"] /\ UNCHANGED faults
     \/ UNCHANGED job /\ Fault("enqueue")
  /\ rpc' = [rpc EXCEPT ![r] = "idle"]
  /\ ask' = [ask EXCEPT ![r] = NoAsk]
  /\ UNCHANGED <<rowVars, payVars, execVars, advisory, lease, chainVars>>

-----------------------------------------------------------------------------
(* executePayout.  Each executor is a job processor of the payout worker.  *)

Owns(e, p) == job[p].state = "active" /\ job[p].owner = e

\* What BullMQ does when the processor returns, or throws.  An executor whose
\* job was redelivered in the meantime no longer owns it: nothing happens.
Completed(e, p) ==
  IF Owns(e, p) THEN [job EXCEPT ![p].state = "done", ![p].owner = None] ELSE job
Threw(e, p) ==
  IF ~Owns(e, p) THEN job
  ELSE [job EXCEPT ![p] =
         [state |-> IF job[p].tries + 1 < MaxAttempts THEN "wait" ELSE "dead",
          owner |-> None, tries |-> job[p].tries + 1, stalls |-> job[p].stalls]]

\* The executor leaves executePayout.
Leave(e) ==
  /\ pc' = [pc EXCEPT ![e] = "idle"]
  /\ on' = [on EXCEPT ![e] = None]
  /\ held' = [held EXCEPT ![e] = NoHeld]
  /\ bytes' = [bytes EXCEPT ![e] = None]
  /\ outcome' = [outcome EXCEPT ![e] = "none"]

Goto(e, l) == pc' = [pc EXCEPT ![e] = l]

\* The job reaches a worker, which reads the row: nothing to do when it is
\* 'sent' or 'confirmed' already.
StartJob(e, p) ==
  /\ pc[e] = "idle"
  /\ job[p].state = "wait"
  /\ \/ /\ status[p] \in {"sent", "confirmed"}
        /\ job' = [job EXCEPT ![p].state = "done"]
        /\ UNCHANGED <<pc, on>>
     \/ /\ status[p] \notin {"sent", "confirmed"}
        /\ job' = [job EXCEPT ![p].state = "active", ![p].owner = e]
        /\ Goto(e, "claim")
        /\ on' = [on EXCEPT ![e] = p]
  /\ UNCHANGED <<held, bytes, outcome>>
  /\ UNCHANGED <<rowVars, payVars, reqVars, lease, chainVars, faults>>

\* Mutant: a row in 'processing' may always be claimed.
ClaimableAlways(p) == status[p] \in {"pending", "processing", "failed", "unresolved"}

\* Mutant: a row in 'processing' may never be claimed.
ClaimableIdle(p) == status[p] \in {"pending", "failed", "unresolved"}

\* The WHERE of the claiming UPDATE.
Claimable(p) ==
  \/ status[p] \in {"pending", "failed", "unresolved"}
  \/ status[p] = "processing" /\ (signed[p] # None \/ stamped[p])

\* Mutant: the claim does not return the stored bytes and the stamp.
ClaimBlind(e) ==
  LET p == on[e] IN
  /\ pc[e] = "claim"
  /\ Claimable(p)
  /\ ~Conflict(p, payment[p])
  /\ status' = [status EXCEPT ![p] = "processing"]
  /\ Goto(e, "lock")
  /\ UNCHANGED <<payment, gross, stamped, signed, payVars, job, on, held, bytes, outcome,
                 reqVars, lease, chainVars, faults>>

\* The claim: a compare-and-set whose RETURNING row becomes the state every
\* later decision is taken from.  Without nonces (Tron) a stamped row is
\* refused before the lock.
Claim(e) ==
  LET p == on[e] IN
  /\ pc[e] = "claim"
  /\ Claimable(p)
  /\ ~Conflict(p, payment[p])
  /\ status' = [status EXCEPT ![p] = "processing"]
  /\ held' = [held EXCEPT ![e] = [signed |-> signed[p], stamped |-> stamped[p]]]
  /\ Goto(e, IF Kind = "tron" /\ stamped[p] THEN "book" ELSE "lock")
  /\ UNCHANGED <<payment, gross, stamped, signed, payVars, job, on, bytes, outcome,
                 reqVars, lease, chainVars, faults>>

\* No row comes back: the executor returns, and the row is left alone.
ClaimRefused(e) ==
  /\ pc[e] = "claim"
  /\ ~Claimable(on[e])
  /\ job' = Completed(e, on[e])
  /\ Leave(e)
  /\ UNCHANGED <<rowVars, payVars, reqVars, lease, chainVars, faults>>

\* The claim of a 'failed' row trips uq_payouts_active_payment when another
\* row has taken over the payment.  The throw is outside the try.
ClaimConflict(e) ==
  /\ pc[e] = "claim"
  /\ Claimable(on[e]) /\ Conflict(on[e], payment[on[e]])
  /\ job' = Threw(e, on[e])
  /\ Leave(e)
  /\ UNCHANGED <<rowVars, payVars, reqVars, lease, chainVars, faults>>

-----------------------------------------------------------------------------
(* broadcastTransferOnce under withChainLock(network, 'central').          *)

\* Mutant: the central wallet is not locked.
AcquireNothing(e) ==
  /\ pc[e] = "lock"
  /\ Goto(e, "locked")
  /\ UNCHANGED <<rowVars, payVars, job, on, held, bytes, outcome, reqVars, lease, chainVars,
                 faults>>

AcquireLock(e) ==
  /\ pc[e] = "lock" /\ lease = None
  /\ lease' = e
  /\ Goto(e, "locked")
  /\ UNCHANGED <<rowVars, payVars, job, on, held, bytes, outcome, reqVars, chainVars, faults>>

\* ACQUIRE_TIMEOUT_MS passes while the lock is held.
AcquireTimeout(e) ==
  /\ pc[e] = "lock" /\ lease # None
  /\ Fault("timeout")
  /\ Goto(e, "book")
  /\ UNCHANGED <<rowVars, payVars, job, on, held, bytes, outcome, reqVars, lease, chainVars>>

\* Leave the locked section; the finally clause comes next.
Unlocking(e, o) ==
  /\ Goto(e, "unlock")
  /\ outcome' = [outcome EXCEPT ![e] = o]

\* eth_getTransactionCount(.., 'pending'), or the first unspent coin of the
\* sorted list: the least slot the node knows nothing of.
Unused(s)   == pool[s] = None /\ mined[s] = None
NextSlot(s) == Unused(s) /\ \A t \in Slots : Unused(t) => s <= t

\* Stored bytes are re-broadcast as they are.
Replay(e) ==
  /\ pc[e] = "locked" /\ Kind # "tron"
  /\ held[e].signed # None
  /\ bytes' = [bytes EXCEPT ![e] = held[e].signed]
  /\ Goto(e, "send")
  /\ UNCHANGED <<rowVars, payVars, job, on, held, outcome, reqVars, lease, chainVars, faults>>

\* preparePayout picks the slot and signs.  The refusal to sign a stamped row
\* that has no bytes is left out: no such row exists (StampHasBytes).
Prepare(e) ==
  /\ pc[e] = "locked" /\ Kind # "tron"
  /\ held[e].signed = None
  /\ \E s \in Slots : NextSlot(s) /\ bytes' = [bytes EXCEPT ![e] = s]
  /\ Goto(e, "persist")
  /\ UNCHANGED <<rowVars, payVars, job, on, held, outcome, reqVars, lease, chainVars, faults>>

\* preparePayout throws before it has signed anything.
PrepareFails(e) ==
  /\ pc[e] = "locked" /\ Kind # "tron"
  /\ held[e].signed = None
  /\ Fault("prepare")
  /\ Unlocking(e, "err")
  /\ UNCHANGED <<rowVars, payVars, job, on, held, bytes, reqVars, lease, chainVars>>

\* persistPrepared: one UPDATE, committed before anything reaches the wire.
PersistPrepared(e) ==
  /\ pc[e] = "persist"
  /\ signed' = [signed EXCEPT ![on[e]] = bytes[e]]
  /\ stamped' = [stamped EXCEPT ![on[e]] = TRUE]
  /\ Goto(e, "send")
  /\ UNCHANGED <<status, payment, gross, payVars, job, on, held, bytes, outcome, reqVars,
                 lease, chainVars, faults>>

\* The UPDATE ends in an error, which leaves open whether it committed.
PersistFails(e) ==
  /\ pc[e] = "persist"
  /\ Fault("persist")
  /\ \/ /\ signed' = [signed EXCEPT ![on[e]] = bytes[e]]
        /\ stamped' = [stamped EXCEPT ![on[e]] = TRUE]
     \/ UNCHANGED <<signed, stamped>>
  /\ Unlocking(e, "err")
  /\ UNCHANGED <<status, payment, gross, payVars, job, on, held, bytes, reqVars, lease,
                 chainVars>>

\* Tron: markAttempted stamps the row and nothing else.
MarkAttempted(e) ==
  /\ pc[e] = "locked" /\ Kind = "tron"
  /\ stamped' = [stamped EXCEPT ![on[e]] = TRUE]
  /\ Goto(e, "send")
  /\ UNCHANGED <<status, payment, gross, signed, payVars, job, on, held, bytes, outcome,
                 reqVars, lease, chainVars, faults>>

\* That UPDATE ends in an error, committed or not.
MarkAttemptedFails(e) ==
  /\ pc[e] = "locked" /\ Kind = "tron"
  /\ Fault("persist")
  /\ stamped' = [stamped EXCEPT ![on[e]] = TRUE] \/ UNCHANGED stamped
  /\ Unlocking(e, "err")
  /\ UNCHANGED <<status, payment, gross, signed, payVars, job, on, held, bytes, reqVars,
                 lease, chainVars>>

\* The node takes the transaction at slot s from row p.
Accepts(s, p) ==
  /\ mined[s] = None
  /\ \/ pool[s] \in {None, p}
     \/ Kind = "evm"              \* a better-paying transaction replaces it
  /\ pool' = [pool EXCEPT ![s] = p]

\* Broadcasting the bytes again is a no-op, and so is what an EVM node calls
\* "nonce too low", whichever transaction used the nonce up.
AlreadyThere(s, p) ==
  /\ \/ mined[s] = p
     \/ mined[s] # None /\ Kind = "evm"
  /\ UNCHANGED pool

\* The node refuses: another transaction holds the slot.
Refuses(s, p) ==
  /\ \/ mined[s] = None /\ pool[s] \notin {None, p}
     \/ mined[s] \notin {None, p} /\ Kind # "evm"
  /\ UNCHANGED pool

\* broadcastPayout, or sendPayout, which makes a new transaction: the request
\* may be lost on its way, and the answer on its way back.
Broadcast(e) ==
  LET p == on[e] IN
  /\ pc[e] = "send"
  /\ \E s \in Slots :
       /\ IF Kind = "tron" THEN NextSlot(s) ELSE s = bytes[e]
       /\ bytes' = [bytes EXCEPT ![e] = s]
       /\ \/ /\ Accepts(s, p) \/ AlreadyThere(s, p)
             /\ \/ Unlocking(e, "ok") /\ UNCHANGED faults
                \/ Unlocking(e, "err") /\ Fault("lostAck")
          \/ Refuses(s, p) /\ Unlocking(e, "err") /\ UNCHANGED faults
          \/ Fault("unsent") /\ Unlocking(e, "err") /\ UNCHANGED pool
  /\ UNCHANGED <<rowVars, payVars, job, on, held, reqVars, lease, mined>>

\* The finally clause: the token-checked release.
ReleaseLock(e) ==
  /\ pc[e] = "unlock"
  /\ lease' = IF lease = e THEN None ELSE lease
  /\ Goto(e, IF outcome[e] = "ok" THEN "write" ELSE "book")
  /\ UNCHANGED <<rowVars, payVars, job, on, held, bytes, outcome, reqVars, chainVars, faults>>

-----------------------------------------------------------------------------
(* What executePayout writes afterwards.                                   *)

\* Mutant: every throw books 'failed'.
BookFailed(e) ==
  /\ pc[e] = "book"
  /\ status' = [status EXCEPT ![on[e]] = "failed"]
  /\ job' = Threw(e, on[e])
  /\ Leave(e)
  /\ UNCHANGED <<payment, gross, stamped, signed, payVars, reqVars, lease, chainVars, faults>>

\* recordBroadcastFailure, then the rethrow.
BookFailure(e) ==
  LET p == on[e] IN
  /\ pc[e] = "book"
  /\ status' = [status EXCEPT ![p] = IF stamped[p] THEN "unresolved" ELSE "failed"]
  /\ job' = Threw(e, p)
  /\ Leave(e)
  /\ UNCHANGED <<payment, gross, stamped, signed, payVars, reqVars, lease, chainVars, faults>>

\* recordBroadcastFailure fails itself: swallowed, and the row stays as it is.
BookFailureFails(e) ==
  /\ pc[e] = "book"
  /\ Fault("book")
  /\ job' = Threw(e, on[e])
  /\ Leave(e)
  /\ UNCHANGED <<rowVars, payVars, reqVars, lease, chainVars>>

\* SET status = 'sent', whatever the status was.
WriteSent(e) ==
  /\ pc[e] = "write"
  /\ status' = [status EXCEPT ![on[e]] = "sent"]
  /\ Goto(e, "watch")
  /\ UNCHANGED <<payment, gross, stamped, signed, payVars, job, on, held, bytes, outcome,
                 reqVars, lease, chainVars, faults>>

\* That UPDATE fails, outside the try: the job is retried.
WriteSentFails(e) ==
  /\ pc[e] = "write"
  /\ Fault("sentWrite")
  /\ job' = Threw(e, on[e])
  /\ Leave(e)
  /\ UNCHANGED <<rowVars, payVars, reqVars, lease, chainVars>>

\* waitForTx is bounded and its failures are swallowed: 'confirmed' when the
\* transaction has a receipt, left 'sent' otherwise.
WatchReceipt(e) ==
  LET p == on[e] IN
  /\ pc[e] = "watch"
  /\ \/ /\ mined[bytes[e]] = p
        /\ status' = [status EXCEPT ![p] = "confirmed"]
     \/ UNCHANGED status
  /\ job' = Completed(e, p)
  /\ Leave(e)
  /\ UNCHANGED <<payment, gross, stamped, signed, payVars, reqVars, lease, chainVars, faults>>

-----------------------------------------------------------------------------
(* What happens to the workers, the queue, Redis and the chain.            *)

\* The worker dies, before or after its row is stamped.  The row, the lease
\* and the job stay as they are.
Crash(e) ==
  /\ pc[e] # "idle"
  /\ Fault(IF stamped[on[e]] THEN "lateCrash" ELSE "crash")
  /\ Leave(e)
  /\ UNCHANGED <<rowVars, payVars, job, reqVars, lease, chainVars>>

Orphaned(p) == job[p].state = "active" /\ on[job[p].owner] # p

\* BullMQ redelivers a job whose lock expired: its worker died, or is alive
\* but was paused.  Past MaxStalls the job fails for good.
Redeliver(p) ==
  /\ job[p].state = "active"
  /\ IF Orphaned(p) THEN UNCHANGED faults ELSE Fault("stall")
  /\ job' = [job EXCEPT ![p] =
       IF job[p].stalls < MaxStalls
         THEN [state |-> "wait", owner |-> None, tries |-> job[p].tries,
               stalls |-> job[p].stalls + 1]
         ELSE [state |-> "dead", owner |-> None, tries |-> job[p].tries,
               stalls |-> job[p].stalls]]
  /\ UNCHANGED <<rowVars, payVars, execVars, reqVars, lease, chainVars>>

\* The lease of a dead holder runs out; so does that of a live one which
\* cannot renew it.
ExpireLease ==
  /\ lease # None
  /\ IF pc[lease] \in Section THEN Fault("lapse") ELSE UNCHANGED faults
  /\ lease' = None
  /\ UNCHANGED <<rowVars, payVars, job, execVars, reqVars, chainVars>>

\* A block takes a transaction out of the pool: in nonce order on EVM chains.
Mine(s) ==
  /\ pool[s] # None
  /\ Kind = "evm" => \A t \in Slots : t < s => mined[t] # None
  /\ mined' = [mined EXCEPT ![s] = pool[s]]
  /\ pool' = [pool EXCEPT ![s] = None]
  /\ UNCHANGED <<rowVars, payVars, job, execVars, reqVars, lease, faults>>

Request(r) ==
  \/ \E x \in Payments : SweptPayout(r, x) \/ RedrivePayout(r, x)
  \/ ManualPayout(r) \/ CheckBalance(r) \/ RequestRollback(r) \/ EnqueuePayout(r)
  \/ \E p \in Payouts : InsertPayout(r, p)

Execute(e) ==
  \/ \E p \in Payouts : StartJob(e, p)
  \/ Claim(e) \/ ClaimRefused(e) \/ ClaimConflict(e)
  \/ AcquireLock(e) \/ AcquireTimeout(e)
  \/ Replay(e) \/ Prepare(e) \/ PrepareFails(e) \/ PersistPrepared(e) \/ PersistFails(e)
  \/ MarkAttempted(e) \/ MarkAttemptedFails(e) \/ Broadcast(e) \/ ReleaseLock(e)
  \/ BookFailure(e) \/ BookFailureFails(e) \/ WriteSent(e) \/ WriteSentFails(e)
  \/ WatchReceipt(e) \/ Crash(e)

Next ==
  \/ \E r \in Requesters : Request(r)
  \/ \E e \in Executors : Execute(e)
  \/ \E x \in Payments : MarkSettled(x)
  \/ \E p \in Payouts : Redeliver(p)
  \/ ExpireLease
  \/ \E s \in Slots : Mine(s)

Spec == Init /\ [][Next]_vars

(* Fairness.  A worker that is up goes on with its job; BullMQ hands out     *)
(* waiting jobs and redelivers those of dead workers; a lease has a TTL; a   *)
(* request that is being served ends; the settle tick runs every minute.     *)
(* Nothing is assumed of the chain, nor of those who request payouts.        *)
Fairness ==
  /\ \A e \in Executors : WF_vars(Execute(e))
  /\ \A p \in Payouts : WF_vars(Orphaned(p) /\ Redeliver(p))
  /\ WF_vars(ExpireLease)
  /\ \A r \in Requesters :
       /\ WF_vars(CheckBalance(r) \/ RequestRollback(r) \/ EnqueuePayout(r)
                    \/ \E p \in Payouts : InsertPayout(r, p))
       /\ WF_vars(\E x \in Payments : RedrivePayout(r, x))
  /\ \A x \in Payments : WF_vars(MarkSettled(x))

FairSpec == Spec /\ Fairness

-----------------------------------------------------------------------------
(* Properties.                                                             *)

\* A payout row moves money at most once, however its executors die, race,
\* time out and are redelivered (chainBroadcast.ts, "broadcast an outbound
\* transfer exactly once, however many times it is retried").
PaidAtMostOnce ==
  \A s, t \in Slots :
    mined[s] # None /\ mined[s] = mined[t] => s = t

\* A payment is paid out by at most one of its rows, although the settle tick
\* replaces a failed row while BullMQ still retries it
\* (uq_payouts_active_payment).
OnePayoutPerPayment ==
  \A s, t \in Slots :
    LET p == mined[s]
        q == mined[t] IN
    p # None /\ q # None /\ payment[p] # None /\ payment[p] = payment[q] => s = t

\* 'failed' releases the balance: nothing of a failed row is, or will be, on
\* the wire unless the row is claimed again (recordBroadcastFailure).
FailedNeverOnWire ==
  \A p \in Payouts : status[p] = "failed" =>
    /\ \A s \in Slots : pool[s] # p /\ mined[s] # p
    /\ \A e \in Executors : on[e] = p => pc[e] \in {"claim", "idle"}

\* A payment the settle tick has stopped looking at has a payout that holds
\* its balance for good (markSettledPayments: the marking is monotone).
SettledIsHeld ==
  \A x \in settleDone :
    \E p \in Payouts : payment[p] = x /\ stamped[p] /\ status[p] \in Reserving

\* 'confirmed' was read off the chain: the row's own transfer landed, even
\* when other executors rewrote the row meanwhile.
ConfirmedLanded ==
  \A p \in Payouts : status[p] = "confirmed" => \E s \in Slots : mined[s] = p

StampStays ==
  \A p \in Payouts : stamped[p] =>
    stamped'[p] /\ signed'[p] = signed[p] /\ status'[p] \in Reserving

\* Once a row has been stamped, no step releases it, forgets the stamp or
\* replaces the bytes a retry would broadcast.
BroadcastIsFinal == [][StampStays]_vars

\* The branch of broadcastTransferOnce that refuses to sign a second time is
\* unreachable, as its comment claims: a stamp never comes without bytes.
StampHasBytes ==
  Kind # "tron" => /\ \A p \in Payouts : stamped[p] => signed[p] # None
                   /\ \A e \in Executors : held[e].stamped => held[e].signed # None

\* What the merchant's payouts hold or have sent never exceeds what the
\* merchant was credited.
NoOverdraw == Available >= 0

\* A payout reported as sent has its transaction at the node or in a block.
SentIsOnWire ==
  \A p \in Payouts : status[p] \in {"sent", "confirmed"} =>
    \E s \in Slots : pool[s] = p \/ mined[s] = p

\* A worker that dies or errs mid-broadcast does not strand its payout: the
\* row is claimed again and ends at the node or with an operator
\* (executePayout, the claimable slice of 'processing').
StampedResolves ==
  \A p \in Payouts :
    (status[p] = "processing" /\ stamped[p])
      ~> status[p] \in {"sent", "confirmed", "unresolved"}

\* A swept payment is paid out, however many of its payouts fail before they
\* reach the wire: BullMQ retries them, the settle tick replaces them and in
\* the end marks the payment as done (redrivePayouts, markSettledPayments).
SweptIsSettled ==
  \A x \in Payments : x \in swept ~> x \in settleDone

\* What a row is to its merchant, and how many of its transfers have landed.
Place(st, b) ==
  CASE st = "none"   -> "none"
    [] st = "failed" -> "released"
    [] OTHER         -> IF b THEN "committed" ELSE "reserved"
Standing == [p \in Payouts |-> Place(status[p], stamped[p])]
Landings == [p \in Payouts |-> Cardinality({s \in Slots : mined[s] = p})]

Promise == INSTANCE PayoutPromise WITH
             row <- Standing, purpose <- payment, landed <- Landings

\* executePayout with its retries, redeliveries, leases and races implements
\* the promise.
KeepsPromise == Promise!Spec
=============================================================================
