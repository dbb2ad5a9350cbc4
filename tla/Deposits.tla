------------------------------ MODULE Deposits ------------------------------
(***************************************************************************)
(* How a transfer on an EVM chain becomes money of a payment: the listener *)
(* of one chain (evmListener.ts) with its live subscription and its token  *)
(* reconciler, the chain that grows and reorganises under it, the expiry   *)
(* tick with the late-payment reaper, and the sweep, which here only takes *)
(* a confirmed payment out of the listener's hands.                        *)
(*                                                                         *)
(* The reconciler and the subscription's callbacks run in one process and  *)
(* interleave at every await: each statement they send is a step.          *)
(***************************************************************************)
EXTENDS Integers, FiniteSetsExt

CONSTANTS
  Payments,     \* each has a deposit address of its own
  Due,          \* Due[x]: paidFloorSql('amount'), what payment x must reach
  Transfers,    \* transfers that customers may make
  To, Amount,   \* the payment whose address a transfer goes to, and its amount
  Asset,        \* the token a transfer is in
  Awaits,       \* payments.asset
  Callbacks,    \* concurrent deliveries of the live subscription
  Required,     \* required_confirmations
  ReorgDepth,   \* reorgDepth
  ScanRange,    \* blocks a pass scans at most
  MaxReorg,     \* how many blocks the chain ever rewrites
  MinSweep,     \* asset.minSweep, the least balance worth sweeping
  MaxLag,       \* how many blocks pass between two reorg checks that are made
  MaxHeight,    \* bound on the chain
  Faults,       \* the kinds of fault a run admits
  MaxFaults     \* how many of them, altogether

Loop == "reconciler"
Actors == {Loop} \cup Callbacks
Start == ReorgDepth + 1
Heights == 0..MaxHeight
FaultKinds == {"reorg", "lag", "receipt", "query", "abort", "torn", "crash"}

ASSUME DepositsAssumption ==
  /\ IsFiniteSet(Transfers)
  /\ Required \in Nat /\ ReorgDepth \in Nat /\ MaxReorg \in Nat /\ MaxLag \in Nat \ {0}
  /\ MinSweep \in Nat \ {0}
  /\ MaxReorg <= Start
  /\ ScanRange \in Nat \ {0} /\ MaxHeight \in Nat /\ MaxHeight >= Start
  /\ Due \in [Payments -> Nat]
  /\ To \in [Transfers -> Payments]
  /\ Amount \in [Transfers -> Nat \ {0}]
  /\ DOMAIN Asset = Transfers /\ DOMAIN Awaits = Payments
  /\ Loop \notin Callbacks
  /\ Faults \subseteq FaultKinds
  /\ MaxFaults \in Nat

VARIABLES
  head,      \* height of the chain
  at,        \* at[t]: the block of transfer t, 0 when it is in none
  status,    \* payments.status, "none" before the payment is created
  received,  \* payments.amount_received
  tx,        \* tx[t]: the row of t in blockchain_transactions
  listed,    \* payments whose address has a row in unexpected_deposits
  cursor,    \* chain_cursor.last_scanned_block, one per loop
  watch,     \* depositAddresses: the payments whose address is watched
  pc,        \* where each loop and each callback is
  top,       \* the head a pass has read
  todo,      \* candidates to check, or logs to record, of a pass
  ready,     \* payments a pass has found over the confirmation depth
  upto,      \* the block the pass will write to its cursor, 0 if none
  cur,       \* what an actor is recording, reverting or settling
  checked,   \* the head of the last reorg check that was completed
  faults     \* faults so far

chainVars == <<head, at>>
dbVars    == <<status, received, tx, listed, cursor>>
passVars  == <<top, todo, ready, upto>>
vars == <<chainVars, dbVars, watch, pc, passVars, cur, checked, faults>>

Live == {"waiting", "confirming", "partial"}
Statuses == Live \cup {"none", "confirmed", "swept", "expired"}
Logs == [t : Transfers, block : Heights]
NoRow == [status |-> "none", block |-> 0]
NoCur == [kind |-> "none"]
PCs == {"idle", "refresh", "select", "check", "revert", "log",
        "insert", "advance", "total", "settle", "deepen", "write"}

TypeOK ==
  /\ head \in Heights
  /\ at \in [Transfers -> Heights]
  /\ status \in [Payments -> Statuses]
  /\ received \in [Payments -> Nat]
  /\ tx \in [Transfers -> [status : {"none", "pending", "confirmed", "reorged"},
                           block : Heights]]
  /\ listed \subseteq Payments
  /\ cursor \in Heights
  /\ watch \subseteq Payments
  /\ pc \in [Actors -> PCs]
  /\ top \in Heights
  /\ todo \subseteq Logs
  /\ ready \subseteq [x : Payments, paid : BOOLEAN]
  /\ upto \in Heights
  /\ cur \in [Actors ->
       {NoCur} \cup [kind : {"log"}, t : Transfers, block : Heights, was : Live]
               \cup [kind : {"payment"}, x : Payments]]
  /\ checked \in Heights
  /\ faults \in Nat

\* The loops have caught up with the safe head when the model starts.
Init ==
  /\ head = Start
  /\ at = [t \in Transfers |-> 0]
  /\ status = [x \in Payments |-> "none"]
  /\ received = [x \in Payments |-> 0]
  /\ tx = [t \in Transfers |-> NoRow]
  /\ listed = {}
  /\ cursor = 1
  /\ watch = {}
  /\ pc = [a \in Actors |-> "idle"]
  /\ top = 0
  /\ todo = {}
  /\ ready = {}
  /\ upto = 0
  /\ cur = [a \in Actors |-> NoCur]
  /\ checked = Start
  /\ faults = 0

Fault(k) == k \in Faults /\ faults < MaxFaults /\ faults' = faults + 1

Total(S) == MapThenSumSet(LAMBDA t : Amount[t], S)

\* The transfers that can count for x.
Incoming(x) == {t \in Transfers : To[t] = x /\ Asset[t] = Awaits[x]}

\* RECEIVED_SUM: the rows of x that are not reorged, in whatever asset.
Rows(x) == {t \in Transfers : To[t] = x /\ tx[t].status \in {"pending", "confirmed"}}
ReceivedSum(x) == Total(Rows(x))

-----------------------------------------------------------------------------
(* The chain, the merchant, the customer, and the worker's two parts.      *)

Create(x) ==
  /\ status[x] = "none"
  /\ status' = [status EXCEPT ![x] = "waiting"]
  /\ UNCHANGED <<chainVars, received, tx, listed, cursor, watch, pc, passVars, cur, checked,
                 faults>>

\* The listener keeps up: a reorg check and the recording of a delivered log end
\* before the chain is MaxLag blocks further.
KeepsUp ==
  /\ head < checked + MaxLag
  /\ \A c \in Callbacks : pc[c] # "idle" => head < cur[c].block + MaxLag

\* A block, with any transfers to addresses that have been given out.
Mine ==
  /\ head < MaxHeight
  /\ IF KeepsUp THEN UNCHANGED faults ELSE Fault("lag")
  /\ head' = head + 1
  /\ \E S \in SUBSET {t \in Transfers : at[t] = 0 /\ status[To[t]] # "none"} :
       at' = [t \in Transfers |-> IF t \in S THEN head + 1 ELSE at[t]]
  /\ UNCHANGED <<dbVars, watch, pc, passVars, cur, checked>>

\* The last blocks are replaced: a transfer in them is gone, or in another one.
Reorganise ==
  /\ \E t \in Transfers, b \in {0} \cup (head - MaxReorg + 1)..head :
       /\ at[t] > head - MaxReorg /\ b # at[t]
       /\ at' = [at EXCEPT ![t] = b]
  /\ Fault("reorg")
  /\ UNCHANGED <<head, dbVars, watch, pc, passVars, cur, checked>>

\* processExpiry.
Expire(x) ==
  /\ status[x] = "waiting"
  /\ status' = [status EXCEPT ![x] = "expired"]
  /\ UNCHANGED <<chainVars, received, tx, listed, cursor, watch, pc, passVars, cur, checked,
                 faults>>

\* reapLateDeposits: a tick may find an expired payment's address with a balance
\* worth sweeping.  Whether one does depends on the clock and on the other
\* addresses (24 hours, thinned out with age, the newest 50), so nothing promises
\* this step.
ReapLate(x) ==
  /\ status[x] = "expired" /\ x \notin listed
  /\ Total({t \in Incoming(x) : at[t] > 0}) >= MinSweep
  /\ listed' = listed \cup {x}
  /\ UNCHANGED <<chainVars, status, received, tx, cursor, watch, pc, passVars, cur, checked,
                 faults>>

\* The sweep takes the money, and nothing here touches the payment any more.
Sweep(x) ==
  /\ status[x] = "confirmed"
  /\ status' = [status EXCEPT ![x] = "swept"]
  /\ UNCHANGED <<chainVars, received, tx, listed, cursor, watch, pc, passVars, cur, checked,
                 faults>>

-----------------------------------------------------------------------------
(* recordIncoming, by a callback or by a loop.                             *)

Goto(a, l) == pc' = [pc EXCEPT ![a] = l]

\* The live payment of this address that awaits this asset, or a row in
\* unexpected_deposits.
Match(a, t, b) ==
  LET x == To[t] IN
  IF status[x] \in Live /\ Asset[t] = Awaits[x]
    THEN /\ cur' = [cur EXCEPT ![a] = [kind |-> "log", t |-> t, block |-> b, was |-> status[x]]]
         /\ Goto(a, "insert")
         /\ UNCHANGED listed
    ELSE listed' = listed \cup {x} /\ UNCHANGED <<cur, pc>>

\* The subscription delivers a log of the last blocks.
Deliver(c, t) ==
  /\ pc[c] = "idle"
  /\ at[t] = head
  /\ To[t] \in watch
  /\ Match(c, t, at[t])
  /\ UNCHANGED <<chainVars, status, received, tx, cursor, watch, passVars, checked, faults>>

\* INSERT ... ON CONFLICT (tx_hash, log_index) DO UPDATE.
Insert(a) ==
  LET i == cur[a] IN
  /\ pc[a] = "insert"
  /\ tx' = [tx EXCEPT ![i.t] =
       [status |-> IF @.status = "confirmed" THEN "confirmed" ELSE "pending",
        block |-> i.block]]
  /\ Goto(a, IF i.was = "waiting" THEN "advance" ELSE "total")
  /\ UNCHANGED <<chainVars, status, received, listed, cursor, watch, passVars, cur, checked,
                 faults>>

\* waiting -> confirming, claimed by its own statement.
Advance(a) ==
  LET x == To[cur[a].t] IN
  /\ pc[a] = "advance"
  /\ status' = IF status[x] = "waiting" THEN [status EXCEPT ![x] = "confirming"] ELSE status
  /\ Goto(a, "total")
  /\ UNCHANGED <<chainVars, received, tx, listed, cursor, watch, passVars, cur, checked, faults>>

Recorded(a) ==
  /\ Goto(a, IF a = Loop THEN "log" ELSE "idle")
  /\ cur' = [cur EXCEPT ![a] = NoCur]

\* Mutant: this transfer's value is assigned, as it once was.
RefreshAssign(a) ==
  LET x == To[cur[a].t] IN
  /\ pc[a] = "total"
  /\ IF status[x] \in Live
       THEN /\ received' = [received EXCEPT ![x] = Amount[cur[a].t]]
            /\ status' = [status EXCEPT ![x] = IF @ = "waiting" THEN "confirming" ELSE @]
       ELSE UNCHANGED <<received, status>>
  /\ Recorded(a)
  /\ UNCHANGED <<chainVars, tx, listed, cursor, watch, passVars, checked, faults>>

\* amount_received is computed anew, while the payment is live.
Refresh(a) ==
  LET x == To[cur[a].t] IN
  /\ pc[a] = "total"
  /\ IF status[x] \in Live
       THEN /\ received' = [received EXCEPT ![x] = ReceivedSum(x)]
            /\ status' = [status EXCEPT ![x] = IF @ = "waiting" THEN "confirming" ELSE @]
       ELSE UNCHANGED <<received, status>>
  /\ Recorded(a)
  /\ UNCHANGED <<chainVars, tx, listed, cursor, watch, passVars, checked, faults>>

-----------------------------------------------------------------------------
(* A pass: the head, the watch set, the reorg check, the scan.             *)

Begin ==
  /\ pc[Loop] = "idle"
  /\ top' = head
  /\ Goto(Loop, "refresh")
  /\ UNCHANGED <<chainVars, dbVars, watch, todo, ready, upto, cur, checked, faults>>

LivePayments == {x \in Payments : status[x] \in Live}

\* Mutant: the watch set is left to the backstop timer, as it once was.
RefreshLater ==
  /\ pc[Loop] = "refresh"
  /\ Goto(Loop, "select")
  /\ UNCHANGED <<chainVars, dbVars, watch, passVars, cur, checked, faults>>

\* refreshDepositAddresses, after the head has been read.
RefreshWatch ==
  /\ pc[Loop] = "refresh"
  /\ watch' = LivePayments
  /\ Goto(Loop, "select")
  /\ UNCHANGED <<chainVars, dbVars, passVars, cur, checked, faults>>

\* The backstop timer of runEvmListener.
Backstop ==
  /\ watch' = LivePayments
  /\ UNCHANGED <<chainVars, dbVars, pc, passVars, cur, checked, faults>>

\* detectReorgs: the rows inside the window.
SelectRecent ==
  /\ pc[Loop] = "select"
  /\ todo' = {[t |-> t, block |-> tx[t].block] :
                t \in {u \in Transfers : /\ tx[u].status \in {"pending", "confirmed"}
                                         /\ tx[u].block > top - ReorgDepth}}
  /\ Goto(Loop, "check")
  /\ UNCHANGED <<chainVars, dbVars, watch, top, ready, upto, cur, checked, faults>>

\* The receipt of one row; when it is gone or elsewhere the row is reorged.
CheckReceipt ==
  /\ pc[Loop] = "check"
  /\ \E i \in todo :
       /\ todo' = todo \ {i}
       /\ \/ /\ \/ at[i.t] = i.block /\ UNCHANGED faults
                \/ Fault("receipt")
             /\ UNCHANGED <<tx, cur, pc>>
          \/ /\ at[i.t] # i.block
             /\ tx' = [tx EXCEPT ![i.t].status = "reorged"]
             /\ cur' = [cur EXCEPT ![Loop] = [kind |-> "payment", x |-> To[i.t]]]
             /\ Goto(Loop, "revert")
             /\ UNCHANGED faults
  /\ UNCHANGED <<chainVars, status, received, listed, cursor, watch, top, ready, upto, checked>>

\* Its payment goes back to waiting with what is left.
Revert ==
  LET x == cur[Loop].x IN
  /\ pc[Loop] = "revert"
  /\ IF status[x] \in {"confirmed", "confirming"}
       THEN /\ status' = [status EXCEPT ![x] = "waiting"]
            /\ received' = [received EXCEPT ![x] = ReceivedSum(x)]
       ELSE UNCHANGED <<status, received>>
  /\ cur' = [cur EXCEPT ![Loop] = NoCur]
  /\ Goto(Loop, "check")
  /\ UNCHANGED <<chainVars, tx, listed, cursor, watch, passVars, checked, faults>>

ScanTo == Min({top - ReorgDepth, cursor + ScanRange})

EndPass ==
  /\ Goto(Loop, "idle")
  /\ top' = 0
  /\ upto' = 0

Behind == ScanTo > cursor
Found == {t \in Transfers : at[t] \in cursor + 1 .. ScanTo /\ To[t] \in watch}

\* The candidates are done with: the logs of the blocks behind the safe head, to
\* the addresses of a snapshot of the watch set.  When a query fails the logs of
\* the others are recorded, and the cursor is not written.
Scan ==
  /\ pc[Loop] = "check" /\ todo = {}
  /\ \/ ~Behind /\ UNCHANGED <<todo, upto, faults>>
     \/ /\ Behind
        /\ \E S \in SUBSET Found :
             /\ todo' = {[t |-> t, block |-> at[t]] : t \in S}
             /\ \/ S = Found /\ upto' = ScanTo /\ UNCHANGED faults
                \/ Fault("query") /\ UNCHANGED upto
  /\ checked' = top
  /\ Goto(Loop, "log")
  /\ UNCHANGED <<chainVars, dbVars, watch, top, ready, cur>>

RecordNext ==
  /\ pc[Loop] = "log"
  /\ \E i \in todo :
       /\ todo' = todo \ {i}
       /\ Match(Loop, i.t, i.block)
  /\ UNCHANGED <<chainVars, status, received, tx, cursor, watch, top, ready, upto, checked,
                 faults>>

-----------------------------------------------------------------------------
(* updateConfirmationsAndPromote.                                          *)

Deep(t) == top - tx[t].block >= Required
PendingDeep(x) == {t \in Rows(x) : tx[t].status = "pending" /\ Deep(t)}

\* Mutant: sufficiency measured on every row, as it once was.
FullyPaidShallow(x) == Total(Rows(x)) >= Due[x]

FullyPaid(x) == Total({t \in Rows(x) : Deep(t)}) >= Due[x]

\* Mutant: a partial payment is not selected again, as it once was.
SelectConfirming ==
  /\ pc[Loop] = "log" /\ todo = {}
  /\ ready' = {[x |-> x, paid |-> FullyPaid(x)] :
                 x \in {y \in Payments : status[y] = "confirming" /\ PendingDeep(y) # {}}}
  /\ Goto(Loop, "settle")
  /\ UNCHANGED <<chainVars, dbVars, watch, top, todo, upto, cur, checked, faults>>

\* The payments with a pending row over the depth; sufficiency is measured on
\* the rows over the depth.
SelectReady ==
  /\ pc[Loop] = "log" /\ todo = {}
  /\ ready' = {[x |-> x, paid |-> FullyPaid(x)] :
                 x \in {y \in Payments : /\ status[y] \in {"confirming", "partial"}
                                         /\ PendingDeep(y) # {}}}
  /\ Goto(Loop, "settle")
  /\ UNCHANGED <<chainVars, dbVars, watch, top, todo, upto, cur, checked, faults>>

\* Promoted or held as partial; either statement repeats its condition.
Settle ==
  /\ pc[Loop] = "settle"
  /\ \E i \in ready :
       LET x == i.x
           open == /\ status[x] \in {"confirming", "partial"}
                   /\ i.paid \/ received[x] < Due[x] IN
       /\ ready' = ready \ {i}
       /\ IF open
            THEN /\ status' = [status EXCEPT ![x] = IF i.paid THEN "confirmed" ELSE "partial"]
                 /\ cur' = [cur EXCEPT ![Loop] = [kind |-> "payment", x |-> x]]
                 /\ Goto(Loop, "deepen")
            ELSE UNCHANGED <<status, cur, pc>>
  /\ UNCHANGED <<chainVars, received, tx, listed, cursor, watch, top, todo, upto, checked, faults>>

Confirmed(S) == [t \in Transfers |-> IF t \in S THEN [tx[t] EXCEPT !.status = "confirmed"]
                                     ELSE tx[t]]

\* confirmDeepRowsSql.
Deepen ==
  /\ pc[Loop] = "deepen"
  /\ tx' = Confirmed(PendingDeep(cur[Loop].x))
  /\ cur' = [cur EXCEPT ![Loop] = NoCur]
  /\ Goto(Loop, "settle")
  /\ UNCHANGED <<chainVars, status, received, listed, cursor, watch, passVars, checked, faults>>

\* The rows left behind of payments that are settled.
DeepenRest ==
  /\ pc[Loop] = "settle" /\ ready = {}
  /\ tx' = Confirmed(UNION {PendingDeep(x) :
                              x \in {y \in Payments : status[y] \in {"confirmed", "swept"}}})
  /\ IF upto > 0 THEN Goto(Loop, "write") /\ UNCHANGED <<top, upto>> ELSE EndPass
  /\ UNCHANGED <<chainVars, status, received, listed, cursor, watch, todo, ready, cur, checked,
                 faults>>

WriteCursor ==
  /\ pc[Loop] = "write"
  /\ cursor' = upto
  /\ EndPass
  /\ UNCHANGED <<chainVars, status, received, tx, listed, watch, todo, ready, cur, checked,
                 faults>>

\* Between these statements and the ones before them there is no transaction:
\* what they write is not written again when they are lost.
Torn == {"advance", "total", "revert"}

\* A statement or a call of this actor throws.
Abort(a) ==
  /\ pc[a] # "idle"
  /\ Fault(IF pc[a] \in Torn THEN "torn" ELSE "abort")
  /\ cur' = [cur EXCEPT ![a] = NoCur]
  /\ IF a = Loop
       THEN EndPass /\ todo' = {} /\ ready' = {}
       ELSE Goto(a, "idle") /\ UNCHANGED passVars
  /\ UNCHANGED <<chainVars, dbVars, watch, checked>>

\* The process dies and starts again.
Crash ==
  /\ Fault(IF \E a \in Actors : pc[a] \in Torn THEN "torn" ELSE "crash")
  /\ watch' = LivePayments
  /\ pc' = [a \in Actors |-> "idle"]
  /\ cur' = [a \in Actors |-> NoCur]
  /\ top' = 0 /\ todo' = {} /\ ready' = {} /\ upto' = 0
  /\ UNCHANGED <<chainVars, dbVars, checked>>

Pass ==
  \/ Begin \/ RefreshWatch \/ SelectRecent \/ CheckReceipt \/ Revert \/ Scan
  \/ RecordNext \/ SelectReady \/ Settle \/ Deepen \/ DeepenRest \/ WriteCursor
  \/ Insert(Loop) \/ Advance(Loop) \/ Refresh(Loop)

Handle(c) == Insert(c) \/ Advance(c) \/ Refresh(c)

Next ==
  \/ Mine \/ Reorganise \/ Backstop \/ Crash \/ Pass
  \/ \E x \in Payments : Create(x) \/ Expire(x) \/ ReapLate(x) \/ Sweep(x)
  \/ \E c \in Callbacks : Handle(c) \/ \E t \in Transfers : Deliver(c, t)
  \/ \E a \in Actors : Abort(a)

Spec == Init /\ [][Next]_vars

\* setInterval starts a pass whenever none runs, and a wedged one ends the
\* process (startPassLoop); a handler runs to its end.
Fairness ==
  /\ WF_vars(Pass)
  /\ \A c \in Callbacks : WF_vars(Handle(c))
FairSpec == Spec /\ Fairness

-----------------------------------------------------------------------------
(* What the subsystem promises.                                            *)

\* The transfers to x that the chain holds at their depth.
Covering(x) == {t \in Incoming(x) : at[t] > 0 /\ head - at[t] >= Required}

\* What a status is to the merchant.
Place(s) == IF s \in Live THEN "open" ELSE IF s = "confirmed" THEN "paid" ELSE s

Promise(x) == INSTANCE PaymentPromise WITH
  life <- Place(status[x]),
  funded <- Total(Covering(x)) >= Due[x],
  credited <- received[x] >= Due[x]

\* The subscription, the passes, the expiry tick and the sweep implement the
\* promise of every payment: whatever they interleave with, none is paid before its
\* price is held and credited, and the credit of one that is paid is not written again.
KeepsPromise ==
  /\ \A x \in Payments : Promise(x)!Init
  /\ [][\A x \in Payments : [Promise(x)!Next]_(Promise(x)!vars)]_vars

-----------------------------------------------------------------------------
(* Properties.                                                             *)

\* A payment is confirmed only on transfers that are on the chain, at their
\* depth: a reorganisation never leaves one confirmed without its money, however
\* it falls between the subscription's insert, the reorg check and the promotion.
ConfirmedIsCovered ==
  \A x \in Payments : status[x] \in {"confirmed", "swept"} => Total(Covering(x)) >= Due[x]

\* A confirmed payment is credited with its price: promotion reads the rows and
\* the merchant's balance reads amount_received, which another actor writes.
PaidIsCredited ==
  \A x \in Payments : status[x] \in {"confirmed", "swept"} => received[x] >= Due[x]

\* What the scan reaches before the chain stops.
Final(x) == {t \in Incoming(x) : at[t] > 0 /\ MaxHeight - at[t] >= ReorgDepth}

\* A live payment that is covered, by a transfer not settled yet, settles: also
\* one held as partial and topped up, and one whose log the subscription missed.
\* A reorganisation that reverts it is the exception.
PaidSettles ==
  \A x \in Payments :
    (/\ status[x] \in Live /\ head = MaxHeight
     /\ Total(Final(x)) >= Due[x]
     /\ \E t \in Final(x) : tx[t].status # "confirmed")
      ~> (status[x] \notin Live \/ \E t \in Incoming(x) : tx[t].status = "reorged")
=============================================================================
