-------------------------------- MODULE Scan --------------------------------
(***************************************************************************)
(* The listeners of Tron and of Bitcoin (tronListener.ts,                  *)
(* bitcoinListener.ts).  No query of these chains covers a range of        *)
(* blocks: every watched address is asked for its own history, a few at a  *)
(* time, until the deadline of the pass.  Confirmation and promotion are a *)
(* second tick of the same process, which shares nothing with the scan but *)
(* the database; a third one rebuilds the watch set.                       *)
(*                                                                         *)
(* A behaviour is of one of the two listeners; where they differ, the      *)
(* definition names the chain.                                             *)
(***************************************************************************)
EXTENDS Integers, SequencesExt, FiniteSetsExt

CONSTANTS
  Chains,       \* the listeners a run is about
  Payments,     \* each has a deposit address of its own
  Due,          \* Due[x]: paidFloorSql('amount'), what payment x must reach
  Transfers,    \* transfers that customers may make
  To, Amount,   \* the payment whose address a transfer goes to, and its amount
  Asset,        \* the asset a transfer is in
  Awaits,       \* payments.asset
  Key,          \* the (tx_hash, log_index) a transfer is recorded under
  Required,     \* required_confirmations, of each chain
  Width,        \* SCAN_CONCURRENCY
  MaxHeight,    \* bound on the chain
  Faults,       \* the kinds of fault a run admits
  MaxFaults     \* how many of them, altogether

FaultKinds == {"feed", "behind", "lookup", "query", "torn", "list", "crash", "held"}
Heights == 0..MaxHeight
Keys == {Key[t] : t \in Transfers}

ASSUME ScanAssumption ==
  /\ Chains \subseteq {"TRC20", "BTC"} /\ IsFiniteSet(Transfers)
  /\ Due \in [Payments -> Nat] /\ To \in [Transfers -> Payments]
  /\ Amount \in [Transfers -> Nat \ {0}]
  /\ DOMAIN Asset = Transfers /\ DOMAIN Awaits = Payments /\ DOMAIN Key = Transfers
  /\ Required \in [Chains -> Nat]
  /\ Width \in Nat \ {0} /\ MaxHeight \in Nat /\ MaxFaults \in Nat
  /\ Faults \subseteq FaultKinds

VARIABLES
  chain,     \* whose listener this is
  head, at,  \* height of the chain; the block of each transfer, 0 when in none
  status,    \* payments.status, "none" before the payment is created
  counted,   \* counted[x]: the transfers payments.amount_received is the sum of
  row,       \* row[k]: the row of blockchain_transactions with this key
  listed,    \* the transfers that have a row in unexpected_deposits
  watch,     \* depositAddresses
  scanned,   \* the keys of lastScannedAt, least recent first
  queue,     \* what the pass has not taken yet of its snapshot
  pc,        \* where the scan of each address is
  feeds,     \* the feeds of it that are still to be read
  todo,      \* transfers a feed has returned and the scan has not dealt with
  cur,       \* the transfer being recorded
  tick,      \* where the promotion tick is
  ready,     \* payments it has found over the confirmation depth
  faults     \* faults so far

chainVars == <<chain, head, at>>
dbVars    == <<status, counted, row, listed>>
scanVars  == <<watch, scanned, queue, pc, feeds, todo, cur>>
tickVars  == <<tick, ready>>
vars == <<chainVars, dbVars, scanVars, tickVars, faults>>

Live == {"waiting", "confirming", "partial"}
Statuses == Live \cup {"none", "confirmed", "expired"}
NoRow == [status |-> "none"]
NoCur == "none"

TypeOK ==
  /\ chain \in Chains /\ head \in Heights /\ at \in [Transfers -> Heights]
  /\ status \in [Payments -> Statuses]
  /\ counted \in [Payments -> SUBSET Transfers]
  /\ row \in [Keys -> {NoRow} \cup
                [status : {"pending", "confirmed"}, t : Transfers, block : Heights]]
  /\ listed \subseteq Transfers /\ watch \subseteq Payments
  /\ scanned \in Seq(Payments) /\ queue \in Seq(Payments)
  /\ pc \in [Payments -> {"idle", "fetch", "record", "insert", "total"}]
  /\ feeds \in [Payments -> Seq({Asset[t] : t \in Transfers})]
  /\ todo \in [Payments -> SUBSET Transfers]
  /\ cur \in [Payments -> Transfers \cup {NoCur}]
  /\ tick \in Payments \cup {"idle", "settle"}
  /\ ready \subseteq [x : Payments, paid : BOOLEAN]
  /\ faults \in Nat

Init ==
  /\ chain \in Chains /\ head = 0 /\ at = [t \in Transfers |-> 0]
  /\ status = [x \in Payments |-> "none"]
  /\ counted = [x \in Payments |-> {}]
  /\ row = [k \in Keys |-> NoRow]
  /\ listed = {} /\ watch = {} /\ scanned = <<>> /\ queue = <<>>
  /\ pc = [x \in Payments |-> "idle"]
  /\ feeds = [x \in Payments |-> <<>>]
  /\ todo = [x \in Payments |-> {}]
  /\ cur = [x \in Payments |-> NoCur]
  /\ tick = "idle" /\ ready = {}
  /\ faults = 0

Fault(k) == k \in Faults /\ faults < MaxFaults /\ faults' = faults + 1

Total(S) == MapThenSumSet(LAMBDA t : Amount[t], S)
Enough(S, x) == Total(S) >= Due[x]
LivePayments == {x \in Payments : status[x] \in Live}

\* The transfers that have a row of payment x, and those that could have one.
Recorded(x) == {t \in Transfers : To[t] = x /\ row[Key[t]] # NoRow /\ row[Key[t]].t = t}
Incoming(x) == {t \in Transfers : To[t] = x /\ Asset[t] = Awaits[x]}
Strangers == {t \in Transfers : Asset[t] # Awaits[To[t]]}

\* amount_received reaches the floor.
Covered(x) == Enough(counted[x], x)

-----------------------------------------------------------------------------
(* The chain, the merchant, the customer, and the worker.                  *)

Create(x) ==
  /\ status[x] = "none"
  /\ status' = [status EXCEPT ![x] = "waiting"]
  /\ UNCHANGED <<chainVars, counted, row, listed, scanVars, tickVars, faults>>

\* Bitcoin has one asset.
OnChain == IF chain = "BTC" THEN Transfers \ Strangers ELSE Transfers

\* A block with some transactions, each with all its transfers: a solidified block
\* of Tron, as no call of the scan shows what is in none.
Mine ==
  /\ head < MaxHeight
  /\ head' = head + 1
  /\ \E K \in SUBSET Keys :
       LET S == {t \in OnChain : Key[t] \in K} IN
       /\ \A t \in S : at[t] = 0 /\ status[To[t]] # "none"
       /\ at' = [t \in Transfers |-> IF t \in S THEN head + 1 ELSE at[t]]
  /\ UNCHANGED <<chain, dbVars, scanVars, tickVars, faults>>

\* processExpiry.
Expire(x) ==
  /\ status[x] = "waiting"
  /\ status' = [status EXCEPT ![x] = "expired"]
  /\ UNCHANGED <<chainVars, counted, row, listed, scanVars, tickVars, faults>>

-----------------------------------------------------------------------------
(* The scan.                                                               *)

\* refreshDepositAddresses, on a timer of its own.
Refresh ==
  /\ watch' = LivePayments
  /\ UNCHANGED <<chainVars, dbVars, scanned, queue, pc, feeds, todo, cur, tickVars, faults>>

Scanning == queue # <<>> \/ \E x \in Payments : pc[x] # "idle"

\* The native feed and one per token, or the one history of a Bitcoin address.
Feeds(x) == IF chain = "BTC" THEN <<Awaits[x]>> ELSE SetToSeq({Asset[t] : t \in Transfers})

\* runPool takes the addresses in S.
Take(S) ==
  /\ pc' = [x \in Payments |-> IF x \in S THEN "fetch" ELSE pc[x]]
  /\ feeds' = [x \in Payments |-> IF x \in S THEN Feeds(x) ELSE feeds[x]]

Watched(x) == x \in watch

\* Mutant: the snapshot is not sorted.
PassUnsorted ==
  /\ ~Scanning /\ watch # {}
  /\ scanned' = SelectSeq(scanned, Watched)
  /\ \E snapshot \in SetToSeqs(watch) :
       LET n == Min({Width, Len(snapshot)}) IN
       /\ Take(ToSet(SubSeq(snapshot, 1, n)))
       /\ queue' = SubSeq(snapshot, n + 1, Len(snapshot))
  /\ UNCHANGED <<chainVars, dbVars, watch, todo, cur, tickVars, faults>>

\* scanAddresses: a snapshot of the watch set, never scanned addresses first and
\* then the least recently scanned; Width of them are taken at once.
BeginPass ==
  /\ ~Scanning /\ watch # {}
  /\ scanned' = SelectSeq(scanned, Watched)
  /\ \E s \in SetToSeqs(watch \ ToSet(scanned)) :
       LET snapshot == s \o scanned'
           n == Min({Width, Len(snapshot)}) IN
       /\ Take(ToSet(SubSeq(snapshot, 1, n)))
       /\ queue' = SubSeq(snapshot, n + 1, Len(snapshot))
  /\ UNCHANGED <<chainVars, dbVars, watch, todo, cur, tickVars, faults>>

\* A worker of the pool is done with its address.
TakeNext ==
  /\ queue # <<>> /\ Cardinality({x \in Payments : pc[x] # "idle"}) < Width
  /\ Take({Head(queue)})
  /\ queue' = Tail(queue)
  /\ UNCHANGED <<chainVars, dbVars, watch, scanned, todo, cur, tickVars, faults>>

\* PASS_DEADLINE_MS has passed: what is left is left to the next pass.
Deadline ==
  /\ queue # <<>>
  /\ queue' = <<>>
  /\ UNCHANGED <<chainVars, dbVars, watch, scanned, pc, feeds, todo, cur, tickVars, faults>>

\* Mutant: any row with this key will do, as it once did.
SettledInAnyAsset(t) ==
  /\ chain = "TRC20"
  /\ row[Key[t]] # NoRow
  /\ LET p == To[row[Key[t]].t] IN Total(counted[p]) = Total(Recorded(p))

\* settledTxIds, on Tron: there is a row in this asset, and the total of its
\* payment is the sum of its rows.
Settled(t) ==
  /\ chain = "TRC20"
  /\ row[Key[t]] # NoRow
  /\ Asset[row[Key[t]].t] = Asset[t]
  /\ LET p == To[row[Key[t]].t] IN Total(counted[p]) = Total(Recorded(p))

\* What one feed of the address returns, without what is settled.
Fetch(x) ==
  /\ pc[x] = "fetch" /\ feeds[x] # <<>>
  /\ feeds' = [feeds EXCEPT ![x] = Tail(@)]
  /\ \/ /\ todo' = [todo EXCEPT ![x] =
              {t \in Transfers : To[t] = x /\ Asset[t] = Head(feeds[x]) /\ at[t] > 0 /\ ~Settled(t)}]
        /\ pc' = [pc EXCEPT ![x] = IF todo'[x] = {} THEN "fetch" ELSE "record"]
        /\ UNCHANGED faults
     \/ Fault("feed") /\ UNCHANGED <<todo, pc>>
  /\ UNCHANGED <<chainVars, dbVars, watch, scanned, queue, cur, tickVars>>

\* Mutant: Bitcoin files what it has a row for.
FileAgain(t) ==
  \/ /\ listed' = IF \E u \in listed : Key[u] = Key[t] THEN listed ELSE listed \cup {t}
     /\ UNCHANGED faults
  \/ Fault("list") /\ UNCHANGED listed

\* recordUnexpectedDeposit, which swallows its failures.  Bitcoin files nothing
\* that has a row already: a transfer is read again after it was credited.
File(t) ==
  \/ /\ listed' = IF \/ chain = "BTC" /\ row[Key[t]] # NoRow
                     \/ \E u \in listed : Key[u] = Key[t]
                  THEN listed ELSE listed \cup {t}
     /\ UNCHANGED faults
  \/ Fault("list") /\ UNCHANGED listed

\* The transfer is dealt with; after the last one comes the next feed.
Done(x, t) ==
  /\ todo' = [todo EXCEPT ![x] = @ \ {t}]
  /\ pc' = [pc EXCEPT ![x] = IF todo[x] = {t} THEN "fetch" ELSE "record"]

Creditable(t) == status[To[t]] \in Live /\ t \in Incoming(To[t])

\* The live payment that awaits this asset at this address, or none.  On Tron the
\* block of a token transfer is looked up first, and it is left for the next pass
\* when that fails.
Record(x) ==
  /\ pc[x] = "record"
  /\ \E t \in todo[x] :
       \/ /\ Creditable(t)
          /\ cur' = [cur EXCEPT ![x] = t]
          /\ pc' = [pc EXCEPT ![x] = "insert"]
          /\ UNCHANGED <<todo, listed, faults>>
       \/ ~Creditable(t) /\ File(t) /\ Done(x, t) /\ UNCHANGED cur
       \/ chain = "TRC20" /\ Fault("lookup") /\ Done(x, t) /\ UNCHANGED <<cur, listed>>
  /\ UNCHANGED <<chainVars, status, counted, row, watch, scanned, queue, feeds, tickVars>>

\* INSERT ... ON CONFLICT (tx_hash, log_index) DO UPDATE SET block_number.  With the
\* fault, the payment is being held as partial, and this transfer covers it.
Insert(x) ==
  LET t == cur[x] IN
  /\ pc[x] = "insert"
  /\ row' = [row EXCEPT ![Key[t]] =
       IF @ = NoRow THEN [status |-> "pending", t |-> t, block |-> at[t]]
                    ELSE [@ EXCEPT !.block = at[t]]]
  /\ pc' = [pc EXCEPT ![x] = "total"]
  /\ IF tick = x /\ status[x] = "partial" /\ Enough(Recorded(x) \cup {t}, x)
       THEN Fault("held") ELSE UNCHANGED faults
  /\ UNCHANGED <<chainVars, status, counted, listed, watch, scanned, queue, feeds, todo, cur,
                 tickVars>>

\* amount_received is computed anew, while the payment is live.
Count(x) ==
  /\ pc[x] = "total"
  /\ IF status[x] \in Live
       THEN /\ counted' = [counted EXCEPT ![x] = Recorded(x)]
            /\ status' = [status EXCEPT ![x] = IF @ = "waiting" THEN "confirming" ELSE @]
       ELSE UNCHANGED <<counted, status>>
  /\ Done(x, cur[x])
  /\ cur' = [cur EXCEPT ![x] = NoCur]
  /\ UNCHANGED <<chainVars, row, listed, watch, scanned, queue, feeds, tickVars, faults>>

\* lastScannedAt, also of an address whose feeds all failed.
EndScan(x) ==
  /\ pc[x] = "fetch" /\ feeds[x] = <<>>
  /\ scanned' = Append(SelectSeq(scanned, LAMBDA y : y # x), x)
  /\ pc' = [pc EXCEPT ![x] = "idle"]
  /\ UNCHANGED <<chainVars, dbVars, watch, queue, feeds, todo, cur, tickVars, faults>>

\* A statement throws.  On Tron the next feed is read; on Bitcoin the scan of the
\* address ends, and it is not marked as scanned.
AbortScan(x) ==
  /\ pc[x] \in {"record", "insert", "total"}
  /\ Fault(IF pc[x] = "total" THEN "torn" ELSE "query")
  /\ todo' = [todo EXCEPT ![x] = {}]
  /\ cur' = [cur EXCEPT ![x] = NoCur]
  /\ pc' = [pc EXCEPT ![x] = IF chain = "BTC" THEN "idle" ELSE "fetch"]
  /\ UNCHANGED <<chainVars, dbVars, watch, scanned, queue, feeds, tickVars>>

-----------------------------------------------------------------------------
(* promoteOnce.                                                            *)

Pending(x) == {t \in Recorded(x) : row[Key[t]].status = "pending"}

\* Bitcoin counts the containing block.
Confirmations(h, b) == IF chain = "BTC" THEN h - b + 1 ELSE h - b
Deep(t, h) == Confirmations(h, row[Key[t]].block) >= Required[chain]

\* After the last of the payments found the tick ends.
Onward == tick' = IF ready' = {} THEN "idle" ELSE "settle"

\* The open payments with a pending row over the depth, and whether the total,
\* over whatever depth, reaches the floor.  The head was read before: with the
\* fault, a block has come since.
SelectReady ==
  /\ tick = "idle"
  /\ \E h \in Heights :
       /\ IF h = head THEN UNCHANGED faults ELSE h < head /\ Fault("behind")
       /\ ready' = {[x |-> x, paid |-> Covered(x)] :
                      x \in {y \in Payments : /\ status[y] \in {"confirming", "partial"}
                                              /\ \E t \in Pending(y) : Deep(t, h)}}
  /\ Onward
  /\ UNCHANGED <<chainVars, dbVars, scanVars>>

\* Promoted or held as partial; either statement repeats its condition.  With the
\* fault, what is recorded by then covers it, and is not counted yet.
Settle ==
  /\ tick = "settle"
  /\ \E i \in ready :
       LET x == i.x
           open == status[x] \in {"confirming", "partial"} /\ (i.paid \/ ~Covered(x)) IN
       /\ ready' = ready \ {i}
       /\ IF open
            THEN /\ status' = [status EXCEPT ![x] = IF i.paid THEN "confirmed" ELSE "partial"]
                 /\ tick' = x
                 /\ IF ~i.paid /\ Enough(Recorded(x), x) THEN Fault("held")
                                                           ELSE UNCHANGED faults
            ELSE UNCHANGED <<status, faults>> /\ Onward
  /\ UNCHANGED <<chainVars, counted, row, listed, scanVars>>

\* Every pending row of the payment, of whatever depth.
ConfirmRows ==
  /\ tick \in Payments
  /\ row' = [k \in Keys |-> IF \E t \in Pending(tick) : Key[t] = k
                            THEN [row[k] EXCEPT !.status = "confirmed"] ELSE row[k]]
  /\ ready' = ready /\ Onward
  /\ UNCHANGED <<chainVars, status, counted, listed, scanVars, faults>>

AbortTick ==
  /\ tick # "idle"
  /\ Fault("query")
  /\ tick' = "idle" /\ ready' = {}
  /\ UNCHANGED <<chainVars, dbVars, scanVars>>

\* The process dies and starts again.
Crash ==
  /\ Fault(IF \E x \in Payments : pc[x] = "total" THEN "torn" ELSE "crash")
  /\ watch' = LivePayments /\ scanned' = <<>> /\ queue' = <<>>
  /\ pc' = [x \in Payments |-> "idle"]
  /\ feeds' = [x \in Payments |-> <<>>]
  /\ todo' = [x \in Payments |-> {}]
  /\ cur' = [x \in Payments |-> NoCur]
  /\ tick' = "idle" /\ ready' = {}
  /\ UNCHANGED <<chainVars, dbVars>>

Scan(x) == Fetch(x) \/ Record(x) \/ Insert(x) \/ Count(x) \/ EndScan(x)
Tick == SelectReady \/ Settle \/ ConfirmRows

Next ==
  \/ Mine \/ Refresh \/ BeginPass \/ TakeNext \/ Deadline \/ Tick \/ AbortTick \/ Crash
  \/ \E x \in Payments : Create(x) \/ Expire(x) \/ Scan(x) \/ AbortScan(x)

Spec == Init /\ [][Next]_vars

\* main: three intervals, each of which runs again whatever the last run came to;
\* every call of a scan has a deadline.
Fairness ==
  /\ WF_vars(Refresh) /\ WF_vars(BeginPass \/ TakeNext) /\ WF_vars(Tick)
  /\ \A x \in Payments : WF_vars(Scan(x))
FairSpec == Spec /\ Fairness

-----------------------------------------------------------------------------
(* What the subsystem promises.                                            *)

\* What a status is to the merchant.
Place(s) == IF s \in Live THEN "open" ELSE IF s = "confirmed" THEN "paid" ELSE s

\* Money of an address: what it was sent in the asset it awaits.
Held(x) == {t \in Incoming(x) : at[t] > 0}

Promise(x) == INSTANCE PaymentPromise WITH
  life <- Place(status[x]),
  funded <- Enough(Held(x), x),
  credited <- Covered(x)

\* The scans, the promotion tick and the expiry tick implement the promise of every
\* payment, whatever they interleave with: the total that a scan writes and that a
\* tick has read is money of the address, and none is written once it is paid.
KeepsPromise ==
  /\ \A x \in Payments : Promise(x)!Init
  /\ [][\A x \in Payments : [Promise(x)!Next]_(Promise(x)!vars)]_vars

-----------------------------------------------------------------------------
(* Properties.                                                             *)

\* What is listed is stray: ListedIsStray.
INSTANCE Filing

\* What the scan and the depth reach before the chain stops.
Final(x) == {t \in Incoming(x) : at[t] > 0 /\ Confirmations(MaxHeight, at[t]) >= Required[chain]}

\* A covered payment settles, however few addresses a pass reaches before its
\* deadline, and when a transfer was recorded and not counted.
PaidSettles ==
  \A x \in {To[t] : t \in Transfers \ Strangers} :
    (/\ status[x] \in Live /\ head = MaxHeight
     /\ Enough(Final(x), x)
     /\ \E t \in Final(x) : row[Key[t]] = NoRow \/ row[Key[t]].status = "pending")
      ~> status[x] \notin Live

\* A transfer in another asset is listed while the address is watched, also one
\* whose transaction paid the payment as well.
StrangerIsListed ==
  \A t \in Strangers :
    at[t] > 0
      ~> (\/ status[To[t]] \notin Live
          \/ \E u \in listed : Key[u] = Key[t])
=============================================================================
