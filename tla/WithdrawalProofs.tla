-------------------------- MODULE WithdrawalProofs --------------------------
(* TLAPS proofs about Withdrawal, for any number of workers, operators and   *)
(* withdrawals, and any faults but a stalled job.                            *)
EXTENDS Withdrawal, Sums, TLAPS

-----------------------------------------------------------------------------
(* The inductive invariant.                                                  *)

Jobs   == [state : {"none", "wait", "active", "done", "dead"}, owner : Workers \cup {None},
           tries : Nat]
Places == {"idle", "mark", "lock", "locked", "persist", "send", "write", "failed", "watch"}
Busy(e) == pc[e] # "idle"

\* What the proof needs of the types.
Typed ==
  /\ prepares \in BOOLEAN
  /\ status \in [Withdrawals -> Statuses]
  /\ DOMAIN signed = Withdrawals /\ stamped \in [Withdrawals -> BOOLEAN]
  /\ job \in [Withdrawals -> Jobs]
  /\ pc \in [Workers -> Places] /\ DOMAIN on = Workers
  /\ DOMAIN held = Workers /\ DOMAIN bytes = Workers
  /\ rpc \in [Operators -> {"idle", "lock", "insert", "enqueue"}]
  /\ ask \in [Operators -> [amount : Nat, row : Withdrawals \cup {None}]]
  /\ DOMAIN wire = Slots

\* A request that is about to enqueue has a row of its own, which has no job yet.
RowIsNew ==
  /\ \A w \in Withdrawals : status[w] = "none" => job[w].state = "none"
  /\ \A o \in Operators : rpc[o] = "enqueue" =>
       /\ ask[o].row \in Withdrawals
       /\ status[ask[o].row] # "none" /\ job[ask[o].row].state = "none"
       /\ \A p \in Operators : rpc[p] = "enqueue" /\ ask[p].row = ask[o].row => p = o

\* A worker that is at a row owns its job, so no other worker is at it.
OneExecutor == \A e \in Workers : Busy(e) => on[e] \in Withdrawals /\ Owns(e, on[e])

\* Until it stores or stamps something, what the worker has read is the row.
ReadingIsFresh ==
  \A e \in Workers : pc[e] \in {"mark", "lock", "locked", "persist"} =>
    /\ held[e].signed = signed[on[e]] /\ held[e].stamped = stamped[on[e]]
    /\ pc[e] = "persist" => signed[on[e]] = None
    /\ pc[e] \in {"lock", "locked"} /\ ~prepares => ~stamped[on[e]]
    /\ pc[e] = "persist" => prepares

\* Where bytes are signed ahead, only the stored ones are sent.
StoredIsSent ==
  prepares =>
    /\ \A e \in Workers : pc[e] = "send" => bytes[e] = signed[on[e]]
    /\ \A s \in Slots : wire[s] # None => wire[s] \in Withdrawals /\ signed[wire[s]] = s

\* Where they are not, a row is stamped before it is sent, and sent by the worker
\* that stamped it.
StampedIsSent ==
  ~prepares =>
    /\ \A e \in Workers : pc[e] = "send" => \A s \in Slots : wire[s] # on[e]
    /\ \A e \in Workers : pc[e] = "send" => stamped[on[e]]
    /\ \A s \in Slots : wire[s] # None => wire[s] \in Withdrawals /\ stamped[wire[s]]

OneSlot == \A s, t \in Slots : wire[s] # None /\ wire[s] = wire[t] => s = t

WithdrawalInv ==
  Typed /\ RowIsNew /\ OneExecutor /\ ReadingIsFresh /\ StoredIsSent /\ StampedIsSent /\ OneSlot

-----------------------------------------------------------------------------

LEMMA InitWithdrawal == Init => WithdrawalInv
BY WithdrawalAssumption
   DEF Init, WithdrawalInv, Typed, Statuses, Jobs, NoJob, NoHeld, Places, RowIsNew, OneExecutor,
       ReadingIsFresh, StoredIsSent, StampedIsSent, OneSlot, Busy

\* A job whose state is written stays a job.
LEMMA StateWritten ==
  ASSUME Typed, NEW w \in Withdrawals, NEW l \in {"none", "wait", "active", "done", "dead"},
         NEW j, j = [job EXCEPT ![w].state = l]
  PROVE  /\ j \in [Withdrawals -> Jobs] /\ j[w].state = l
         /\ \A v \in Withdrawals \ {w} : j[v] = job[v]
<1>1. job[w] \in Jobs /\ job \in [Withdrawals -> Jobs]
  BY DEF Typed
<1>2. /\ [job[w] EXCEPT !.state = l] \in Jobs
      /\ [job[w] EXCEPT !.state = l].state = l
  BY <1>1 DEF Jobs
<1> QED  BY <1>1, <1>2

\* At most one slot is at most one transaction.
LEMMA SlotCount ==
  ASSUME OneSlot, NEW w \in Withdrawals  PROVE Cardinality(Landed(w)) <= 1
<1>1. CASE Landed(w) = {}
  BY <1>1, FS_EmptySet
<1>2. CASE Landed(w) # {}
  <2>1. PICK s \in Slots : wire[s] = w
    BY <1>2 DEF Landed
  <2>2. w # None
    BY WithdrawalAssumption
  <2>3. Landed(w) = {s}
    BY <2>1, <2>2 DEF OneSlot, Landed
  <2>4. Cardinality({s}) = 1
    BY FS_Singleton
  <2> QED  BY <2>3, <2>4
<1> QED  BY <1>1, <1>2

-----------------------------------------------------------------------------
(* The steps of the operators.                                               *)

\* What leaves the rows, the jobs, the workers and the wire alone.
LEMMA AskStep ==
  ASSUME WithdrawalInv, UNCHANGED <<prepares, rowVars, job, workVars, wire>>,
         rpc' \in [Operators -> {"idle", "lock", "insert", "enqueue"}],
         ask' \in [Operators -> [amount : Nat, row : Withdrawals \cup {None}]],
         \A o \in Operators : rpc'[o] = "enqueue" => rpc[o] = "enqueue" /\ ask'[o] = ask[o]
  PROVE  WithdrawalInv'
BY DEF WithdrawalInv, Typed, RowIsNew, OneExecutor, ReadingIsFresh, StoredIsSent, StampedIsSent,
       OneSlot, Busy, Owns, rowVars, workVars

\* A new row has no job, and no other request has it.
LEMMA InsertStep ==
  ASSUME WithdrawalInv, UNCHANGED prepares, NEW o \in Operators, Insert(o)
  PROVE  WithdrawalInv'
<1>1. PICK w \in Withdrawals :
        /\ status[w] = "none"
        /\ status' = [status EXCEPT ![w] = "pending"]
        /\ ask' = [ask EXCEPT ![o].row = w]
        /\ rpc' = [rpc EXCEPT ![o] = "enqueue"]
  BY DEF Insert
<1>2. UNCHANGED <<stamped, signed, job, pc, on, held, bytes, wire, prepares>>
  BY DEF Insert, workVars
<1>3. Typed'
  BY <1>1, <1>2 DEF WithdrawalInv, Typed, Statuses
<1>4. RowIsNew'
  BY <1>1, <1>2 DEF WithdrawalInv, Typed, RowIsNew
<1> QED
  BY <1>2, <1>3, <1>4
  DEF WithdrawalInv, OneExecutor, ReadingIsFresh, StoredIsSent, StampedIsSent, OneSlot, Busy, Owns

\* The job that is added is the row's first.
LEMMA EnqueueStep ==
  ASSUME WithdrawalInv, UNCHANGED prepares, NEW o \in Operators, Enqueue(o)
  PROVE  WithdrawalInv'
<1>1. UNCHANGED <<rowVars, workVars, wire, prepares>>
  BY DEF Enqueue
<1>2. rpc[o] = "enqueue" /\ Done(o)
  BY DEF Enqueue
<1>3. /\ rpc' \in [Operators -> {"idle", "lock", "insert", "enqueue"}]
      /\ ask' \in [Operators -> [amount : Nat, row : Withdrawals \cup {None}]]
      /\ \A p \in Operators : rpc'[p] = "enqueue" => p # o /\ rpc[p] = "enqueue" /\ ask'[p] = ask[p]
  BY <1>2 DEF Done, WithdrawalInv, Typed
<1>4. CASE UNCHANGED job
  BY <1>1, <1>3, <1>4, AskStep
<1>5. CASE job' = [job EXCEPT ![ask[o].row].state = "wait"]
  <2>1. /\ ask[o].row \in Withdrawals
        /\ status[ask[o].row] # "none" /\ job[ask[o].row].state = "none"
    BY <1>2 DEF WithdrawalInv, RowIsNew
  <2>2. Typed'
    <3>1. job' \in [Withdrawals -> Jobs]
      BY <1>5, <2>1, StateWritten DEF WithdrawalInv
    <3> QED  BY <1>1, <1>3, <3>1 DEF WithdrawalInv, Typed, rowVars, workVars
  <2>3. RowIsNew'
    BY <1>1, <1>2, <1>3, <1>5, <2>1 DEF WithdrawalInv, Typed, RowIsNew, rowVars
  <2>4. OneExecutor'
    BY <1>1, <1>5, <2>1 DEF WithdrawalInv, Typed, OneExecutor, Busy, Owns, workVars
  <2> QED
    BY <1>1, <2>2, <2>3, <2>4
    DEF WithdrawalInv, ReadingIsFresh, StoredIsSent, StampedIsSent, OneSlot, rowVars, workVars
<1> QED  BY <1>4, <1>5 DEF Enqueue

-----------------------------------------------------------------------------
(* The steps of the workers.                                                 *)

\* A worker that leaves its row.
LEMMA LeaveTypes ==
  ASSUME Typed, NEW e \in Workers, Leave(e)
  PROVE  /\ pc' \in [Workers -> Places] /\ pc'[e] = "idle"
         /\ DOMAIN on' = Workers /\ DOMAIN held' = Workers /\ DOMAIN bytes' = Workers
         /\ \A f \in Workers \ {e} :
              pc'[f] = pc[f] /\ on'[f] = on[f] /\ held'[f] = held[f] /\ bytes'[f] = bytes[f]
BY DEF Typed, Leave, Goto, Places

\* It leaves whatever has become of its job; a row that is there stays there.
LEMMA LeaveStep ==
  ASSUME WithdrawalInv, NEW e \in Workers, Leave(e), Busy(e),
         UNCHANGED <<prepares, signed, stamped, wire, rpc, ask>>,
         status' \in [Withdrawals -> Statuses],
         \A w \in Withdrawals : (status'[w] = "none") <=> (status[w] = "none"),
         job' \in [Withdrawals -> Jobs],
         \A w \in Withdrawals : job'[w] = job[w] \/ (w = on[e] /\ job'[w].state # "none")
  PROVE  WithdrawalInv'
<1> USE LeaveTypes DEF WithdrawalInv
<1>1. Typed'
  BY DEF Typed
<1>2. on[e] \in Withdrawals /\ Owns(e, on[e])
  BY DEF OneExecutor
<1>3. RowIsNew'
  BY <1>2 DEF RowIsNew, Owns
<1>4. OneExecutor'
  BY <1>2 DEF OneExecutor, Owns, Busy
<1>5. ReadingIsFresh'
  BY DEF ReadingIsFresh
<1>6. StoredIsSent' /\ StampedIsSent' /\ OneSlot'
  BY DEF StoredIsSent, StampedIsSent, OneSlot
<1> QED  BY <1>1, <1>3, <1>4, <1>5, <1>6

\* What BullMQ makes of a job that ends or throws.
LEMMA JobEnds ==
  ASSUME WithdrawalInv, NEW e \in Workers, Busy(e)
  PROVE  \A j \in {Completed(e), Threw(e)} :
           /\ j \in [Withdrawals -> Jobs]
           /\ \A w \in Withdrawals : j[w] = job[w] \/ (w = on[e] /\ j[w].state # "none")
<1>1. on[e] \in Withdrawals /\ Owns(e, on[e]) /\ job[on[e]] \in Jobs
  BY DEF WithdrawalInv, OneExecutor, Typed
<1> DEFINE w == on[e]
           Tries == job[w].tries + 1
           Again == [state |-> IF Tries < MaxAttempts THEN "wait" ELSE "dead",
                     owner |-> None, tries |-> Tries]
<1>2. Again \in Jobs /\ Again.state # "none"
  BY <1>1 DEF Jobs
<1>3. job \in [Withdrawals -> Jobs] /\ Typed
  BY DEF WithdrawalInv, Typed
<1>4. Completed(e) = [job EXCEPT ![w].state = "done", ![w].owner = None]
  BY <1>1 DEF Completed
<1>5. Threw(e) = [job EXCEPT ![w] = Again]
  BY <1>1 DEF Threw
<1> SUFFICES ASSUME NEW j, j \in {Completed(e), Threw(e)}
             PROVE  /\ j \in [Withdrawals -> Jobs]
                    /\ \A v \in Withdrawals : j[v] = job[v] \/ (v = w /\ j[v].state # "none")
  OBVIOUS
<1>6. w \in Withdrawals
  BY <1>1
<1> HIDE DEF w, Again
<1>7. CASE j = [job EXCEPT ![w] = Again]
  BY <1>2, <1>3, <1>6, <1>7
<1>8. CASE j = [job EXCEPT ![w].state = "done", ![w].owner = None]
  <2>1. /\ [job[w] EXCEPT !.state = "done", !.owner = None] \in Jobs
        /\ [job[w] EXCEPT !.state = "done", !.owner = None].state = "done"
    BY <1>3, <1>6 DEF Jobs
  <2> QED  BY <1>3, <1>6, <1>8, <2>1
<1> QED  BY <1>4, <1>5, <1>7, <1>8

\* A job that waits has no worker, so the row is the one it reads.
LEMMA StartStep ==
  ASSUME WithdrawalInv, UNCHANGED prepares, NEW e \in Workers, NEW w \in Withdrawals, Start(e, w)
  PROVE  WithdrawalInv'
<1>1. UNCHANGED <<prepares, status, amount, stamped, signed, rpc, ask, bytes, wire>>
  BY DEF Start, rowVars, askVars, workVars
<1>2. pc[e] = "idle" /\ job[w].state = "wait"
  BY DEF Start
<1>3. \A f \in Workers : Busy(f) => on[f] # w
  BY <1>2 DEF WithdrawalInv, OneExecutor, Owns
<1>4. CASE status[w] \in {"sent", "confirmed"}
  <2>1. job' = [job EXCEPT ![w].state = "done"] /\ UNCHANGED workVars
    BY <1>4 DEF Start
  <2>2. job' \in [Withdrawals -> Jobs]
    BY <2>1, StateWritten DEF WithdrawalInv
  <2>3. Typed'
    BY <1>1, <2>1, <2>2 DEF WithdrawalInv, Typed, workVars
  <2>4. RowIsNew' /\ OneExecutor'
    BY <1>1, <1>2, <1>3, <2>1 DEF WithdrawalInv, Typed, RowIsNew, OneExecutor, Busy, Owns, workVars
  <2> QED
    BY <1>1, <2>1, <2>3, <2>4
    DEF WithdrawalInv, ReadingIsFresh, StoredIsSent, StampedIsSent, OneSlot, workVars
<1>5. CASE status[w] \notin {"sent", "confirmed"}
  <2>1. /\ job' = [job EXCEPT ![w].state = "active", ![w].owner = e]
        /\ on' = [on EXCEPT ![e] = w]
        /\ held' = [held EXCEPT ![e] = [signed |-> signed[w], stamped |-> stamped[w]]]
        /\ pc' = [pc EXCEPT ![e] = "mark"]
    BY <1>5 DEF Start, Goto
  <2>2. job' \in [Withdrawals -> Jobs]
    <3>1. job \in [Withdrawals -> Jobs]
      BY DEF WithdrawalInv, Typed
    <3>2. [job[w] EXCEPT !.state = "active", !.owner = e] \in Jobs
      BY <3>1 DEF Jobs
    <3> QED  BY <2>1, <3>1, <3>2
  <2>3. Typed'
    BY <1>1, <2>1, <2>2 DEF WithdrawalInv, Typed, Places
  <2>4. RowIsNew'
    BY <1>1, <1>2, <2>1 DEF WithdrawalInv, Typed, RowIsNew
  <2>5. OneExecutor'
    BY <1>3, <2>1 DEF WithdrawalInv, Typed, OneExecutor, Busy, Owns, Jobs
  <2>6. ReadingIsFresh'
    BY <1>1, <2>1 DEF WithdrawalInv, Typed, ReadingIsFresh
  <2> QED
    BY <1>1, <1>2, <2>1, <2>3, <2>4, <2>5, <2>6
    DEF WithdrawalInv, Typed, StoredIsSent, StampedIsSent, OneSlot
<1> QED  BY <1>4, <1>5

\* A worker that goes on at its row and writes only that row, if anything.
LEMMA OnwardTypes ==
  ASSUME WithdrawalInv, NEW e \in Workers, Busy(e), UNCHANGED <<prepares, job, on, held, rpc, ask>>,
         NEW l \in Places \ {"idle"}, pc' = [pc EXCEPT ![e] = l],
         status' \in [Withdrawals -> Statuses],
         \A w \in Withdrawals : status'[w] = status[w] \/ (w = on[e] /\ status'[w] # "none"),
         DOMAIN signed' = Withdrawals, stamped' \in [Withdrawals -> BOOLEAN],
         DOMAIN bytes' = Workers, DOMAIN wire' = Slots
  PROVE  /\ Typed' /\ RowIsNew' /\ OneExecutor'
         /\ on[e] \in Withdrawals
         /\ \A f \in Workers \ {e} : Busy(f) => on[f] \in Withdrawals \ {on[e]}
<1> USE DEF WithdrawalInv
<1>1. Typed'
  BY DEF Typed
<1>2. on[e] \in Withdrawals /\ Owns(e, on[e])
  BY DEF OneExecutor
<1>3. RowIsNew'
  BY <1>2 DEF RowIsNew, Owns, Typed
<1>4. OneExecutor'
  BY DEF OneExecutor, Busy, Owns, Typed
<1> QED  BY <1>1, <1>2, <1>3, <1>4 DEF OneExecutor, Owns

\* A step of a worker that stores, stamps and sends nothing, and goes to a place
\* where nothing is known of it, or stays in front of the lock.
LEMMA QuietStep ==
  ASSUME WithdrawalInv, NEW e \in Workers, Busy(e), UNCHANGED <<prepares, job, on, held, rpc, ask>>,
         NEW l \in Places \ {"idle"}, pc' = [pc EXCEPT ![e] = l],
         status' \in [Withdrawals -> Statuses],
         \A w \in Withdrawals : status'[w] = status[w] \/ (w = on[e] /\ status'[w] # "none"),
         UNCHANGED <<signed, stamped, bytes, wire>>,
         \/ l \in {"write", "failed", "watch"}
         \/ l = "lock" /\ pc[e] = "mark" /\ (prepares \/ ~stamped[on[e]])
         \/ l = "locked" /\ pc[e] = "lock"
  PROVE  WithdrawalInv'
<1>1. Typed' /\ RowIsNew' /\ OneExecutor'
  BY OnwardTypes DEF WithdrawalInv, Typed
<1>2. ReadingIsFresh'
  BY DEF WithdrawalInv, Typed, ReadingIsFresh
<1>3. StoredIsSent' /\ StampedIsSent' /\ OneSlot'
  BY DEF WithdrawalInv, Typed, StoredIsSent, StampedIsSent, OneSlot
<1> QED  BY <1>1, <1>2, <1>3 DEF WithdrawalInv

LEMMA MarkProcessingStep ==
  ASSUME WithdrawalInv, UNCHANGED prepares, NEW e \in Workers, MarkProcessing(e)
  PROVE  WithdrawalInv'
<1>1. Busy(e) /\ pc[e] = "mark" /\ on[e] \in Withdrawals
  BY DEF MarkProcessing, WithdrawalInv, OneExecutor, Busy
<1>2. /\ status' \in [Withdrawals -> Statuses]
      /\ \A w \in Withdrawals : status'[w] = status[w] \/ (w = on[e] /\ status'[w] # "none")
  BY <1>1 DEF MarkProcessing, WithdrawalInv, Typed, Statuses
<1>3. PICK l \in {"failed", "lock"} : /\ pc' = [pc EXCEPT ![e] = l]
                                      /\ l = "lock" => prepares \/ ~stamped[on[e]]
  BY <1>1 DEF MarkProcessing, Goto, WithdrawalInv, Typed, ReadingIsFresh
<1>4. UNCHANGED <<prepares, job, on, held, rpc, ask, signed, stamped, bytes, wire>>
  BY DEF MarkProcessing, askVars
<1>5. l \in Places \ {"idle"}
  BY DEF Places
<1>6. CASE l = "failed"
  BY <1>1, <1>2, <1>3, <1>4, <1>5, <1>6, QuietStep
<1>7. CASE l = "lock"
  BY <1>1, <1>2, <1>3, <1>4, <1>5, <1>7, QuietStep
<1> QED  BY <1>6, <1>7

LEMMA AcquireLockStep ==
  ASSUME WithdrawalInv, UNCHANGED prepares, NEW e \in Workers, AcquireLock(e)
  PROVE  WithdrawalInv'
<1>1. /\ Busy(e) /\ pc[e] = "lock" /\ pc' = [pc EXCEPT ![e] = "locked"]
      /\ UNCHANGED <<prepares, status, job, on, held, rpc, ask, signed, stamped, bytes, wire>>
  BY DEF AcquireLock, Goto, Busy, askVars, rowVars
<1> QED  BY <1>1, QuietStep DEF Places, WithdrawalInv, Typed

\* The stored bytes are those of the row; new ones are for a row without.
LEMMA PrepareStep ==
  ASSUME WithdrawalInv, UNCHANGED prepares, NEW e \in Workers, Prepare(e)
  PROVE  WithdrawalInv'
<1>1. /\ Busy(e) /\ pc[e] = "locked" /\ prepares
      /\ held[e].signed = signed[on[e]]
  BY DEF Prepare, Busy, WithdrawalInv, ReadingIsFresh
<1>2. UNCHANGED <<prepares, status, job, on, held, rpc, ask, signed, stamped, wire>>
  BY DEF Prepare, askVars, rowVars
<1>3. \E b : /\ bytes' = [bytes EXCEPT ![e] = b]
             /\ \/ b = signed[on[e]] /\ pc' = [pc EXCEPT ![e] = "send"]
                \/ signed[on[e]] = None /\ pc' = [pc EXCEPT ![e] = "persist"]
  BY <1>1 DEF Prepare, Goto
<1>4. DOMAIN bytes' = Workers
  BY <1>3 DEF WithdrawalInv, Typed
<1>5. Typed' /\ RowIsNew' /\ OneExecutor'
  BY <1>1, <1>2, <1>3, <1>4, OnwardTypes DEF WithdrawalInv, Typed, Places
<1>6. ReadingIsFresh'
  BY <1>1, <1>2, <1>3 DEF WithdrawalInv, Typed, ReadingIsFresh
<1>7. StoredIsSent' /\ StampedIsSent' /\ OneSlot'
  BY <1>1, <1>2, <1>3 DEF WithdrawalInv, Typed, StoredIsSent, StampedIsSent, OneSlot
<1> QED  BY <1>5, <1>6, <1>7 DEF WithdrawalInv

LEMMA PrepareFailsStep ==
  ASSUME WithdrawalInv, UNCHANGED prepares, NEW e \in Workers, PrepareFails(e)
  PROVE  WithdrawalInv'
<1>1. /\ Busy(e) /\ pc' = [pc EXCEPT ![e] = "failed"]
      /\ UNCHANGED <<prepares, status, job, on, held, rpc, ask, signed, stamped, bytes, wire>>
  BY DEF PrepareFails, Goto, Busy, askVars, rowVars
<1> QED  BY <1>1, QuietStep DEF Places, WithdrawalInv, Typed

\* A row that has neither bytes nor stamp, and of which nothing was sent, gets what
\* its chain needs before the send, whether or not its worker learns of it.
LEMMA StoreStep ==
  ASSUME WithdrawalInv, NEW e \in Workers, Busy(e), NEW l \in {"send", "failed"},
         UNCHANGED <<prepares, status, job, on, held, rpc, ask, wire>>,
         pc' = [pc EXCEPT ![e] = l], stamped' = [stamped EXCEPT ![on[e]] = TRUE],
         DOMAIN bytes' = Workers, \A f \in Workers \ {e} : bytes'[f] = bytes[f],
         prepares => /\ signed[on[e]] = None /\ bytes' = bytes
                     /\ signed' = [signed EXCEPT ![on[e]] = bytes[e]],
         ~prepares => ~stamped[on[e]] /\ signed' = signed
  PROVE  WithdrawalInv'
<1>1. DOMAIN signed' = Withdrawals /\ stamped' \in [Withdrawals -> BOOLEAN]
  BY DEF WithdrawalInv, Typed
<1>2. /\ Typed' /\ RowIsNew' /\ OneExecutor'
      /\ on[e] \in Withdrawals
      /\ \A f \in Workers \ {e} : Busy(f) => on[f] \in Withdrawals \ {on[e]}
  BY <1>1, OnwardTypes DEF WithdrawalInv, Typed, Places
<1>3. ReadingIsFresh'
  <2>1. \A f \in Workers : pc'[f] \in {"mark", "lock", "locked", "persist"} =>
          f # e /\ pc'[f] = pc[f] /\ Busy(f)
    BY DEF WithdrawalInv, Typed, Busy
  <2>2. \A w \in Withdrawals \ {on[e]} : signed'[w] = signed[w] /\ stamped'[w] = stamped[w]
    BY DEF WithdrawalInv, Typed
  <2>3. UNCHANGED <<prepares, on, held>>
    OBVIOUS
  <2>4. \A f \in Workers \ {e} : pc[f] \in {"mark", "lock", "locked", "persist"} =>
          signed'[on[f]] = signed[on[f]] /\ stamped'[on[f]] = stamped[on[f]]
    <3> SUFFICES ASSUME NEW f \in Workers \ {e}, pc[f] \in {"mark", "lock", "locked", "persist"}
                 PROVE  signed'[on[f]] = signed[on[f]] /\ stamped'[on[f]] = stamped[on[f]]
      OBVIOUS
    <3>1. on[f] \in Withdrawals \ {on[e]}
      BY <1>2 DEF Busy
    <3> QED  BY <2>2, <3>1
  <2>5. ASSUME NEW f \in Workers, pc'[f] \in {"mark", "lock", "locked", "persist"}
        PROVE  /\ held'[f].signed = signed'[on'[f]] /\ held'[f].stamped = stamped'[on'[f]]
               /\ pc'[f] = "persist" => signed'[on'[f]] = None
               /\ pc'[f] \in {"lock", "locked"} /\ ~prepares' => ~stamped'[on'[f]]
               /\ pc'[f] = "persist" => prepares'
    <3>1. f \in Workers \ {e} /\ pc'[f] = pc[f] /\ pc[f] \in {"mark", "lock", "locked", "persist"}
      BY <2>1, <2>5
    <3>2. /\ held[f].signed = signed[on[f]] /\ held[f].stamped = stamped[on[f]]
          /\ pc[f] = "persist" => signed[on[f]] = None
          /\ pc[f] \in {"lock", "locked"} /\ ~prepares => ~stamped[on[f]]
          /\ pc[f] = "persist" => prepares
      BY <3>1 DEF WithdrawalInv, ReadingIsFresh
    <3>3. signed'[on[f]] = signed[on[f]] /\ stamped'[on[f]] = stamped[on[f]]
      BY <2>4, <3>1
    <3>4. held'[f] = held[f] /\ on'[f] = on[f] /\ prepares' = prepares
      BY <2>3
    <3>5. held'[f].signed = signed'[on'[f]] /\ held'[f].stamped = stamped'[on'[f]]
      BY <3>2, <3>3, <3>4, Zenon
    <3>6. signed'[on'[f]] = signed[on[f]] /\ (stamped'[on'[f]] <=> stamped[on[f]])
      BY <3>3, <3>4, Zenon
    <3>7. /\ pc'[f] = "persist" => pc[f] = "persist" /\ prepares /\ prepares'
          /\ pc'[f] \in {"lock", "locked"} /\ ~prepares' =>
               pc[f] \in {"lock", "locked"} /\ ~prepares /\ ~stamped[on[f]]
      <4>1. prepares' <=> prepares
        BY <3>4
      <4> QED  BY <3>1, <3>2, <4>1, Zenon
    <3>8. pc'[f] = "persist" => signed'[on'[f]] = None
      BY <3>2, <3>6, <3>7, Zenon
    <3>9. pc'[f] \in {"lock", "locked"} /\ ~prepares' => ~stamped'[on'[f]]
      BY <3>6, <3>7, Zenon
    <3> QED  BY <3>5, <3>7, <3>8, <3>9
  <2> QED  BY <2>5 DEF ReadingIsFresh
<1>4. \A s \in Slots : wire[s] # on[e]
  BY <1>2, WithdrawalAssumption DEF WithdrawalInv, StoredIsSent, StampedIsSent
<1>5. \A f \in Workers : pc'[f] = "send" => f = e \/ (pc[f] = "send" /\ Busy(f))
  BY DEF WithdrawalInv, Typed, Busy
<1>6. StoredIsSent'
  <2> SUFFICES ASSUME prepares  PROVE StoredIsSent'
    BY DEF StoredIsSent
  <2>1. signed'[on[e]] = bytes[e]
    BY <1>2 DEF WithdrawalInv, Typed
  <2>2. \A w \in Withdrawals \ {on[e]} : signed'[w] = signed[w]
    BY DEF WithdrawalInv, Typed
  <2>3. \A f \in Workers : pc'[f] = "send" => bytes'[f] = signed'[on'[f]]
    BY <1>2, <1>5, <2>1, <2>2 DEF WithdrawalInv, StoredIsSent
  <2>4. \A s \in Slots : wire[s] # None => wire[s] \in Withdrawals /\ signed'[wire[s]] = s
    BY <1>4, <2>2 DEF WithdrawalInv, StoredIsSent
  <2> QED  BY <2>3, <2>4 DEF StoredIsSent
<1>7. StampedIsSent' /\ OneSlot'
  <2>1. stamped'[on[e]] /\ \A w \in Withdrawals : stamped[w] => stamped'[w]
    BY <1>2 DEF WithdrawalInv, Typed
  <2> QED  BY <1>2, <1>4, <1>5, <2>1 DEF WithdrawalInv, StampedIsSent, OneSlot
<1> QED  BY <1>2, <1>3, <1>6, <1>7 DEF WithdrawalInv

\* Bytes are stored in a row that has none.
LEMMA PersistStep ==
  ASSUME WithdrawalInv, UNCHANGED prepares, NEW e \in Workers, Persist(e) \/ PersistFails(e)
  PROVE  WithdrawalInv'
<1>1. Busy(e) /\ prepares /\ signed[on[e]] = None
  BY DEF Persist, PersistFails, Busy, WithdrawalInv, ReadingIsFresh
<1>2. UNCHANGED <<prepares, status, job, on, held, rpc, ask, bytes, wire>>
  BY DEF Persist, PersistFails, askVars
<1>3. CASE /\ signed' = [signed EXCEPT ![on[e]] = bytes[e]]
           /\ stamped' = [stamped EXCEPT ![on[e]] = TRUE]
  <2>1. PICK l \in {"send", "failed"} : pc' = [pc EXCEPT ![e] = l]
    BY DEF Persist, PersistFails, Goto
  <2>2. DOMAIN bytes' = Workers /\ \A f \in Workers \ {e} : bytes'[f] = bytes[f]
    BY <1>2 DEF WithdrawalInv, Typed
  <2> QED  BY <1>1, <1>2, <1>3, <2>1, <2>2, StoreStep
<1>4. CASE PersistFails(e) /\ UNCHANGED <<signed, stamped>>
  <2>1. pc' = [pc EXCEPT ![e] = "failed"]
    BY <1>4 DEF PersistFails, Goto
  <2> QED  BY <1>1, <1>2, <1>4, <2>1, QuietStep DEF Places, WithdrawalInv, Typed
<1> QED  BY <1>3, <1>4 DEF Persist, PersistFails

\* A row is stamped that was not.
LEMMA MarkAttemptedStep ==
  ASSUME WithdrawalInv, UNCHANGED prepares, NEW e \in Workers,
         MarkAttempted(e) \/ MarkAttemptedFails(e)
  PROVE  WithdrawalInv'
<1>1. Busy(e) /\ ~prepares /\ ~stamped[on[e]]
  BY DEF MarkAttempted, MarkAttemptedFails, Busy, WithdrawalInv, ReadingIsFresh
<1>2. UNCHANGED <<prepares, status, job, on, held, rpc, ask, signed, wire>>
  BY DEF MarkAttempted, MarkAttemptedFails, askVars
<1>3. CASE stamped' = [stamped EXCEPT ![on[e]] = TRUE]
  <2>1. PICK l \in {"send", "failed"} : pc' = [pc EXCEPT ![e] = l]
    BY DEF MarkAttempted, MarkAttemptedFails, Goto
  <2>2. DOMAIN bytes' = Workers /\ \A f \in Workers \ {e} : bytes'[f] = bytes[f]
    BY DEF MarkAttempted, MarkAttemptedFails, WithdrawalInv, Typed
  <2> QED  BY <1>1, <1>2, <1>3, <2>1, <2>2, StoreStep
<1>4. CASE MarkAttemptedFails(e) /\ UNCHANGED stamped
  <2>1. pc' = [pc EXCEPT ![e] = "failed"] /\ UNCHANGED bytes
    BY <1>4 DEF MarkAttemptedFails, Goto
  <2> QED  BY <1>1, <1>2, <1>4, <2>1, QuietStep DEF Places, WithdrawalInv, Typed
<1> QED  BY <1>3, <1>4 DEF MarkAttempted, MarkAttemptedFails

\* The node takes the slot the row has stored, or the first one the row has.
LEMMA BroadcastStep ==
  ASSUME WithdrawalInv, UNCHANGED prepares, NEW e \in Workers, Broadcast(e)
  PROVE  WithdrawalInv'
<1>1. pc[e] = "send" /\ Busy(e)
  BY DEF Broadcast, Busy
<1>2. UNCHANGED <<prepares, status, job, on, held, rpc, ask, signed, stamped, bytes>>
  BY DEF Broadcast, askVars, rowVars
<1>3. PICK l \in {"write", "failed"} : pc' = [pc EXCEPT ![e] = l]
  BY DEF Broadcast, Goto
<1>4. CASE UNCHANGED wire
  BY <1>1, <1>2, <1>3, <1>4, QuietStep DEF WithdrawalInv, Typed, Places
<1>5. CASE wire' = [wire EXCEPT ![bytes[e]] = IF @ = None THEN on[e] ELSE @]
  <2>1. DOMAIN wire' = Slots
    BY <1>5 DEF WithdrawalInv, Typed
  <2>2. /\ Typed' /\ RowIsNew' /\ OneExecutor'
        /\ on[e] \in Withdrawals
        /\ \A f \in Workers \ {e} : Busy(f) => on[f] \in Withdrawals \ {on[e]}
    BY <1>1, <1>2, <1>3, <2>1, OnwardTypes DEF WithdrawalInv, Typed, Places
  <2>3. ReadingIsFresh'
    BY <1>2, <1>3 DEF WithdrawalInv, Typed, ReadingIsFresh
  <2>4. \A s \in Slots : wire'[s] = wire[s] \/ (s = bytes[e] /\ wire'[s] = on[e])
    BY <1>5 DEF WithdrawalInv, Typed
  <2>5. StoredIsSent' /\ StampedIsSent'
    BY <1>1, <1>2, <1>3, <2>2, <2>4
    DEF WithdrawalInv, Typed, StoredIsSent, StampedIsSent, Busy
  <2>6. \A s \in Slots : wire[s] = on[e] => s = bytes[e]
    BY <1>1, <2>2, WithdrawalAssumption DEF WithdrawalInv, Typed, StoredIsSent, StampedIsSent
  <2>7. OneSlot'
    BY <2>4, <2>6 DEF WithdrawalInv, OneSlot
  <2> QED  BY <2>2, <2>3, <2>5, <2>7 DEF WithdrawalInv
<1> QED  BY <1>4, <1>5 DEF Broadcast

\* The end of a job's execution, well or badly, or of its worker.
LEMMA EndStep ==
  ASSUME WithdrawalInv, UNCHANGED prepares, NEW e \in Workers,
         MarkFailed(e) \/ MarkFailedFails(e) \/ WriteSent(e) \/ Watch(e) \/ Crash(e)
  PROVE  WithdrawalInv'
<1>1. Busy(e) /\ on[e] \in Withdrawals
  BY DEF MarkFailed, MarkFailedFails, WriteSent, Watch, Crash, Busy, WithdrawalInv, OneExecutor
<1>2. UNCHANGED <<prepares, signed, stamped, wire, rpc, ask>>
  BY DEF MarkFailed, MarkFailedFails, WriteSent, Watch, Crash, rowVars, askVars
<1>3. \/ UNCHANGED status
      \/ \E s \in {"failed", "sent", "confirmed"} : status' = [status EXCEPT ![on[e]] = s]
  BY DEF MarkFailed, MarkFailedFails, WriteSent, Watch, Crash, rowVars
<1>4. status[on[e]] # "none"
  BY <1>1 DEF WithdrawalInv, RowIsNew, OneExecutor, Owns
<1>5. /\ status' \in [Withdrawals -> Statuses]
      /\ \A w \in Withdrawals : (status'[w] = "none") <=> (status[w] = "none")
      /\ \A w \in Withdrawals : status'[w] = status[w] \/ (w = on[e] /\ status'[w] # "none")
  BY <1>1, <1>3, <1>4 DEF WithdrawalInv, Typed, Statuses
<1>6. CASE Leave(e)
  <2>1. job' = job \/ job' \in {Completed(e), Threw(e)}
    BY <1>6 DEF MarkFailed, MarkFailedFails, WriteSent, Watch, Crash
  <2>2. /\ job' \in [Withdrawals -> Jobs]
        /\ \A w \in Withdrawals : job'[w] = job[w] \/ (w = on[e] /\ job'[w].state # "none")
    BY <1>1, <2>1, JobEnds DEF WithdrawalInv, Typed
  <2> QED  BY <1>1, <1>2, <1>5, <1>6, <2>2, LeaveStep
<1>7. CASE pc' = [pc EXCEPT ![e] = "watch"] /\ UNCHANGED <<job, on, held, bytes>>
  BY <1>1, <1>2, <1>5, <1>7, QuietStep DEF Places
<1> QED  BY <1>6, <1>7 DEF MarkFailed, MarkFailedFails, WriteSent, Watch, Crash, Goto

\* Without stalls, a job that is handed out again has lost its worker.
LEMMA RedeliverStep ==
  ASSUME WithdrawalInv, "stall" \notin Faults, UNCHANGED prepares,
         NEW w \in Withdrawals, Redeliver(w)
  PROVE  WithdrawalInv'
<1>1. /\ job[w].state = "active" /\ on[job[w].owner] # w
      /\ job' = [job EXCEPT ![w].state = "wait", ![w].owner = None]
      /\ UNCHANGED <<prepares, rowVars, workVars, rpc, ask, wire>>
  BY DEF Redeliver, Fault, Orphaned, askVars
<1>2. \A e \in Workers : Busy(e) => on[e] # w
  BY <1>1 DEF WithdrawalInv, OneExecutor, Owns
<1>3. job' \in [Withdrawals -> Jobs] /\ job'[w].state = "wait"
  <2>1. job \in [Withdrawals -> Jobs]
    BY DEF WithdrawalInv, Typed
  <2>2. /\ [job[w] EXCEPT !.state = "wait", !.owner = None] \in Jobs
        /\ [job[w] EXCEPT !.state = "wait", !.owner = None].state = "wait"
    BY <2>1 DEF Jobs
  <2> QED  BY <1>1, <2>1, <2>2
<1>4. \A v \in Withdrawals \ {w} : job'[v] = job[v]
  BY <1>1 DEF WithdrawalInv, Typed
<1>5. Typed'
  BY <1>1, <1>3 DEF WithdrawalInv, Typed, rowVars, workVars
<1>6. RowIsNew'
  <2>1. UNCHANGED <<status, rpc, ask>> /\ job[w].state = "active"
    BY <1>1 DEF rowVars
  <2> QED  BY <1>3, <1>4, <2>1 DEF WithdrawalInv, RowIsNew
<1>7. OneExecutor'
  <2>1. UNCHANGED <<pc, on>>
    BY <1>1 DEF workVars
  <2> QED  BY <1>2, <1>4, <2>1 DEF WithdrawalInv, OneExecutor, Busy, Owns
<1> QED
  BY <1>1, <1>5, <1>6, <1>7
  DEF WithdrawalInv, ReadingIsFresh, StoredIsSent, StampedIsSent, OneSlot, rowVars, workVars

-----------------------------------------------------------------------------

\* Every step keeps the invariant, when no job stalls.
LEMMA NextWithdrawal ==
  ASSUME "stall" \notin Faults  PROVE WithdrawalInv /\ [Next]_vars => WithdrawalInv'
<1> SUFFICES ASSUME WithdrawalInv, [Next]_vars  PROVE WithdrawalInv'
  OBVIOUS
<1>1. CASE UNCHANGED vars
  BY <1>1, AskStep DEF vars, WithdrawalInv, Typed, askVars
<1>2. CASE Next
  <2>1. UNCHANGED prepares
    BY <1>2 DEF Next
  <2>2. CASE \E x \in Payments : Collect(x) \/ Owe(x)
    <3>1. UNCHANGED <<rowVars, job, workVars, rpc, ask, wire>>
      BY <2>2 DEF Collect, Owe, askVars
    <3> QED  BY <2>1, <3>1, AskStep DEF WithdrawalInv, Typed
  <2>3. CASE \E o \in Operators : Insert(o) \/ Enqueue(o)
    BY <2>1, <2>3, InsertStep, EnqueueStep
  <2>4. CASE \E o \in Operators : Ask(o) \/ Check(o) \/ Rollback(o)
    <3>1. PICK o \in Operators : Ask(o) \/ Check(o) \/ Rollback(o)
      BY <2>4
    <3>2. UNCHANGED <<rowVars, job, workVars, wire>>
      BY <3>1 DEF Ask, Check, Rollback
    <3>3. \/ ask' = ask
          \/ \E a \in Nat : ask' = [ask EXCEPT ![o].amount = a]
          \/ ask' = [ask EXCEPT ![o] = [amount |-> 0, row |-> None]]
      BY <3>1, WithdrawalAssumption DEF Ask, Check, Rollback, Done
    <3>4. \E l \in {"idle", "lock", "insert"} : rpc' = [rpc EXCEPT ![o] = l]
      BY <3>1 DEF Ask, Check, Rollback, Done
    <3>5. ask' \in [Operators -> [amount : Nat, row : Withdrawals \cup {None}]]
      BY <3>3 DEF WithdrawalInv, Typed
    <3>6. rpc' \in [Operators -> {"idle", "lock", "insert", "enqueue"}]
      BY <3>4 DEF WithdrawalInv, Typed
    <3>7. \A p \in Operators : rpc'[p] = "enqueue" => rpc[p] = "enqueue" /\ ask'[p] = ask[p]
      BY <3>3, <3>4 DEF WithdrawalInv, Typed
    <3> QED  BY <2>1, <3>2, <3>5, <3>6, <3>7, AskStep
  <2>5. CASE \E e \in Workers, w \in Withdrawals : Start(e, w)
    BY <2>1, <2>5, StartStep
  <2>6. CASE \E e \in Workers : \/ MarkProcessing(e) \/ AcquireLock(e) \/ Prepare(e)
                               \/ PrepareFails(e) \/ Persist(e) \/ PersistFails(e)
    BY <2>1, <2>6, MarkProcessingStep, AcquireLockStep, PrepareStep, PrepareFailsStep, PersistStep
  <2>7. CASE \E e \in Workers : MarkAttempted(e) \/ MarkAttemptedFails(e) \/ Broadcast(e)
    BY <2>1, <2>7, MarkAttemptedStep, BroadcastStep
  <2>8. CASE \E e \in Workers : \/ MarkFailed(e) \/ MarkFailedFails(e)
                               \/ WriteSent(e) \/ Watch(e) \/ Crash(e)
    BY <2>1, <2>8, EndStep
  <2>9. CASE \E w \in Withdrawals : Redeliver(w)
    BY <2>1, <2>9, RedeliverStep
  <2> QED
    BY <1>2, <2>2, <2>3, <2>4, <2>5, <2>6, <2>7, <2>8, <2>9 DEF Next, Request, Execute
<1> QED  BY <1>1, <1>2

\* While no job is handed out under a live worker, an admin withdrawal is sent at
\* most once, for any number of crashes, lost answers, failed writes and retries.
THEOREM SentOnceWithoutStalls ==
  ASSUME "stall" \notin Faults  PROVE Spec => []SentAtMostOnce
<1>1. WithdrawalInv => SentAtMostOnce
  BY SlotCount DEF WithdrawalInv, SentAtMostOnce
<1>2. Init => WithdrawalInv
  BY InitWithdrawal
<1>3. WithdrawalInv /\ [Next]_vars => WithdrawalInv'
  BY NextWithdrawal
<1> QED  BY <1>1, <1>2, <1>3, PTL DEF Spec

-----------------------------------------------------------------------------
(* What the operators hold reserved.                                         *)

\* The rows that reserve and whose job has not failed yet.
Untried == {w \in Withdrawals : status[w] \in Reserving /\ job[w].tries = 0}

MoneyTyped == amount \in [Withdrawals -> Nat] /\ swept \subseteq Payments /\ owed \subseteq Payments

\* A row gives its commission back only as its job fails, and then has been tried.
FailedWasTried == \A w \in Withdrawals : status[w] = "failed" => job[w].tries > 0

\* What is reserved fits in what was collected, and so does a request that has
\* passed the guard: it alone holds the lock.
Fits ==
  /\ Sum(amount, Untried) <= Collected
  /\ \A o \in Operators : rpc[o] = "insert" =>
       advisory = o /\ ask[o].amount + Sum(amount, Untried) <= Collected

MoneyInv == MoneyTyped /\ FailedWasTried /\ Fits

-----------------------------------------------------------------------------

LEMMA SumIsSumOf == \A f, S : Sum(f, S) = SumOf(f, S)
BY DEF Sum, SumOf

\* The sums are natural numbers.
LEMMA SumsAreNat ==
  ASSUME MoneyTyped
  PROVE  /\ Collected \in Nat /\ ClientOwed \in Nat /\ Withdrawn \in Nat
         /\ Sum(amount, Untried) \in Nat /\ Sum(amount, Untried) <= Withdrawn
<1> DEFINE Reserved == {w \in Withdrawals : status[w] \in Reserving}
<1>1. \A x \in Payments : Credit[x] \in Nat /\ Net[x] \in Nat
  BY WithdrawalAssumption DEF Credit
<1>2. IsFiniteSet(swept) /\ IsFiniteSet(owed) /\ IsFiniteSet(Reserved) /\ IsFiniteSet(Untried)
  BY WithdrawalAssumption, FS_Subset DEF MoneyTyped, Untried
<1>3. Untried \in SUBSET Reserved /\ \A w \in Reserved : amount[w] \in Nat
  BY DEF MoneyTyped, Untried
<1>4. SumOf(Credit, swept) \in Nat /\ SumOf(Net, owed) \in Nat
  BY <1>1, <1>2, SumType DEF MoneyTyped
<1>5. SumOf(amount, Reserved) \in Nat /\ SumOf(amount, Untried) \in Nat
  BY <1>2, <1>3, SumType
<1>6. SumOf(amount, Untried) <= SumOf(amount, Reserved)
  BY <1>2, <1>3, SumSubset
<1> QED  BY <1>4, <1>5, <1>6, SumIsSumOf DEF Collected, ClientOwed, Withdrawn

LEMMA InitMoney == Init => MoneyInv
<1> SUFFICES ASSUME Init  PROVE MoneyInv
  OBVIOUS
<1>1. MoneyTyped /\ FailedWasTried
  BY DEF Init, MoneyTyped, FailedWasTried
<1>2. Untried = {} /\ swept = {}
  BY DEF Init, Untried, Reserving
<1>3. Sum(amount, Untried) = 0 /\ Collected = 0
  BY <1>2, SumEmpty, SumIsSumOf DEF Collected
<1>4. 0 <= 0 /\ \A o \in Operators : rpc[o] # "insert"
  BY DEF Init
<1> QED  BY <1>1, <1>3, <1>4 DEF Fits, MoneyInv

\* A step that reserves nothing, takes nothing back from what was collected, and
\* lets no request through.
LEMMA FitsStep ==
  ASSUME MoneyInv, UNCHANGED amount, Untried' \subseteq Untried, swept \subseteq swept',
         MoneyTyped',
         \A o \in Operators : rpc'[o] = "insert" =>
           rpc[o] = "insert" /\ advisory' = o /\ ask'[o].amount = ask[o].amount,
         ask \in [Operators -> [amount : Nat, row : Withdrawals \cup {None}]]
  PROVE  Fits'
<1>1. Collected \in Nat /\ Sum(amount, Untried) \in Nat
  BY SumsAreNat DEF MoneyInv
<1>2. Collected' \in Nat /\ Collected <= Collected'
  <2>1. \A x \in Payments : Credit[x] \in Nat
    BY WithdrawalAssumption DEF Credit
  <2>2. IsFiniteSet(swept') /\ swept \in SUBSET swept' /\ IsFiniteSet(swept)
    BY WithdrawalAssumption, FS_Subset DEF MoneyTyped
  <2>3. SumOf(Credit, swept) <= SumOf(Credit, swept') /\ SumOf(Credit, swept') \in Nat
    BY <2>1, <2>2, SumSubset, SumType DEF MoneyTyped
  <2>4. Collected = SumOf(Credit, swept) /\ Collected' = SumOf(Credit, swept')
    BY SumIsSumOf DEF Collected, Credit
  <2> QED  BY <2>3, <2>4
<1>3. Sum(amount, Untried)' \in Nat /\ Sum(amount, Untried)' <= Sum(amount, Untried)
  <2>1. IsFiniteSet(Untried) /\ Untried' \in SUBSET Untried /\ IsFiniteSet(Untried')
    BY WithdrawalAssumption, FS_Subset DEF Untried
  <2>2. \A w \in Untried : amount[w] \in Nat
    BY DEF MoneyInv, MoneyTyped, Untried
  <2>3. SumOf(amount, Untried') <= SumOf(amount, Untried) /\ SumOf(amount, Untried') \in Nat
    BY <2>1, <2>2, SumSubset, SumType
  <2>4. Sum(amount, Untried)' = SumOf(amount', Untried')
    BY DEF Sum, SumOf, MapThenSumSet, MapThenFoldSet
  <2> QED  BY <2>3, <2>4, SumIsSumOf
<1>4. \A o \in Operators : ask[o].amount \in Nat
  OBVIOUS
<1> QED  BY <1>1, <1>2, <1>3, <1>4 DEF MoneyInv, Fits


\* A step of the ledger: more is collected, or a debt to a merchant changes.
LEMMA LedgerMoney ==
  ASSUME MoneyInv, WithdrawalInv, NEW x \in Payments, Collect(x) \/ Owe(x)
  PROVE  MoneyInv'
<1>1. UNCHANGED <<amount, status, job, rpc, ask, advisory>> /\ swept \subseteq swept'
  BY DEF Collect, Owe, rowVars, askVars
<1>2. MoneyTyped' /\ FailedWasTried' /\ Untried' \subseteq Untried
  BY <1>1 DEF MoneyInv, MoneyTyped, FailedWasTried, Untried, Collect, Owe
<1>3. Fits'
  BY <1>1, <1>2, FitsStep DEF MoneyInv, Fits, WithdrawalInv, Typed
<1> QED  BY <1>2, <1>3 DEF MoneyInv

\* A step of an operator that makes no row.
LEMMA AskMoney ==
  ASSUME MoneyInv, WithdrawalInv, NEW o \in Operators, Ask(o) \/ Rollback(o) \/ Enqueue(o)
  PROVE  MoneyInv'
<1>1. UNCHANGED <<amount, status, swept, owed>>
  BY DEF Ask, Rollback, Enqueue, rowVars, ledgerVars
<1>2. job \in [Withdrawals -> Jobs] /\ rpc \in [Operators -> {"idle", "lock", "insert", "enqueue"}]
      /\ ask \in [Operators -> [amount : Nat, row : Withdrawals \cup {None}]]
  BY DEF WithdrawalInv, Typed
<1>3. \A w \in Withdrawals : job'[w].tries = job[w].tries
  <2>1. CASE UNCHANGED job
    BY <2>1
  <2>2. CASE Enqueue(o) /\ job' = [job EXCEPT ![ask[o].row].state = "wait"]
    <3>1. ask[o].row \in Withdrawals
      BY <2>2 DEF Enqueue, WithdrawalInv, RowIsNew
    <3> QED  BY <1>2, <2>2, <3>1 DEF Jobs
  <2> QED  BY <2>1, <2>2 DEF Ask, Rollback, Enqueue
<1>4. MoneyTyped' /\ FailedWasTried' /\ Untried' \subseteq Untried
  BY <1>1, <1>3 DEF MoneyInv, MoneyTyped, FailedWasTried, Untried
<1>5. \A p \in Operators : rpc'[p] = "insert" =>
        rpc[p] = "insert" /\ p # o /\ ask'[p].amount = ask[p].amount
  BY <1>2 DEF Ask, Rollback, Enqueue, Done
<1>6. \A p \in Operators : rpc'[p] = "insert" => advisory' = p
  <2>1. CASE Ask(o) \/ Enqueue(o)
    <3>1. UNCHANGED advisory
      BY <2>1 DEF Ask, Enqueue
    <3> QED  BY <1>5, <3>1 DEF MoneyInv, Fits
  <2>2. CASE Rollback(o)
    BY <1>5, <2>2 DEF Rollback, MoneyInv, Fits
  <2> QED  BY <2>1, <2>2
<1>7. Fits'
  BY <1>1, <1>2, <1>4, <1>5, <1>6, FitsStep
<1> QED  BY <1>4, <1>7 DEF MoneyInv

\* Who finds the lock free is alone, and asks for no more than is left.
LEMMA CheckMoney ==
  ASSUME MoneyInv, WithdrawalInv, NEW o \in Operators, Check(o)
  PROVE  MoneyInv'
<1>1. UNCHANGED <<amount, status, job, swept, owed>> /\ rpc[o] = "lock" /\ advisory = None
  BY DEF Check, rowVars, ledgerVars
<1>2. rpc \in [Operators -> {"idle", "lock", "insert", "enqueue"}]
      /\ ask \in [Operators -> [amount : Nat, row : Withdrawals \cup {None}]]
  BY DEF WithdrawalInv, Typed
<1>3. MoneyTyped' /\ FailedWasTried' /\ Untried' \subseteq Untried
  BY <1>1 DEF MoneyInv, MoneyTyped, FailedWasTried, Untried
<1>4. \A p \in Operators : rpc[p] # "insert"
  BY <1>1, WithdrawalAssumption DEF MoneyInv, Fits
<1>5. CASE ask[o].amount > Available
  <2>1. \A p \in Operators : rpc'[p] # "insert"
    BY <1>2, <1>4, <1>5 DEF Check, Done
  <2> QED  BY <1>1, <1>2, <1>3, <2>1, FitsStep DEF MoneyInv
<1>6. CASE ask[o].amount <= Available
  <2>1. /\ Collected \in Nat /\ ClientOwed \in Nat /\ Withdrawn \in Nat
        /\ Sum(amount, Untried) \in Nat /\ Sum(amount, Untried) <= Withdrawn
    BY SumsAreNat DEF MoneyInv
  <2>2. ask[o].amount \in Nat /\ Sum(amount, Untried) <= Collected
    BY <1>2 DEF MoneyInv, Fits
  <2>3. ask[o].amount + Sum(amount, Untried) <= Collected
    BY <1>6, <2>1, <2>2 DEF Available, Clamp
  <2>4. UNCHANGED <<Collected, Sum(amount, Untried), ask>>
    <3>1. UNCHANGED ask
      BY <1>6, <2>1, <2>2 DEF Check, Available, Clamp
    <3> QED  BY <1>1, <3>1 DEF Collected, Sum, Untried, MapThenSumSet, MapThenFoldSet, Credit
  <2>5. \A p \in Operators : rpc'[p] = "insert" => p = o /\ advisory' = o
    BY <1>2, <1>4, <1>6, <2>1, <2>2 DEF Check, Available, Clamp
  <2> QED  BY <1>3, <2>2, <2>3, <2>4, <2>5 DEF MoneyInv, Fits
<1>7. ask[o].amount \in Int /\ Available \in Int
  BY <1>2, SumsAreNat DEF MoneyInv, Available, Clamp
<1> QED  BY <1>5, <1>6, <1>7

\* The row takes what the guard has found.
LEMMA InsertMoney ==
  ASSUME MoneyInv, WithdrawalInv, NEW o \in Operators, Insert(o)
  PROVE  MoneyInv'
<1>1. PICK w \in Withdrawals :
        /\ status[w] = "none"
        /\ status' = [status EXCEPT ![w] = "pending"]
        /\ amount' = [amount EXCEPT ![w] = ask[o].amount]
  BY DEF Insert
<1>2. /\ UNCHANGED <<swept, owed, job>> /\ rpc[o] = "insert"
      /\ rpc' = [rpc EXCEPT ![o] = "enqueue"]
  BY DEF Insert, ledgerVars
<1>3. /\ ask[o].amount \in Nat /\ status \in [Withdrawals -> Statuses]
      /\ rpc \in [Operators -> {"idle", "lock", "insert", "enqueue"}]
  BY DEF WithdrawalInv, Typed
<1>4. MoneyTyped'
  BY <1>1, <1>2, <1>3 DEF MoneyInv, MoneyTyped
<1>5. FailedWasTried'
  BY <1>1, <1>2, <1>3 DEF MoneyInv, FailedWasTried
<1>6. \A p \in Operators : rpc'[p] # "insert"
  BY <1>2, <1>3 DEF MoneyInv, Fits
<1>7. /\ ask[o].amount + Sum(amount, Untried) <= Collected
      /\ Collected \in Nat /\ Sum(amount, Untried) \in Nat
  BY <1>2, SumsAreNat DEF MoneyInv, Fits
<1>8. UNCHANGED Collected
  BY <1>2 DEF Collected, Sum, MapThenSumSet, MapThenFoldSet, Credit
<1>9. SumOf(amount', Untried) = SumOf(amount, Untried)
  <2>1. w \notin Untried /\ IsFiniteSet(Untried) /\ Untried \in SUBSET Withdrawals
    BY <1>1, WithdrawalAssumption, FS_Subset DEF Untried, Reserving
  <2>2. \A v \in Untried : amount[v] \in Int /\ amount[v] = amount'[v]
    BY <1>1, <2>1 DEF MoneyInv, MoneyTyped
  <2> QED  BY <2>1, <2>2, SumEqual
<1>10. SumOf(amount', Untried') <= ask[o].amount + SumOf(amount, Untried)
  <2>1. w \notin Untried /\ IsFiniteSet(Untried)
    BY <1>1, WithdrawalAssumption, FS_Subset DEF Untried, Reserving
  <2>2. \A v \in Withdrawals : amount'[v] \in Int
    BY <1>4 DEF MoneyTyped
  <2>3. CASE Untried' = Untried \cup {w}
    <3>1. \A v \in Untried \cup {w} : amount'[v] \in Int
      BY <2>2 DEF Untried
    <3>2. SumOf(amount', Untried \cup {w}) = amount'[w] + SumOf(amount', Untried)
      BY <2>1, <3>1, SumAdd
    <3>3. amount'[w] = ask[o].amount
      BY <1>1 DEF MoneyInv, MoneyTyped
    <3> QED  BY <1>3, <1>7, <1>9, <2>3, <3>2, <3>3, SumIsSumOf
  <2>4. CASE Untried' = Untried
    BY <1>3, <1>7, <1>9, <2>4, SumIsSumOf
  <2>5. Untried' = Untried \/ Untried' = Untried \cup {w}
    BY <1>1, <1>2, <1>3 DEF Untried, Reserving
  <2> QED  BY <2>3, <2>4, <2>5
<1>11. Sum(amount, Untried)' = SumOf(amount', Untried')
  BY DEF Sum, SumOf, MapThenSumSet, MapThenFoldSet
<1>12. SumOf(amount', Untried') \in Nat
  <2>1. IsFiniteSet(Untried') /\ \A v \in Untried' : amount'[v] \in Nat
    BY <1>4, WithdrawalAssumption, FS_Subset DEF MoneyTyped, Untried
  <2> QED  BY <2>1, SumType
<1>13. Sum(amount, Untried)' <= Collected'
  BY <1>3, <1>7, <1>8, <1>10, <1>11, <1>12, SumIsSumOf
<1> QED  BY <1>4, <1>5, <1>6, <1>13 DEF MoneyInv, Fits


\* A step of a worker: no try is taken back, a row that is there reserves on, or
\* fails as its job has been tried.
LEMMA WorkStep ==
  ASSUME MoneyInv, WithdrawalInv, UNCHANGED <<amount, ledgerVars, askVars>>,
         \A w \in Withdrawals : job'[w].tries \in Nat /\ job[w].tries <= job'[w].tries,
         \A w \in Withdrawals :
           \/ status'[w] = status[w]
           \/ status'[w] \in Reserving /\ status[w] # "none"
           \/ status'[w] = "failed" /\ job'[w].tries > 0
  PROVE  MoneyInv'
<1>1. UNCHANGED <<swept, owed, rpc, ask, advisory>>
  BY DEF ledgerVars, askVars
<1>2. /\ ask \in [Operators -> [amount : Nat, row : Withdrawals \cup {None}]]
      /\ \A w \in Withdrawals : job[w].tries \in Nat /\ status[w] \in Statuses
  BY DEF WithdrawalInv, Typed, Jobs
<1>3. MoneyTyped'
  BY <1>1 DEF MoneyInv, MoneyTyped
<1>4. FailedWasTried'
  BY <1>2 DEF MoneyInv, FailedWasTried, Reserving
<1>5. Untried' \subseteq Untried
  BY <1>2 DEF MoneyInv, FailedWasTried, Untried, Reserving, Statuses
<1>6. Fits'
  BY <1>1, <1>2, <1>3, <1>5, FitsStep DEF MoneyInv, Fits
<1> QED  BY <1>3, <1>4, <1>6 DEF MoneyInv

\* The tries of the jobs after a worker's step.
LEMMA TriesKept ==
  ASSUME WithdrawalInv, NEW e \in Workers, Busy(e)
  PROVE  /\ on[e] \in Withdrawals /\ status[on[e]] # "none"
         /\ \A j \in {job, Completed(e), Threw(e)}, w \in Withdrawals :
              j[w].tries \in Nat /\ job[w].tries <= j[w].tries
         /\ Threw(e)[on[e]].tries > 0
<1>1. /\ on[e] \in Withdrawals /\ Owns(e, on[e]) /\ status[on[e]] # "none"
      /\ job \in [Withdrawals -> Jobs]
  BY DEF WithdrawalInv, OneExecutor, Owns, RowIsNew, Typed
<1>2. \A w \in Withdrawals : job[w].tries \in Nat /\ job[w].tries <= job[w].tries
  BY <1>1 DEF Jobs
<1>3. \A w \in Withdrawals : Completed(e)[w].tries = job[w].tries
  BY <1>1 DEF Completed, Jobs
<1>4. \A w \in Withdrawals : Threw(e)[w].tries = job[w].tries + IF w = on[e] THEN 1 ELSE 0
  BY <1>1, <1>2 DEF Threw
<1> QED  BY <1>1, <1>2, <1>3, <1>4

LEMMA ExecuteMoney ==
  ASSUME MoneyInv, WithdrawalInv, NEW e \in Workers, Execute(e) \/ Crash(e)
  PROVE  MoneyInv'
<1>1. UNCHANGED <<amount, ledgerVars, askVars>>
  BY DEF Execute, Crash, Start, MarkProcessing, AcquireLock, Prepare, PrepareFails, Persist,
         PersistFails, MarkAttempted, MarkAttemptedFails, Broadcast, MarkFailed, MarkFailedFails,
         WriteSent, Watch, rowVars
<1>2. \A w \in Withdrawals : job[w].tries \in Nat /\ job[w].tries <= job[w].tries
  BY DEF WithdrawalInv, Typed, Jobs
<1>3. CASE \E w \in Withdrawals : Start(e, w)
  <2>1. UNCHANGED status
    BY <1>3 DEF Start, rowVars
  <2>2. \A v \in Withdrawals : job'[v].tries = job[v].tries
    <3>1. job \in [Withdrawals -> Jobs]
      BY DEF WithdrawalInv, Typed
    <3>2. PICK w \in Withdrawals : Start(e, w)
      BY <1>3
    <3>3. CASE job' = [job EXCEPT ![w].state = "done"]
      BY <3>1, <3>3 DEF Jobs
    <3>4. CASE job' = [job EXCEPT ![w].state = "active", ![w].owner = e]
      BY <3>1, <3>4 DEF Jobs
    <3> QED  BY <3>2, <3>3, <3>4 DEF Start
  <2> QED  BY <1>1, <1>2, <2>1, <2>2, WorkStep
<1>4. CASE \/ AcquireLock(e) \/ Prepare(e) \/ PrepareFails(e) \/ Persist(e) \/ PersistFails(e)
           \/ MarkAttempted(e) \/ MarkAttemptedFails(e) \/ Broadcast(e) \/ Crash(e)
  <2>1. UNCHANGED <<status, job>>
    BY <1>4 DEF AcquireLock, Prepare, PrepareFails, Persist, PersistFails, MarkAttempted,
                MarkAttemptedFails, Broadcast, Crash, rowVars
  <2> QED  BY <1>1, <1>2, <2>1, WorkStep
<1>5. CASE \/ MarkProcessing(e) \/ MarkFailed(e) \/ MarkFailedFails(e)
           \/ WriteSent(e) \/ Watch(e)
  <2>1. Busy(e)
    BY <1>5 DEF MarkProcessing, MarkFailed, MarkFailedFails, WriteSent, Watch, Busy
  <2>2. /\ on[e] \in Withdrawals /\ status[on[e]] # "none"
        /\ \A j \in {job, Completed(e), Threw(e)}, w \in Withdrawals :
             j[w].tries \in Nat /\ job[w].tries <= j[w].tries
        /\ Threw(e)[on[e]].tries > 0
    BY <2>1, TriesKept
  <2>3. job' \in {job, Completed(e), Threw(e)}
    BY <1>5 DEF MarkProcessing, MarkFailed, MarkFailedFails, WriteSent, Watch
  <2>4. \/ UNCHANGED status
        \/ \E s \in {"processing", "sent", "confirmed"} : status' = [status EXCEPT ![on[e]] = s]
        \/ status' = [status EXCEPT ![on[e]] = "failed"] /\ job' = Threw(e)
    BY <1>5 DEF MarkProcessing, MarkFailed, MarkFailedFails, WriteSent, Watch, rowVars
  <2>5. \A w \in Withdrawals :
          \/ status'[w] = status[w]
          \/ status'[w] \in Reserving /\ status[w] # "none"
          \/ status'[w] = "failed" /\ job'[w].tries > 0
    BY <2>2, <2>4 DEF WithdrawalInv, Typed, Reserving
  <2> QED  BY <1>1, <2>2, <2>3, <2>5, WorkStep
<1> QED  BY <1>3, <1>4, <1>5 DEF Execute

LEMMA NextMoney == MoneyInv /\ WithdrawalInv /\ [Next]_vars => MoneyInv'
<1> SUFFICES ASSUME MoneyInv, WithdrawalInv, [Next]_vars  PROVE MoneyInv'
  OBVIOUS
<1>1. \A w \in Withdrawals : job[w].tries \in Nat /\ job[w].tries <= job[w].tries
  BY DEF WithdrawalInv, Typed, Jobs
<1>2. CASE UNCHANGED vars
  BY <1>1, <1>2, WorkStep DEF vars, rowVars
<1>3. CASE \E w \in Withdrawals : Redeliver(w)
  <2>1. UNCHANGED <<status, amount, ledgerVars, askVars>>
    BY <1>3 DEF Redeliver, rowVars
  <2>2. \A w \in Withdrawals : job'[w].tries = job[w].tries
    BY <1>3 DEF Redeliver, WithdrawalInv, Typed, Jobs
  <2> QED  BY <1>1, <2>1, <2>2, WorkStep
<1> QED
  BY <1>2, <1>3, LedgerMoney, AskMoney, CheckMoney, InsertMoney, ExecuteMoney DEF Next, Request

\* While no job is handed out under a live worker, what operators hold reserved, the
\* rows whose job has failed aside, was collected: however many ask at once, whatever
\* the ledger does meanwhile, and whichever workers die or requests roll back.
THEOREM ReservedWithinCollected ==
  ASSUME "stall" \notin Faults  PROVE Spec => []WithinCollected
<1>1. MoneyInv => WithinCollected
  BY SumIsSumOf DEF MoneyInv, Fits, WithinCollected, Untried
<1>2. Init => WithdrawalInv /\ MoneyInv
  BY InitWithdrawal, InitMoney
<1>3. WithdrawalInv /\ MoneyInv /\ [Next]_vars => (WithdrawalInv /\ MoneyInv)'
  BY NextWithdrawal, NextMoney
<1> QED  BY <1>1, <1>2, <1>3, PTL DEF Spec
=============================================================================
