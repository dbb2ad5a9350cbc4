---------------------------- MODULE PayoutProofs ----------------------------
(* TLAPS proofs about Payout, for any number of rows, payments, workers,     *)
(* requesters and slots, any faults and each of the three kinds of chain.    *)
EXTENDS PayoutInv, Sums, TLAPS

-----------------------------------------------------------------------------
(* Type correctness.                                                         *)

\* The initial state has the types.
LEMMA InitType == Init => TypeOK
BY PayoutAssumption DEF Init, TypeOK, Statuses, NoJob, NoHeld, NoAsk, Jobs, Asks, PCs, Section

\* What BullMQ does with a job keeps the type of the jobs.
LEMMA JobTypes ==
  ASSUME TypeOK, NEW e \in Executors, NEW p \in Payouts
  PROVE  /\ Completed(e, p) \in [Payouts -> Jobs]
         /\ Threw(e, p) \in [Payouts -> Jobs]
         /\ StartJob(e, p) => job' \in [Payouts -> Jobs]
<1>1. job \in [Payouts -> Jobs]
  BY DEF TypeOK
<1>2. Completed(e, p) \in [Payouts -> Jobs]
  BY <1>1 DEF Completed, Jobs
<1>3. Threw(e, p) \in [Payouts -> Jobs]
  BY <1>1 DEF Threw, Jobs
<1>4. ASSUME StartJob(e, p)  PROVE job' \in [Payouts -> Jobs]
  BY <1>1, <1>4 DEF StartJob, Jobs
<1> QED  BY <1>2, <1>3, <1>4

\* The steps of requestPayout and of the settle tick keep the types.
LEMMA RequestType ==
  ASSUME TypeOK, NEW r \in Requesters, Request(r)
  PROVE  TypeOK'
<1> USE PayoutAssumption DEF Asks, rowVars, payVars, execVars, reqVars, chainVars
<1>a. /\ job \in [Payouts -> Jobs]
      /\ ask \in [Requesters -> Asks]
      /\ rpc \in [Requesters -> {"idle", "lock", "insert", "enqueue"}]
  BY DEF TypeOK
<1>1. ASSUME NEW x \in Payments \cup {None}, NEW a \in Nat, Call(r, x, a),
             swept' \subseteq Payments
      PROVE  TypeOK'
  BY <1>1 DEF TypeOK, Call
<1>2. ASSUME NEW x \in Payments, SweptPayout(r, x)  PROVE TypeOK'
  <2>1. swept' \subseteq Payments /\ Received[x] \in Nat
    BY <1>2 DEF TypeOK, SweptPayout
  <2> QED  BY <1>1, <1>2, <2>1 DEF TypeOK, SweptPayout
<1>3. ASSUME NEW x \in Payments, RedrivePayout(r, x)  PROVE TypeOK'
  <2>1. swept' \subseteq Payments /\ Received[x] \in Nat
    BY <1>3 DEF TypeOK, RedrivePayout
  <2> QED  BY <1>1, <1>3, <2>1 DEF TypeOK, RedrivePayout
<1>4. CASE ManualPayout(r)
  BY <1>1, <1>4 DEF TypeOK, ManualPayout
<1>5. CASE CheckBalance(r)
  <2>1. CASE ask[r].amount > Available
    <3>1. rpc' \in [Requesters -> {"idle", "lock", "insert", "enqueue"}]
      BY <1>5, <1>a DEF CheckBalance
    <3>2. ask' \in [Requesters -> Asks]
      BY <1>5, <2>1, <1>a DEF CheckBalance, NoAsk
    <3> QED  BY <1>5, <2>1, <3>1, <3>2 DEF TypeOK, CheckBalance
  <2>2. CASE ~(ask[r].amount > Available)
    BY <1>5, <2>2 DEF TypeOK, CheckBalance
  <2> QED  BY <2>1, <2>2
<1>6. CASE RequestRollback(r)
  <2>1. /\ rpc' \in [Requesters -> {"idle", "lock", "insert", "enqueue"}]
        /\ ask' \in [Requesters -> Asks]
    BY <1>6, <1>a DEF RequestRollback, NoAsk
  <2>2. faults' \in Nat /\ advisory' \in Requesters \cup {None}
    BY <1>6 DEF TypeOK, RequestRollback, Fault
  <2> QED  BY <1>6, <2>1, <2>2 DEF TypeOK, RequestRollback
<1>7. CASE EnqueuePayout(r)
  <2>1. job' \in [Payouts -> Jobs]
    BY <1>7, <1>a DEF EnqueuePayout, Jobs
  <2>2. faults' \in Nat
    BY <1>7 DEF TypeOK, EnqueuePayout, Fault
  <2> QED  BY <1>7, <2>1, <2>2 DEF TypeOK, EnqueuePayout, NoAsk
<1>8. ASSUME NEW p \in Payouts, InsertPayout(r, p)  PROVE TypeOK'
  <2>1. /\ status' \in [Payouts -> Statuses]
        /\ payment' \in [Payouts -> Payments \cup {None}] /\ gross' \in [Payouts -> Nat]
    BY <1>8, <1>a DEF TypeOK, InsertPayout, Statuses
  <2>2. /\ ask' \in [Requesters -> Asks]
        /\ rpc' \in [Requesters -> {"idle", "lock", "insert", "enqueue"}]
    BY <1>8, <1>a DEF InsertPayout
  <2> QED  BY <1>8, <2>1, <2>2 DEF TypeOK, InsertPayout
<1> QED  BY <1>2, <1>3, <1>4, <1>5, <1>6, <1>7, <1>8 DEF Request

\* The steps of executePayout keep the types.
LEMMA ExecuteType ==
  ASSUME TypeOK, IdleInv, NEW e \in Executors, Execute(e)
  PROVE  TypeOK'
<1> USE PayoutAssumption
    DEF rowVars, payVars, execVars, reqVars, chainVars, Goto, Leave, Fault,
        NoHeld, PCs, Section, Unlocking
<1>a. /\ job \in [Payouts -> Jobs]
      /\ pc \in [Executors -> PCs]
      /\ on \in [Executors -> Payouts \cup {None}]
      /\ held \in [Executors -> [signed : Slots \cup {None}, stamped : BOOLEAN]]
      /\ bytes \in [Executors -> Slots \cup {None}]
      /\ outcome \in [Executors -> {"none", "ok", "err"}]
  BY DEF TypeOK
<1>0. pc[e] # "idle" => on[e] \in Payouts
  BY DEF TypeOK, IdleInv
<1>1. ASSUME NEW p \in Payouts, StartJob(e, p)  PROVE TypeOK'
  <2>1. job' \in [Payouts -> Jobs]
    BY <1>1, JobTypes
  <2>2. pc' \in [Executors -> PCs]
    BY <1>1, <1>a DEF StartJob
  <2>3. on' \in [Executors -> Payouts \cup {None}]
    BY <1>1, <1>a DEF StartJob
  <2> QED  BY <1>1, <2>1, <2>2, <2>3 DEF TypeOK, StartJob
<1>2. CASE Claim(e)
  BY <1>0, <1>2 DEF TypeOK, Claim, Claimable, Statuses
<1>3. CASE ClaimRefused(e)
  BY <1>0, <1>3, JobTypes DEF TypeOK, ClaimRefused
<1>4. CASE ClaimConflict(e)
  BY <1>0, <1>4, JobTypes DEF TypeOK, ClaimConflict
<1>5. CASE AcquireLock(e)
  BY <1>5 DEF TypeOK, AcquireLock
<1>6. CASE AcquireTimeout(e)
  BY <1>6 DEF TypeOK, AcquireTimeout
<1>7. CASE Replay(e)
  BY <1>7 DEF TypeOK, Replay
<1>8. CASE Prepare(e)
  BY <1>8 DEF TypeOK, Prepare
<1>9. CASE PrepareFails(e)
  BY <1>9 DEF TypeOK, PrepareFails
<1>10. CASE PersistPrepared(e)
  BY <1>10 DEF TypeOK, PersistPrepared
<1>11. CASE PersistFails(e)
  <2>1. signed' \in [Payouts -> Slots \cup {None}] /\ stamped' \in [Payouts -> BOOLEAN]
    BY <1>11 DEF TypeOK, PersistFails
  <2> QED  BY <1>11, <2>1 DEF TypeOK, PersistFails
<1>12. CASE MarkAttempted(e)
  BY <1>12 DEF TypeOK, MarkAttempted
<1>21. CASE MarkAttemptedFails(e)
  <2>1. stamped' \in [Payouts -> BOOLEAN]
    BY <1>21 DEF TypeOK, MarkAttemptedFails
  <2> QED  BY <1>21, <2>1 DEF TypeOK, MarkAttemptedFails
<1>13. CASE Broadcast(e)
  <2>1. pool' \in [Slots -> Payouts \cup {None}]
    BY <1>0, <1>13 DEF TypeOK, Broadcast, Accepts, AlreadyThere, Refuses
  <2>2. bytes' \in [Executors -> Slots \cup {None}]
    BY <1>13 DEF TypeOK, Broadcast
  <2>3. pc' \in [Executors -> PCs] /\ outcome' \in [Executors -> {"none", "ok", "err"}]
    BY <1>13 DEF TypeOK, Broadcast
  <2>4. faults' \in Nat
    BY <1>13 DEF TypeOK, Broadcast
  <2> QED  BY <1>13, <2>1, <2>2, <2>3, <2>4 DEF TypeOK, Broadcast
<1>14. CASE ReleaseLock(e)
  BY <1>14 DEF TypeOK, ReleaseLock
<1>15. CASE BookFailure(e)
  BY <1>0, <1>15, JobTypes DEF TypeOK, BookFailure, Statuses
<1>17. CASE BookFailureFails(e)
  BY <1>0, <1>17, JobTypes DEF TypeOK, BookFailureFails
<1>18. CASE WriteSent(e)
  BY <1>18 DEF TypeOK, WriteSent, Statuses
<1>19. CASE WriteSentFails(e)
  BY <1>0, <1>19, JobTypes DEF TypeOK, WriteSentFails
<1>20. CASE WatchReceipt(e)
  <2>1. job' \in [Payouts -> Jobs]
    BY <1>0, <1>20, JobTypes DEF WatchReceipt
  <2>2. status' \in [Payouts -> Statuses]
    BY <1>20 DEF TypeOK, WatchReceipt, Statuses
  <2> QED  BY <1>20, <2>1, <2>2 DEF TypeOK, WatchReceipt
<1>16. CASE Crash(e)
  BY <1>16 DEF TypeOK, Crash
<1> QED
  BY <1>1, <1>2, <1>3, <1>4, <1>5, <1>6, <1>7, <1>8, <1>9, <1>10, <1>11, <1>12,
     <1>13, <1>14, <1>15, <1>16, <1>17, <1>18, <1>19, <1>20, <1>21 DEF Execute

\* Every step keeps the types and the rows of idle executors.
LEMMA TypeStep == TypeOK /\ IdleInv /\ [Next]_vars => TypeOK'
<1> SUFFICES ASSUME TypeOK, IdleInv, [Next]_vars  PROVE TypeOK'
  OBVIOUS
<1>1. ASSUME NEW r \in Requesters, Request(r)  PROVE TypeOK'
  BY <1>1, RequestType
<1>2. ASSUME NEW e \in Executors, Execute(e)  PROVE TypeOK'
  BY <1>2, ExecuteType
<1>3. ASSUME NEW x \in Payments, MarkSettled(x)  PROVE TypeOK'
  BY <1>3 DEF MarkSettled, TypeOK, rowVars, execVars, reqVars, chainVars
<1>4. ASSUME NEW p \in Payouts, Redeliver(p)  PROVE TypeOK'
  <2>1. job \in [Payouts -> Jobs]
    BY DEF TypeOK
  <2>2. job' \in [Payouts -> Jobs]
    BY <1>4, <2>1 DEF Redeliver, Jobs
  <2>3. faults' \in Nat
    BY <1>4 DEF Redeliver, Fault, TypeOK
  <2> QED
    BY <1>4, <2>2, <2>3
    DEF Redeliver, TypeOK, rowVars, payVars, execVars, reqVars, chainVars
<1>5. CASE ExpireLease
  BY <1>5
  DEF ExpireLease, Fault, TypeOK, rowVars, payVars, execVars, reqVars, chainVars
<1>6. ASSUME NEW s \in Slots, Mine(s)  PROVE TypeOK'
  BY <1>6 DEF Mine, TypeOK, rowVars, payVars, execVars, reqVars
<1>7. CASE UNCHANGED vars
  BY <1>7 DEF vars, TypeOK, rowVars, payVars, execVars, reqVars, chainVars
<1> QED  BY <1>1, <1>2, <1>3, <1>4, <1>5, <1>6, <1>7 DEF Next

-----------------------------------------------------------------------------
(* The inductive invariant holds initially and in steps that change neither  *)
(* rows nor the chain.                                                       *)

\* The invariant holds when no row exists and every worker is idle.
LEMMA InitIInv == Init => IInv
BY PayoutAssumption
DEF Init, IInv, IdleInv, StatusInv, Busy, BytesInv, SoleInv, StepInv, Informed, WireInv,
    OnWire, TronInv, IndexInv, Active, SettledIsHeld, ConfirmedLanded, NoHeld

\* The parts of the invariant that speak of rows and of the chain only.
LEMMA RowsUnchanged ==
  ASSUME IInv, UNCHANGED <<rowVars, settleDone, chainVars>>
  PROVE  BytesInv' /\ WireInv' /\ IndexInv' /\ SettledIsHeld' /\ ConfirmedLanded'
BY DEF IInv, BytesInv, WireInv, OnWire, IndexInv, Active, SettledIsHeld, ConfirmedLanded,
       rowVars, chainVars

\* Steps of requesters, of the queue and of Redis.
LEMMA NothingChanges ==
  ASSUME IInv, UNCHANGED <<rowVars, settleDone, execVars, chainVars>>
  PROVE  IInv'
<1>1. BytesInv' /\ WireInv' /\ IndexInv' /\ SettledIsHeld' /\ ConfirmedLanded'
  BY RowsUnchanged
<1>2. IdleInv' /\ StatusInv' /\ SoleInv'
  BY DEF IInv, IdleInv, StatusInv, SoleInv, Busy, rowVars, execVars
<1>3. StepInv'
  BY DEF IInv, StepInv, Informed, rowVars, execVars
<1>4. TronInv'
  BY DEF IInv, TronInv, OnWire, execVars, chainVars
<1> QED  BY <1>1, <1>2, <1>3, <1>4 DEF IInv

\* An executor that leaves without touching its row.
LEMMA LeavingKeeps ==
  ASSUME TypeOK, IInv, NEW e \in Executors, Leave(e),
         UNCHANGED <<rowVars, settleDone, chainVars>>
  PROVE  IInv'
<1> USE DEF Leave
<1>t. /\ pc \in [Executors -> PCs]
      /\ on \in [Executors -> Payouts \cup {None}]
      /\ held \in [Executors -> [signed : Slots \cup {None}, stamped : BOOLEAN]]
      /\ bytes \in [Executors -> Slots \cup {None}]
      /\ outcome \in [Executors -> {"none", "ok", "err"}]
  BY DEF TypeOK
<1>1. BytesInv' /\ WireInv' /\ IndexInv' /\ SettledIsHeld' /\ ConfirmedLanded'
  BY RowsUnchanged
<1>2. IdleInv'
  BY <1>t DEF IInv, IdleInv
<1>3. \A f \in Executors, p \in Payouts : Busy(f, p)' => Busy(f, p)
  BY <1>t DEF Busy
<1>4. StatusInv' /\ SoleInv'
  BY <1>3 DEF IInv, StatusInv, SoleInv, rowVars
<1>5. StepInv'
  <2> SUFFICES ASSUME NEW f \in Executors  PROVE Informed(f)'
    BY DEF StepInv
  <2>1. CASE f = e
    BY <2>1, <1>t DEF Informed, NoHeld
  <2>2. CASE f # e
    BY <2>2, <1>t DEF IInv, StepInv, Informed, rowVars
  <2> QED  BY <2>1, <2>2
<1>6. TronInv'
  BY <1>t DEF IInv, TronInv, OnWire, chainVars
<1> QED  BY <1>1, <1>2, <1>4, <1>5, <1>6 DEF IInv

\* An executor that goes from one step past the claim to another.
LEMMA AdvancingKeeps ==
  ASSUME TypeOK, IInv, NEW e \in Executors, NEW l \in PCs \ {"idle", "claim"},
         l = "send" => Kind # "tron", pc[e] \notin {"idle", "claim"}, Goto(e, l), UNCHANGED on,
         UNCHANGED <<rowVars, settleDone, chainVars>>,
         \A f \in Executors \ {e} : UNCHANGED <<held[f], bytes[f], outcome[f]>>,
         Informed(e)'
  PROVE  IInv'
<1> USE DEF Goto
<1>t. pc \in [Executors -> PCs]
  BY DEF TypeOK
<1>1. BytesInv' /\ WireInv' /\ IndexInv' /\ SettledIsHeld' /\ ConfirmedLanded'
  BY RowsUnchanged
<1>2. IdleInv'
  BY <1>t DEF IInv, IdleInv
<1>3. \A f \in Executors, p \in Payouts : Busy(f, p)' => Busy(f, p)
  BY <1>t DEF Busy
<1>4. StatusInv' /\ SoleInv'
  BY <1>3 DEF IInv, StatusInv, SoleInv, rowVars
<1>5. ASSUME NEW f \in Executors \ {e}  PROVE Informed(f)'
  <2>1. Informed(f)
    BY DEF IInv, StepInv
  <2> QED  BY <1>5, <2>1, <1>t DEF Informed, rowVars
<1>6. StepInv'
  BY <1>5 DEF StepInv
<1>7. TronInv'
  BY <1>t DEF IInv, TronInv, OnWire, chainVars
<1> QED  BY <1>1, <1>2, <1>4, <1>6, <1>7 DEF IInv

-----------------------------------------------------------------------------
(* Executors: steps that leave the row alone.                                *)

\* A worker that picks a job up has not claimed the row yet.
LEMMA StartJobKeeps ==
  ASSUME TypeOK, IInv, NEW e \in Executors, NEW p \in Payouts, StartJob(e, p)
  PROVE  IInv'
<1> USE DEF StartJob, Goto
<1>t. /\ pc \in [Executors -> PCs]
      /\ on \in [Executors -> Payouts \cup {None}]
  BY DEF TypeOK
<1>1. CASE status[p] \in {"sent", "confirmed"}
  <2>1. UNCHANGED <<rowVars, settleDone, execVars, chainVars>>
    BY <1>1 DEF execVars, payVars
  <2> QED  BY <2>1, NothingChanges
<1>2. CASE status[p] \notin {"sent", "confirmed"}
  <2> DEFINE others == \A f \in Executors \ {e} : pc'[f] = pc[f] /\ on'[f] = on[f]
  <2>1. others /\ pc'[e] = "claim" /\ on'[e] = p /\ pc[e] = "idle" /\ p # None
    BY <1>2, <1>t, PayoutAssumption
  <2>2. UNCHANGED <<rowVars, settleDone, chainVars, held, bytes, outcome>>
    BY <1>2 DEF payVars
  <2>3. BytesInv' /\ WireInv' /\ IndexInv' /\ SettledIsHeld' /\ ConfirmedLanded'
    BY <2>2, RowsUnchanged
  <2>4. IdleInv'
    BY <2>1, <2>2 DEF IInv, IdleInv
  <2>5. \A f \in Executors, q \in Payouts : Busy(f, q)' => Busy(f, q)
    BY <2>1 DEF Busy
  <2>6. StatusInv' /\ SoleInv'
    BY <2>2, <2>5 DEF IInv, StatusInv, SoleInv, rowVars
  <2>7. StepInv'
    <3> SUFFICES ASSUME NEW f \in Executors  PROVE Informed(f)'
      BY DEF StepInv
    <3>1. CASE f = e
      BY <3>1, <2>1, <2>2 DEF IInv, Informed, IdleInv, NoHeld
    <3>2. CASE f # e
      BY <3>2, <2>1, <2>2 DEF IInv, StepInv, Informed, rowVars
    <3> QED  BY <3>1, <3>2
  <2>8. TronInv'
    BY <2>1, <2>2 DEF IInv, TronInv, OnWire, chainVars
  <2> QED  BY <2>3, <2>4, <2>6, <2>7, <2>8 DEF IInv
<1> QED  BY <1>1, <1>2

\* The lock, the signing and the release leave the row as it is.
LEMMA AdvanceSteps ==
  ASSUME TypeOK, IInv, NEW e \in Executors,
         \/ AcquireLock(e) \/ AcquireTimeout(e) \/ Replay(e) \/ Prepare(e)
         \/ PrepareFails(e) \/ ReleaseLock(e)
  PROVE  IInv'
<1>t. /\ pc \in [Executors -> PCs]
      /\ held \in [Executors -> [signed : Slots \cup {None}, stamped : BOOLEAN]]
      /\ bytes \in [Executors -> Slots \cup {None}]
      /\ outcome \in [Executors -> {"none", "ok", "err"}]
  BY DEF TypeOK
<1>i. Informed(e) /\ BytesInv
  BY DEF IInv, StepInv
<1> USE DEF Goto, Unlocking, payVars
<1>1. CASE AcquireLock(e)
  <2>1. Informed(e)'
    BY <1>1, <1>t, <1>i DEF AcquireLock, Informed, rowVars
  <2> QED  BY <1>1, <2>1, AdvancingKeeps DEF AcquireLock, PCs, Section
<1>2. CASE AcquireTimeout(e)
  <2>1. Informed(e)'
    BY <1>2, <1>t, <1>i DEF AcquireTimeout, Informed, rowVars
  <2> QED  BY <1>2, <2>1, AdvancingKeeps DEF AcquireTimeout, PCs, Section
<1>3. CASE Replay(e)
  <2>1. held[e].signed = signed[on[e]] /\ on[e] \in Payouts
    BY <1>3, <1>i DEF Replay, Informed, IInv, IdleInv, TypeOK
  <2>2. stamped[on[e]]
    BY <1>3, <1>i, <2>1 DEF Replay, BytesInv
  <2>3. Informed(e)'
    BY <1>3, <1>t, <1>i, <2>1, <2>2 DEF Replay, Informed, rowVars
  <2>4. \A f \in Executors \ {e} : UNCHANGED <<held[f], bytes[f], outcome[f]>>
    BY <1>3, <1>t DEF Replay
  <2> QED  BY <1>3, <2>3, <2>4, AdvancingKeeps DEF Replay, PCs, Section
<1>4. CASE Prepare(e)
  <2>1. bytes'[e] \in Slots
    BY <1>4, <1>t DEF Prepare
  <2>2. Informed(e)'
    BY <1>4, <1>t, <1>i, <2>1, PayoutAssumption DEF Prepare, Informed, rowVars
  <2>3. \A f \in Executors \ {e} : UNCHANGED <<held[f], bytes[f], outcome[f]>>
    BY <1>4, <1>t DEF Prepare
  <2> QED  BY <1>4, <2>2, <2>3, AdvancingKeeps DEF Prepare, PCs, Section
<1>5. CASE PrepareFails(e)
  <2>1. Informed(e)'
    BY <1>5, <1>t, <1>i DEF PrepareFails, Informed, rowVars
  <2>2. \A f \in Executors \ {e} : UNCHANGED <<held[f], bytes[f], outcome[f]>>
    BY <1>5, <1>t DEF PrepareFails
  <2> QED  BY <1>5, <2>1, <2>2, AdvancingKeeps DEF PrepareFails, PCs, Section
<1>6. CASE ReleaseLock(e)
  <2>1. Informed(e)'
    BY <1>6, <1>t, <1>i DEF ReleaseLock, Informed, rowVars
  <2> QED  BY <1>6, <2>1, AdvancingKeeps DEF ReleaseLock, PCs, Section
<1> QED  BY <1>1, <1>2, <1>3, <1>4, <1>5, <1>6

-----------------------------------------------------------------------------
(* Executors: steps that change the status of their row.                     *)

\* A change of one status keeps the parts of the invariant about rows when it
\* respects the index, releases nothing that is stamped and confirms only
\* what has landed.
LEMMA StatusChange ==
  ASSUME TypeOK, IInv, NEW p \in Payouts, NEW st \in Statuses,
         status' = [status EXCEPT ![p] = st],
         UNCHANGED <<payment, stamped, signed, settleDone, chainVars>>,
         st \in {"none", "failed"} \/ status[p] \notin {"none", "failed"}
           \/ ~Conflict(p, payment[p]),
         stamped[p] => st \in Reserving,
         st = "confirmed" => \E s \in Slots : mined[s] = p
  PROVE  BytesInv' /\ WireInv' /\ IndexInv' /\ SettledIsHeld' /\ ConfirmedLanded'
<1>t. status \in [Payouts -> Statuses]
  BY DEF TypeOK
<1>1. BytesInv' /\ WireInv'
  BY DEF IInv, BytesInv, WireInv, OnWire, chainVars
<1>2. IndexInv'
  <2> SUFFICES ASSUME NEW x \in Payments, NEW q \in Active(x)', NEW r \in Active(x)'
               PROVE  q = r
    BY DEF IndexInv
  <2>1. q \in Payouts /\ r \in Payouts /\ payment[q] = x /\ payment[r] = x
    BY DEF Active
  <2>2. \A z \in {q, r} : z \in Active(x) \/ z = p
    BY <1>t, <2>1 DEF Active
  <2>3. CASE p \in Active(x) \/ p \notin {q, r}
    BY <2>2, <2>3 DEF IInv, IndexInv
  <2>4. CASE p \notin Active(x) /\ p \in {q, r}
    <3>1. status[p] \in {"none", "failed"} /\ payment[p] = x
      BY <2>1, <2>4 DEF Active
    <3>2. st \notin {"none", "failed"}
      BY <1>t, <2>4 DEF Active
    <3>3. Active(x) = {}
      BY <2>4, <3>1, <3>2, PayoutAssumption DEF Conflict
    <3> QED  BY <2>2, <3>3
  <2> QED  BY <2>3, <2>4
<1>3. SettledIsHeld'
  BY <1>t DEF IInv, SettledIsHeld
<1>4. ConfirmedLanded'
  BY <1>t DEF IInv, ConfirmedLanded, chainVars
<1> QED  BY <1>1, <1>2, <1>3, <1>4

\* The claim admits one executor of an unstamped row, and hands it the row's
\* bytes.
LEMMA ClaimKeeps ==
  ASSUME TypeOK, IInv, NEW e \in Executors, Claim(e)
  PROVE  IInv'
<1> DEFINE p == on[e]
           st == IF Kind = "tron" /\ stamped[p] THEN "book" ELSE "lock"
<1>t. /\ pc \in [Executors -> PCs]
      /\ status \in [Payouts -> Statuses]
      /\ held \in [Executors -> [signed : Slots \cup {None}, stamped : BOOLEAN]]
  BY DEF TypeOK
<1>1. p \in Payouts /\ pc[e] = "claim"
  BY DEF Claim, IInv, IdleInv, TypeOK
<1>2. /\ status' = [status EXCEPT ![p] = "processing"]
      /\ Claimable(p) /\ ~Conflict(p, payment[p])
      /\ UNCHANGED <<payment, stamped, signed, settleDone, chainVars>>
      /\ UNCHANGED <<on, bytes, outcome>>
  BY DEF Claim, payVars
<1>3. /\ pc'[e] = st
      /\ held'[e] = [signed |-> signed[p], stamped |-> stamped[p]]
      /\ \A f \in Executors \ {e} : pc'[f] = pc[f] /\ held'[f] = held[f]
  BY <1>t DEF Claim, Goto
<1>4. BytesInv' /\ WireInv' /\ IndexInv' /\ SettledIsHeld' /\ ConfirmedLanded'
  BY <1>1, <1>2, StatusChange DEF Statuses, Reserving
<1>5. IdleInv'
  BY <1>1, <1>2, <1>3 DEF IInv, IdleInv
<1>6. \A f \in Executors, q \in Payouts : Busy(f, q)' => Busy(f, q) \/ (f = e /\ q = p)
  BY <1>2, <1>3 DEF Busy
<1>7. ~stamped[p] => \A f \in Executors : ~Busy(f, p)
  BY <1>1, <1>2 DEF IInv, StatusInv, BytesInv, Claimable
<1>8. StatusInv'
  BY <1>1, <1>2, <1>6, <1>t DEF IInv, StatusInv
<1>9. SoleInv'
  BY <1>1, <1>2, <1>6, <1>7 DEF IInv, SoleInv
<1>10. StepInv'
  <2> SUFFICES ASSUME NEW f \in Executors  PROVE Informed(f)'
    BY DEF StepInv
  <2>1. CASE f = e
    BY <2>1, <1>1, <1>2, <1>3 DEF IInv, BytesInv, Informed
  <2>2. CASE f # e
    <3>1. Informed(f)
      BY DEF IInv, StepInv
    <3> QED  BY <2>2, <3>1, <1>2, <1>3 DEF Informed
  <2> QED  BY <2>1, <2>2
<1>11. TronInv'
  BY <1>2, <1>3 DEF IInv, TronInv, OnWire, chainVars
<1> QED  BY <1>4, <1>5, <1>8, <1>9, <1>10, <1>11 DEF IInv

\* The executor writes st to its row and leaves, or goes on to l.
LEMMA WritingKeeps ==
  ASSUME TypeOK, IInv, NEW e \in Executors, pc[e] \in {"book", "write", "watch"},
         NEW st \in {"failed", "unresolved", "sent", "confirmed"},
         status' = [status EXCEPT ![on[e]] = st],
         UNCHANGED <<payment, stamped, signed, settleDone, chainVars>>,
         st = "failed" <=> ~stamped[on[e]],
         st = "confirmed" => \E s \in Slots : mined[s] = on[e],
         Leave(e) \/ (/\ Goto(e, "watch") /\ UNCHANGED <<on, held, bytes, outcome>>
                      /\ bytes[e] # None /\ st = "sent")
  PROVE  IInv'
<1> DEFINE p == on[e]
<1>t. /\ pc \in [Executors -> PCs]
      /\ status \in [Payouts -> Statuses]
      /\ on \in [Executors -> Payouts \cup {None}]
      /\ held \in [Executors -> [signed : Slots \cup {None}, stamped : BOOLEAN]]
      /\ bytes \in [Executors -> Slots \cup {None}]
      /\ outcome \in [Executors -> {"none", "ok", "err"}]
  BY DEF TypeOK
<1>1. p \in Payouts /\ Busy(e, p)
  BY <1>t DEF IInv, IdleInv, Busy
<1>2. status[p] \notin {"none", "failed", "pending"}
  BY <1>1 DEF IInv, StatusInv
<1>3. BytesInv' /\ WireInv' /\ IndexInv' /\ SettledIsHeld' /\ ConfirmedLanded'
  BY <1>1, <1>2, StatusChange DEF Statuses, Reserving
<1>4. \A f \in Executors \ {e} :
        /\ pc'[f] = pc[f] /\ on'[f] = on[f] /\ held'[f] = held[f]
        /\ bytes'[f] = bytes[f] /\ outcome'[f] = outcome[f]
  BY <1>t DEF Leave, Goto
<1>5. \/ pc'[e] = "idle" /\ on'[e] = None /\ held'[e] = NoHeld
      \/ /\ pc'[e] = "watch" /\ on'[e] = p /\ held'[e] = held[e]
         /\ bytes'[e] = bytes[e] /\ outcome'[e] = outcome[e]
         /\ bytes[e] # None /\ st = "sent"
  BY <1>t DEF Leave, Goto
<1>6. IdleInv'
  BY <1>1, <1>4, <1>5, PayoutAssumption DEF IInv, IdleInv
<1>7. \A f \in Executors, q \in Payouts : Busy(f, q)' => Busy(f, q)
  <2> SUFFICES ASSUME NEW f \in Executors, NEW q \in Payouts, Busy(f, q)'
               PROVE  Busy(f, q)
    OBVIOUS
  <2>1. CASE f = e
    BY <2>1, <1>1, <1>5 DEF Busy
  <2>2. CASE f # e
    BY <2>2, <1>4 DEF Busy
  <2> QED  BY <2>1, <2>2
<1>8. StatusInv'
  <2> SUFFICES ASSUME NEW q \in Payouts
               PROVE  /\ status'[q] \in {"none", "pending", "failed"} =>
                           ~stamped[q] /\ \A f \in Executors : ~Busy(f, q)'
                      /\ status'[q] \in {"unresolved", "sent", "confirmed"} => stamped[q]
    BY DEF StatusInv
  <2>1. CASE q # p
    BY <2>1, <1>t, <1>7 DEF IInv, StatusInv
  <2>2. CASE q = p
    <3>1. status'[q] = st
      BY <2>2, <1>1, <1>t
    <3>2. ASSUME ~stamped[q], NEW f \in Executors  PROVE ~Busy(f, q)'
      <4>1. Busy(f, q) => f = e
        BY <1>1, <2>2, <3>2 DEF IInv, SoleInv
      <4>2. pc'[e] = "idle"
        BY <1>5, <2>2, <3>2
      <4> QED  BY <4>1, <4>2, <1>7 DEF Busy
    <3> QED  BY <2>2, <3>1, <3>2
  <2> QED  BY <2>1, <2>2
<1>9. SoleInv'
  BY <1>7 DEF IInv, SoleInv
<1>10. StepInv'
  <2> SUFFICES ASSUME NEW f \in Executors  PROVE Informed(f)'
    BY DEF StepInv
  <2>1. Informed(f)
    BY DEF IInv, StepInv
  <2>2. CASE f # e
    BY <2>1, <2>2, <1>4 DEF Informed
  <2>3. CASE f = e
    BY <2>1, <2>3, <1>5 DEF Informed, NoHeld
  <2> QED  BY <2>2, <2>3
<1>11. TronInv'
  BY <1>4, <1>5 DEF IInv, TronInv, OnWire, chainVars
<1> QED  BY <1>3, <1>6, <1>8, <1>9, <1>10, <1>11 DEF IInv

\* The three writes at the end of executePayout.
LEMMA WriteSteps ==
  ASSUME TypeOK, IInv, NEW e \in Executors,
         BookFailure(e) \/ WriteSent(e) \/ WatchReceipt(e)
  PROVE  IInv'
<1>i. Informed(e) /\ stamped[on[e]] \in BOOLEAN /\ bytes[e] \in Slots \cup {None}
  <2>1. pc[e] # "idle"
    BY DEF BookFailure, WriteSent, WatchReceipt
  <2> QED  BY <2>1 DEF IInv, StepInv, IdleInv, TypeOK
<1> USE DEF payVars
<1>1. CASE BookFailure(e)
  <2> DEFINE st == IF stamped[on[e]] THEN "unresolved" ELSE "failed"
  <2>1. /\ st \in {"failed", "unresolved", "sent", "confirmed"}
        /\ st = "failed" <=> ~stamped[on[e]]
        /\ st # "confirmed"
    BY <1>i
  <2>2. status' = [status EXCEPT ![on[e]] = st] /\ pc[e] = "book" /\ Leave(e)
    BY <1>1 DEF BookFailure
  <2>3. UNCHANGED <<payment, stamped, signed, settleDone, chainVars>>
    BY <1>1 DEF BookFailure
  <2> HIDE DEF st
  <2> QED  BY <2>1, <2>2, <2>3, WritingKeeps
<1>2. CASE WriteSent(e)
  BY <1>2, <1>i, WritingKeeps DEF WriteSent, Informed
<1>3. CASE WatchReceipt(e)
  <2>1. CASE status' = status
    BY <1>3, <2>1, LeavingKeeps DEF WatchReceipt, rowVars
  <2>2. CASE /\ mined[bytes[e]] = on[e]
             /\ status' = [status EXCEPT ![on[e]] = "confirmed"]
    BY <1>3, <1>i, <2>2, WritingKeeps DEF WatchReceipt, Informed
  <2> QED  BY <1>3, <2>1, <2>2 DEF WatchReceipt
<1> QED  BY <1>1, <1>2, <1>3

-----------------------------------------------------------------------------
(* Executors: steps that stamp the row, and the broadcast.                   *)

\* The one executor of an unstamped row stamps it, with its bytes where the
\* chain has any.
LEMMA StampingKeeps ==
  ASSUME TypeOK, IInv, NEW e \in Executors, NEW p \in Payouts, on[e] = p,
         pc[e] \in {"locked", "persist"}, ~stamped[p],
         NEW l \in {"send", "unlock"}, NEW b \in Slots \cup {None},
         Goto(e, l), UNCHANGED <<on, held, bytes>>,
         \A f \in Executors \ {e} : outcome'[f] = outcome[f],
         l = "unlock" => outcome'[e] = "err",
         stamped' = [stamped EXCEPT ![p] = TRUE],
         signed' = [signed EXCEPT ![p] = b],
         b = None <=> Kind = "tron",
         Kind # "tron" => b = bytes[e],
         UNCHANGED <<status, payment, settleDone, chainVars>>
  PROVE  IInv'
<1>t. /\ pc \in [Executors -> PCs]
      /\ status \in [Payouts -> Statuses]
      /\ stamped \in [Payouts -> BOOLEAN]
      /\ signed \in [Payouts -> Slots \cup {None}]
  BY DEF TypeOK
<1>1. /\ stamped'[p] /\ signed'[p] = b
      /\ \A q \in Payouts \ {p} : stamped'[q] = stamped[q] /\ signed'[q] = signed[q]
  BY <1>t
<1>2. pc'[e] = l /\ \A f \in Executors \ {e} : pc'[f] = pc[f]
  BY <1>t DEF Goto
<1>3. Busy(e, p) /\ signed[p] = None
  BY DEF IInv, BytesInv, Busy
<1>4. \A f \in Executors : Busy(f, p) => f = e
  BY <1>3 DEF IInv, SoleInv
<1>5. IdleInv'
  BY <1>2 DEF IInv, IdleInv
<1>6. \A f \in Executors, q \in Payouts : Busy(f, q)' => Busy(f, q)
  BY <1>2 DEF Busy
<1>7. StatusInv'
  BY <1>1, <1>3, <1>6 DEF IInv, StatusInv
<1>8. BytesInv'
  BY <1>1 DEF IInv, BytesInv
<1>9. SoleInv'
  BY <1>1, <1>6 DEF IInv, SoleInv
<1>10. StepInv'
  <2> SUFFICES ASSUME NEW f \in Executors  PROVE Informed(f)'
    BY DEF StepInv
  <2>1. Informed(f) /\ on[f] \in Payouts \cup {None}
    BY DEF IInv, StepInv, TypeOK
  <2>2. CASE f = e
    <3>1. held[e].signed = None
      BY <2>1, <2>2, <1>3 DEF Informed
    <3>2. ~held[e].stamped
      BY <2>1, <2>2 DEF Informed
    <3> QED  BY <2>2, <3>1, <3>2, <1>1, <1>2 DEF Informed
  <2>3. CASE f # e /\ on[f] = p
    <3>1. pc[f] = "claim" /\ held[f] = NoHeld
      BY <2>3, <1>4, PayoutAssumption DEF Busy, IInv, IdleInv
    <3> QED  BY <2>3, <3>1, <1>2 DEF Informed, NoHeld
  <2>4. CASE f # e /\ on[f] # p
    <3>1. CASE on[f] = None
      <4>1. pc[f] = "idle" /\ held[f] = NoHeld
        BY <3>1 DEF IInv, IdleInv
      <4> QED  BY <2>4, <4>1, <1>2 DEF Informed, NoHeld
    <3>2. CASE on[f] \in Payouts \ {p}
      BY <2>1, <2>4, <3>2, <1>1, <1>2 DEF Informed
    <3> QED  BY <2>1, <2>4, <3>1, <3>2
  <2> QED  BY <2>2, <2>3, <2>4
<1>11. \A s \in Slots : ~OnWire(p, s)
  BY DEF IInv, WireInv
<1>12. WireInv'
  BY <1>1, <1>11 DEF IInv, WireInv, OnWire, chainVars
<1>13. TronInv'
  <2> SUFFICES ASSUME Kind = "tron"  PROVE TronInv'
    BY DEF TronInv
  <2>1. \A f \in Executors \ {e} : on[f] = p => pc[f] # "send"
    BY <1>4 DEF Busy
  <2> QED  BY <2>1, <1>2, <1>11 DEF IInv, TronInv, OnWire, chainVars
<1>14. IndexInv'
  BY DEF IInv, IndexInv, Active
<1>15. SettledIsHeld' /\ ConfirmedLanded'
  BY <1>1 DEF IInv, SettledIsHeld, ConfirmedLanded, chainVars
<1> QED
  BY <1>5, <1>7, <1>8, <1>9, <1>10, <1>12, <1>13, <1>14, <1>15 DEF IInv

\* persistPrepared, its failure, and markAttempted on Tron.
LEMMA StampSteps ==
  ASSUME TypeOK, IInv, NEW e \in Executors,
         PersistPrepared(e) \/ PersistFails(e) \/ MarkAttempted(e)
         \/ MarkAttemptedFails(e)
  PROVE  IInv'
<1>t. /\ signed \in [Payouts -> Slots \cup {None}]
      /\ outcome \in [Executors -> {"none", "ok", "err"}]
      /\ bytes \in [Executors -> Slots \cup {None}]
  BY DEF TypeOK
<1>i. Informed(e) /\ on[e] \in Payouts
  <2>1. pc[e] # "idle"
    BY DEF PersistPrepared, PersistFails, MarkAttempted, MarkAttemptedFails
  <2> QED  BY <2>1 DEF IInv, StepInv, IdleInv, TypeOK
<1> USE DEF payVars
<1>1. CASE PersistPrepared(e)
  BY <1>1, <1>i, <1>t, StampingKeeps DEF PersistPrepared, Informed
<1>2. CASE PersistFails(e)
  <2>1. /\ outcome'[e] = "err"
        /\ \A f \in Executors \ {e} : outcome'[f] = outcome[f]
    BY <1>2, <1>t DEF PersistFails, Unlocking
  <2>2. CASE signed' = [signed EXCEPT ![on[e]] = bytes[e]]
             /\ stamped' = [stamped EXCEPT ![on[e]] = TRUE]
    BY <1>2, <1>i, <1>t, <2>1, <2>2, StampingKeeps DEF PersistFails, Informed, Unlocking
  <2>3. CASE UNCHANGED <<signed, stamped>>
    <3>1. pc'[e] = "unlock"
      BY <1>2 DEF PersistFails, Unlocking, Goto, TypeOK
    <3>2. Informed(e)'
      BY <1>2, <1>i, <2>1, <2>3, <3>1 DEF PersistFails, Informed
    <3>3. UNCHANGED <<rowVars, settleDone, chainVars, on, held, bytes>>
      BY <1>2, <2>3 DEF PersistFails, rowVars
    <3> QED
      BY <1>2, <2>1, <3>2, <3>3, AdvancingKeeps DEF PersistFails, Unlocking, PCs, Section
  <2> QED  BY <1>2, <2>2, <2>3 DEF PersistFails
<1>3. CASE MarkAttempted(e)
  <2>1. signed[on[e]] = None /\ ~stamped[on[e]]
    BY <1>3, <1>i DEF MarkAttempted, Informed, IInv, BytesInv
  <2>2. signed' = [signed EXCEPT ![on[e]] = None]
    BY <1>3, <1>t, <2>1 DEF MarkAttempted
  <2> QED
    BY <1>3, <1>i, <2>1, <2>2, StampingKeeps DEF MarkAttempted
<1>4. CASE MarkAttemptedFails(e)
  <2>1. signed[on[e]] = None /\ ~stamped[on[e]]
    BY <1>4, <1>i DEF MarkAttemptedFails, Informed, IInv, BytesInv
  <2>2. /\ outcome'[e] = "err"
        /\ \A f \in Executors \ {e} : outcome'[f] = outcome[f]
    BY <1>4, <1>t DEF MarkAttemptedFails, Unlocking
  <2>3. CASE stamped' = [stamped EXCEPT ![on[e]] = TRUE]
    <3>1. signed' = [signed EXCEPT ![on[e]] = None]
      BY <1>4, <1>t, <2>1 DEF MarkAttemptedFails
    <3> QED
      BY <1>4, <1>i, <2>1, <2>2, <2>3, <3>1, StampingKeeps DEF MarkAttemptedFails, Unlocking
  <2>4. CASE UNCHANGED stamped
    <3>1. pc'[e] = "unlock"
      BY <1>4 DEF MarkAttemptedFails, Unlocking, Goto, TypeOK
    <3>2. Informed(e)'
      BY <1>4, <1>i, <2>2, <2>4, <3>1 DEF MarkAttemptedFails, Informed
    <3>3. UNCHANGED <<rowVars, settleDone, chainVars, on, held, bytes>>
      BY <1>4, <2>4 DEF MarkAttemptedFails, rowVars
    <3> QED
      BY <1>4, <2>2, <3>2, <3>3, AdvancingKeeps DEF MarkAttemptedFails, Unlocking, PCs, Section
  <2> QED  BY <1>4, <2>3, <2>4 DEF MarkAttemptedFails
<1> QED  BY <1>1, <1>2, <1>3, <1>4

\* What reaches the node is what the row is stamped with.
LEMMA BroadcastKeeps ==
  ASSUME TypeOK, IInv, NEW e \in Executors, Broadcast(e)
  PROVE  IInv'
<1>t. /\ pc \in [Executors -> PCs]
      /\ pool \in [Slots -> Payouts \cup {None}]
      /\ bytes \in [Executors -> Slots \cup {None}]
      /\ outcome \in [Executors -> {"none", "ok", "err"}]
  BY DEF TypeOK
<1>1. PICK s \in Slots :
        /\ IF Kind = "tron" THEN NextSlot(s) ELSE s = bytes[e]
        /\ bytes' = [bytes EXCEPT ![e] = s]
        /\ Accepts(s, on[e]) \/ pool' = pool
  BY DEF Broadcast, AlreadyThere, Refuses
<1>2. on[e] \in Payouts /\ pc[e] = "send" /\ Informed(e)
  BY DEF Broadcast, IInv, IdleInv, StepInv, TypeOK
<1>3. UNCHANGED <<rowVars, settleDone, on, held, mined>> /\ Goto(e, "unlock")
  BY DEF Broadcast, Unlocking, payVars
<1>4. /\ pc'[e] = "unlock"
      /\ \A f \in Executors \ {e} :
           pc'[f] = pc[f] /\ bytes'[f] = bytes[f] /\ outcome'[f] = outcome[f]
  BY <1>t, <1>1, <1>3 DEF Goto, Broadcast, Unlocking
<1>5. stamped[on[e]] /\ (Kind # "tron" => signed[on[e]] = s)
  BY <1>1, <1>2 DEF Informed
<1>6. \A q \in Payouts, t \in Slots :
        OnWire(q, t)' => OnWire(q, t) \/ (q = on[e] /\ t = s)
  BY <1>1, <1>3, <1>t DEF OnWire, Accepts
<1>7. \A t \in Slots : pool'[t] # None => mined[t] = None
  BY <1>1, <1>t DEF Accepts, IInv, WireInv
<1>8. IdleInv'
  BY <1>2, <1>3, <1>4 DEF IInv, IdleInv
<1>9. \A f \in Executors, q \in Payouts : Busy(f, q)' => Busy(f, q)
  BY <1>2, <1>3, <1>4 DEF Busy
<1>10. StatusInv' /\ BytesInv' /\ SoleInv'
  BY <1>3, <1>9 DEF IInv, StatusInv, BytesInv, SoleInv, rowVars
<1>11. StepInv'
  <2> SUFFICES ASSUME NEW f \in Executors  PROVE Informed(f)'
    BY DEF StepInv
  <2>1. Informed(f)
    BY DEF IInv, StepInv
  <2>2. CASE f = e
    <3>1. bytes'[e] = s /\ s # None /\ pc[e] = "send"
      BY <1>1, <1>2, <1>t, PayoutAssumption
    <3>2. /\ on'[e] = on[e] /\ held'[e] = held[e] /\ signed' = signed /\ stamped' = stamped
      BY <1>3 DEF rowVars
    <3> QED  BY <1>4, <1>5, <2>1, <2>2, <3>1, <3>2 DEF Informed
  <2>3. CASE f # e
    BY <1>3, <1>4, <2>1, <2>3 DEF Informed, rowVars
  <2> QED  BY <2>2, <2>3
<1>12. WireInv'
  BY <1>3, <1>5, <1>6, <1>7 DEF IInv, WireInv, rowVars
<1>13. TronInv'
  <2> SUFFICES ASSUME Kind = "tron"  PROVE TronInv'
    BY DEF TronInv
  <2>1. \A t \in Slots : ~OnWire(on[e], t)
    BY <1>2 DEF IInv, TronInv
  <2>2. \A f \in Executors \ {e} : pc[f] = "send" => on[f] # on[e]
    BY <1>2 DEF IInv, TronInv
  <2> QED  BY <1>3, <1>4, <1>6, <2>1, <2>2 DEF IInv, TronInv
<1>14. IndexInv' /\ SettledIsHeld' /\ ConfirmedLanded'
  BY <1>3 DEF IInv, IndexInv, Active, SettledIsHeld, ConfirmedLanded, rowVars
<1> QED  BY <1>8, <1>10, <1>11, <1>12, <1>13, <1>14 DEF IInv

-----------------------------------------------------------------------------
(* New rows, the settle tick and the chain.                                  *)

\* A new row is unstamped, idle and alone on its payment.
LEMMA InsertKeeps ==
  ASSUME TypeOK, IInv, NEW r \in Requesters, NEW p \in Payouts, InsertPayout(r, p)
  PROVE  IInv'
<1> DEFINE x == ask[r].payment
<1>t. /\ status \in [Payouts -> Statuses]
      /\ payment \in [Payouts -> Payments \cup {None}]
  BY DEF TypeOK
<1>1. /\ status[p] = "none" /\ ~Conflict(p, x)
      /\ status'[p] = "pending" /\ payment'[p] = x
      /\ \A q \in Payouts \ {p} : status'[q] = status[q] /\ payment'[q] = payment[q]
      /\ UNCHANGED <<stamped, signed, settleDone, execVars, chainVars>>
  BY <1>t DEF InsertPayout, payVars
<1>2. IdleInv' /\ BytesInv' /\ SoleInv' /\ StepInv' /\ WireInv' /\ TronInv'
  BY <1>1 DEF IInv, IdleInv, BytesInv, SoleInv, StepInv, Informed, WireInv, TronInv,
              OnWire, Busy, execVars, chainVars
<1>3. StatusInv'
  BY <1>1 DEF IInv, StatusInv, Busy, execVars
<1>4. IndexInv'
  <2> SUFFICES ASSUME NEW y \in Payments, NEW q1 \in Active(y)', NEW q2 \in Active(y)'
               PROVE  q1 = q2
    BY DEF IndexInv
  <2>1. \A z \in {q1, q2} : z \in Payouts /\ (z \in Active(y) \/ (z = p /\ x = y))
    BY <1>1 DEF Active
  <2>2. CASE p \notin {q1, q2}
    BY <2>1, <2>2 DEF IInv, IndexInv
  <2>3. CASE p \in {q1, q2}
    <3>1. p \notin Active(y)
      BY <1>1 DEF Active
    <3>2. Active(y) = {}
      BY <1>1, <2>1, <2>3, <3>1, PayoutAssumption DEF Conflict
    <3> QED  BY <2>1, <3>2
  <2> QED  BY <2>2, <2>3
<1>5. SettledIsHeld'
  BY <1>1 DEF IInv, SettledIsHeld, Reserving
<1>6. ConfirmedLanded'
  BY <1>1 DEF IInv, ConfirmedLanded, chainVars
<1> QED  BY <1>2, <1>3, <1>4, <1>5, <1>6 DEF IInv

\* The settle tick marks a payment only when its payout is stamped.
LEMMA MarkSettledKeeps ==
  ASSUME TypeOK, IInv, NEW x \in Payments, MarkSettled(x)
  PROVE  IInv'
<1>1. UNCHANGED <<rowVars, execVars, chainVars>> /\ settleDone' = settleDone \cup {x}
  BY DEF MarkSettled
<1>2. /\ IdleInv' /\ StatusInv' /\ BytesInv' /\ SoleInv' /\ StepInv' /\ WireInv'
      /\ TronInv' /\ IndexInv' /\ ConfirmedLanded'
  BY <1>1 DEF IInv, IdleInv, StatusInv, BytesInv, SoleInv, StepInv, Informed, WireInv,
              TronInv, IndexInv, ConfirmedLanded, Active, OnWire, Busy, rowVars, execVars,
              chainVars
<1>3. \E p \in Payouts : payment[p] = x /\ stamped[p] /\ status[p] \in Reserving
  <2>1. PICK p \in Payouts :
          /\ payment[p] = x
          /\ status[p] \in {"sent", "confirmed", "unresolved"} \/ stamped[p]
    BY DEF MarkSettled
  <2>2. stamped[p]
    BY <2>1 DEF IInv, StatusInv
  <2>3. status[p] \in Reserving
    BY <2>2 DEF TypeOK, IInv, StatusInv, Reserving, Statuses
  <2> QED  BY <2>1, <2>2, <2>3
<1>4. SettledIsHeld'
  BY <1>1, <1>3 DEF IInv, SettledIsHeld, rowVars
<1> QED  BY <1>2, <1>4 DEF IInv

\* A mined transaction was in the pool at the slot it was signed for.
LEMMA MineKeeps ==
  ASSUME TypeOK, IInv, NEW s \in Slots, Mine(s)
  PROVE  IInv'
<1>1. /\ UNCHANGED <<rowVars, settleDone, execVars>>
      /\ pool[s] # None /\ mined[s] = None
      /\ pool'[s] = None /\ mined'[s] = pool[s]
      /\ \A t \in Slots \ {s} : pool'[t] = pool[t] /\ mined'[t] = mined[t]
  BY DEF Mine, IInv, WireInv, TypeOK, payVars
<1>2. \A p \in Payouts, t \in Slots : OnWire(p, t)' => OnWire(p, t)
  BY <1>1, PayoutAssumption DEF OnWire
<1>3. IdleInv' /\ StatusInv' /\ BytesInv' /\ SoleInv' /\ StepInv' /\ IndexInv' /\ SettledIsHeld'
  BY <1>1 DEF IInv, IdleInv, StatusInv, BytesInv, SoleInv, StepInv, Informed, IndexInv,
              SettledIsHeld, Active, Busy, rowVars, execVars
<1>4. WireInv'
  BY <1>1, <1>2 DEF IInv, WireInv, rowVars
<1>5. TronInv'
  BY <1>1, <1>2 DEF IInv, TronInv, execVars
<1>6. ConfirmedLanded'
  BY <1>1, PayoutAssumption DEF IInv, ConfirmedLanded, rowVars
<1> QED  BY <1>3, <1>4, <1>5, <1>6 DEF IInv

\* Every step keeps the invariant.
LEMMA InvStep == TypeOK /\ IInv /\ [Next]_vars => IInv'
<1> SUFFICES ASSUME TypeOK, IInv, [Next]_vars  PROVE IInv'
  OBVIOUS
<1> USE DEF payVars, reqVars
<1>1. ASSUME NEW r \in Requesters, Request(r)  PROVE IInv'
  <2>1. ASSUME NEW p \in Payouts, InsertPayout(r, p)  PROVE IInv'
    BY <2>1, InsertKeeps
  <2>2. CASE \/ \E x \in Payments : SweptPayout(r, x) \/ RedrivePayout(r, x)
             \/ ManualPayout(r) \/ CheckBalance(r) \/ RequestRollback(r)
             \/ EnqueuePayout(r)
    <3>1. UNCHANGED <<rowVars, settleDone, execVars, chainVars>>
      BY <2>2 DEF SweptPayout, RedrivePayout, ManualPayout, Call, CheckBalance,
                  RequestRollback, EnqueuePayout
    <3> QED  BY <3>1, NothingChanges
  <2> QED  BY <1>1, <2>1, <2>2 DEF Request
<1>2. ASSUME NEW e \in Executors, Execute(e)  PROVE IInv'
  <2>1. ASSUME NEW p \in Payouts, StartJob(e, p)  PROVE IInv'
    BY <2>1, StartJobKeeps
  <2>2. CASE Claim(e)
    BY <2>2, ClaimKeeps
  <2>3. CASE \/ ClaimRefused(e) \/ ClaimConflict(e) \/ BookFailureFails(e)
             \/ WriteSentFails(e) \/ Crash(e)
    <3>1. Leave(e) /\ UNCHANGED <<rowVars, settleDone, chainVars>>
      BY <2>3 DEF ClaimRefused, ClaimConflict, BookFailureFails, WriteSentFails, Crash
    <3> QED  BY <3>1, LeavingKeeps
  <2>4. CASE \/ AcquireLock(e) \/ AcquireTimeout(e) \/ Replay(e) \/ Prepare(e)
             \/ PrepareFails(e) \/ ReleaseLock(e)
    BY <2>4, AdvanceSteps
  <2>5. CASE PersistPrepared(e) \/ PersistFails(e) \/ MarkAttempted(e)
             \/ MarkAttemptedFails(e)
    BY <2>5, StampSteps
  <2>6. CASE Broadcast(e)
    BY <2>6, BroadcastKeeps
  <2>7. CASE BookFailure(e) \/ WriteSent(e) \/ WatchReceipt(e)
    BY <2>7, WriteSteps
  <2> QED  BY <1>2, <2>1, <2>2, <2>3, <2>4, <2>5, <2>6, <2>7 DEF Execute
<1>3. ASSUME NEW x \in Payments, MarkSettled(x)  PROVE IInv'
  BY <1>3, MarkSettledKeeps
<1>4. ASSUME NEW p \in Payouts, Redeliver(p)  PROVE IInv'
  BY <1>4, NothingChanges DEF Redeliver
<1>5. CASE ExpireLease
  BY <1>5, NothingChanges DEF ExpireLease
<1>6. ASSUME NEW s \in Slots, Mine(s)  PROVE IInv'
  BY <1>6, MineKeeps
<1>7. CASE UNCHANGED vars
  BY <1>7, NothingChanges DEF vars
<1> QED  BY <1>1, <1>2, <1>3, <1>4, <1>5, <1>6, <1>7 DEF Next

-----------------------------------------------------------------------------
(* Theorems.                                                                 *)

\* The inductive invariant holds in every reachable state, of any number of
\* workers, rows and faults.
THEOREM Invariance == Spec => [](TypeOK /\ IInv)
<1>1. Init => TypeOK /\ IInv
  BY InitType, InitIInv
<1>2. TypeOK /\ IInv /\ [Next]_vars => (TypeOK /\ IInv)'
  BY TypeStep, InvStep DEF IInv
<1> QED  BY <1>1, <1>2, PTL DEF Spec

\* Every variable keeps its type, in every behaviour.
THEOREM TypeCorrect == Spec => []TypeOK
BY Invariance, PTL

\* No payout row ever moves money twice, whatever its workers do.
THEOREM PaidAtMostOnceHolds == Spec => []PaidAtMostOnce
<1>1. TypeOK /\ IInv => PaidAtMostOnce
  <2> SUFFICES ASSUME TypeOK, IInv, NEW s \in Slots, NEW t \in Slots,
                      mined[s] # None, mined[s] = mined[t]
               PROVE  s = t
    BY DEF PaidAtMostOnce
  <2>1. mined[s] \in Payouts /\ OnWire(mined[s], s) /\ OnWire(mined[s], t)
    BY DEF TypeOK, OnWire
  <2> QED  BY <2>1 DEF IInv, WireInv, TronInv
<1> QED  BY <1>1, Invariance, PTL

\* No payment is ever paid out by two transfers, of one row or of two.
THEOREM OnePayoutPerPaymentHolds == Spec => []OnePayoutPerPayment
<1>1. TypeOK /\ IInv => OnePayoutPerPayment
  <2> SUFFICES ASSUME TypeOK, IInv, NEW s \in Slots, NEW t \in Slots,
                      mined[s] # None, mined[t] # None, payment[mined[s]] # None,
                      payment[mined[s]] = payment[mined[t]]
               PROVE  s = t
    BY DEF OnePayoutPerPayment
  <2>1. /\ mined[s] \in Payouts /\ OnWire(mined[s], s)
        /\ mined[t] \in Payouts /\ OnWire(mined[t], t)
    BY DEF TypeOK, OnWire
  <2>2. stamped[mined[s]] /\ stamped[mined[t]]
    BY <2>1 DEF IInv, WireInv
  <2>3. /\ mined[s] \in Active(payment[mined[s]])
        /\ mined[t] \in Active(payment[mined[s]])
    BY <2>1, <2>2 DEF IInv, StatusInv, Active
  <2>4. payment[mined[s]] \in Payments
    BY <2>1 DEF TypeOK
  <2>5. mined[s] = mined[t]
    BY <2>3, <2>4 DEF IInv, IndexInv
  <2> QED  BY <2>1, <2>5 DEF IInv, WireInv, TronInv
<1> QED  BY <1>1, Invariance, PTL

\* 'failed', which releases the balance, means that nothing was sent or is
\* about to be.
THEOREM FailedNeverOnWireHolds == Spec => []FailedNeverOnWire
<1>1. TypeOK /\ IInv => FailedNeverOnWire
  <2> SUFFICES ASSUME TypeOK, IInv, NEW p \in Payouts, status[p] = "failed"
               PROVE  /\ \A s \in Slots : pool[s] # p /\ mined[s] # p
                      /\ \A e \in Executors : on[e] = p => pc[e] \in {"claim", "idle"}
    BY DEF FailedNeverOnWire
  <2>1. ~stamped[p] /\ \A e \in Executors : ~Busy(e, p)
    BY DEF IInv, StatusInv
  <2> QED  BY <2>1 DEF Busy, IInv, WireInv, OnWire
<1> QED  BY <1>1, Invariance, PTL

\* The settle tick never stops looking at a payment whose payout could still
\* be released.
THEOREM SettledIsHeldHolds == Spec => []SettledIsHeld
BY Invariance, PTL DEF IInv

\* A row reported as confirmed has its own transfer in a block.
THEOREM ConfirmedLandedHolds == Spec => []ConfirmedLanded
BY Invariance, PTL DEF IInv

\* A row is never signed a second time.
THEOREM StampHasBytesHolds == Spec => []StampHasBytes
<1>1. TypeOK /\ IInv => StampHasBytes
  BY DEF StampHasBytes, IInv, BytesInv, StepInv, Informed
<1> QED  BY <1>1, Invariance, PTL

\* A step releases no row that was stamped and changes no stored bytes.
\* No step takes a stamp back, changes stamped bytes or releases a stamped row.
LEMMA StampKept == TypeOK /\ IInv /\ [Next]_vars /\ TypeOK' /\ IInv' => [StampStays]_vars
<1> SUFFICES ASSUME TypeOK, IInv, Next, TypeOK', IInv', NEW p \in Payouts, stamped[p]
             PROVE  stamped'[p] /\ signed'[p] = signed[p] /\ status'[p] \in Reserving
  BY DEF StampStays
<1>1. stamped'[p] /\ signed'[p] = signed[p]
  <2>1. CASE UNCHANGED <<stamped, signed>>
    BY <2>1
  <2>2. ASSUME NEW e \in Executors,
               PersistPrepared(e) \/ PersistFails(e) \/ MarkAttempted(e)
               \/ MarkAttemptedFails(e)
        PROVE  stamped'[p] /\ signed'[p] = signed[p]
    <3>1. Informed(e)
      BY DEF IInv, StepInv
    <3>2. CASE PersistPrepared(e)
      BY <3>1, <3>2 DEF PersistPrepared, Informed, TypeOK
    <3>3. CASE PersistFails(e)
      BY <3>1, <3>3 DEF PersistFails, Informed, TypeOK
    <3>4. CASE MarkAttempted(e) \/ MarkAttemptedFails(e)
      BY <3>4 DEF MarkAttempted, MarkAttemptedFails, TypeOK
    <3> QED  BY <2>2, <3>2, <3>3, <3>4
  <2>3. ASSUME NEW r \in Requesters, Request(r)  PROVE UNCHANGED <<stamped, signed>>
    BY <2>3 DEF Request, SweptPayout, RedrivePayout, ManualPayout, Call, CheckBalance,
                RequestRollback, EnqueuePayout, InsertPayout, rowVars
  <2>4. ASSUME NEW e \in Executors, Execute(e)
        PROVE  \/ UNCHANGED <<stamped, signed>>
               \/ PersistPrepared(e) \/ PersistFails(e) \/ MarkAttempted(e)
               \/ MarkAttemptedFails(e)
    BY <2>4 DEF Execute, StartJob, Claim, ClaimRefused, ClaimConflict, AcquireLock,
                AcquireTimeout, Replay, Prepare, PrepareFails, Broadcast, ReleaseLock,
                BookFailure, BookFailureFails, WriteSent, WriteSentFails, WatchReceipt,
                Crash, rowVars
  <2>5. CASE \/ \E x \in Payments : MarkSettled(x)
             \/ \E q \in Payouts : Redeliver(q)
             \/ ExpireLease
             \/ \E s \in Slots : Mine(s)
    BY <2>5 DEF MarkSettled, Redeliver, ExpireLease, Mine, rowVars
  <2> QED  BY <2>1, <2>2, <2>3, <2>4, <2>5 DEF Next
<1>2. status'[p] \in Reserving
  BY <1>1 DEF IInv, StatusInv, TypeOK, Statuses, Reserving
<1> QED  BY <1>1, <1>2

\* In no behaviour does a row that was stamped lose the stamp, its bytes or its hold
\* on the balance.
THEOREM BroadcastIsFinalHolds == Spec => BroadcastIsFinal
<1>1. TypeOK /\ IInv /\ [Next]_vars => (TypeOK /\ IInv)'
  BY TypeStep, InvStep DEF IInv
<1> QED  BY <1>1, StampKept, Invariance, PTL DEF Spec, BroadcastIsFinal

-----------------------------------------------------------------------------
(* Payout implements PayoutPromise: every step of the workers, the requests, *)
(* the queue and the chain is a step of the promise, or none.                *)

\* No row exists in the beginning, and nothing has landed.
LEMMA PromiseInit == Init => Promise!Init
<1> SUFFICES ASSUME Init  PROVE Promise!Init
  OBVIOUS
<1>1. Standing = [p \in Payouts |-> "none"]
  BY DEF Init, Standing, Place
<1>2. Landings = [p \in Payouts |-> 0]
  <2> SUFFICES ASSUME NEW p \in Payouts
               PROVE  Cardinality({s \in Slots : mined[s] = p}) = 0
    BY DEF Landings
  <2>1. {s \in Slots : mined[s] = p} = {}
    BY PayoutAssumption DEF Init
  <2> QED  BY <2>1, FS_EmptySet
<1> QED  BY <1>1, <1>2 DEF Init, Promise!Init

\* The standing of a row, and of a row in the next state.
LEMMA StandingOf ==
  ASSUME NEW p \in Payouts
  PROVE  /\ Standing[p] = Place(status[p], stamped[p])
         /\ Standing'[p] = Place(status'[p], stamped'[p])
BY DEF Standing

\* A step that changes one row changes its standing and no other.
LEMMA OneRow ==
  ASSUME NEW p \in Payouts,
         \A q \in Payouts \ {p} : status'[q] = status[q] /\ stamped'[q] = stamped[q]
  PROVE  Standing' = [Standing EXCEPT ![p] = Place(status'[p], stamped'[p])]
BY DEF Standing

\* A step that changes no standing, no purpose and no landing is a stutter.
LEMMA Stutters ==
  ASSUME UNCHANGED <<payment, mined>>,
         \A p \in Payouts : Place(status'[p], stamped'[p]) = Place(status[p], stamped[p])
  PROVE  UNCHANGED Promise!vars
<1>1. Standing' = Standing
  BY DEF Standing
<1>2. Landings' = Landings
  BY DEF Landings
<1> QED  BY <1>1, <1>2 DEF Promise!vars

\* InsertPayout requests the row: the unique index keeps it sole.
LEMMA InsertRequests ==
  ASSUME TypeOK, IInv, NEW r \in Requesters, NEW p \in Payouts, InsertPayout(r, p)
  PROVE  Promise!Request(p, ask[r].payment) /\ ask[r].payment \in Payments \cup {None}
<1> DEFINE x == ask[r].payment
<1>1. x \in Payments \cup {None}
  BY DEF TypeOK, Asks
<1>2. status[p] = "none" /\ ~stamped[p] /\ ~Conflict(p, x)
  BY DEF InsertPayout, IInv, StatusInv
<1>3. Standing[p] = "none"
  BY <1>2, StandingOf DEF Place
<1>4. Standing' = [Standing EXCEPT ![p] = "reserved"]
  <2>1. status'[p] = "pending" /\ ~stamped'[p]
    BY <1>2 DEF InsertPayout, TypeOK
  <2>2. \A q \in Payouts \ {p} : status'[q] = status[q] /\ stamped'[q] = stamped[q]
    BY DEF InsertPayout, TypeOK
  <2> QED  BY <2>1, <2>2, OneRow DEF Place
<1>5. payment' = [payment EXCEPT ![p] = x]
  BY DEF InsertPayout
<1>6. Landings' = Landings
  BY DEF InsertPayout, chainVars, Landings
<1>7. Promise!Sole(p, x)
  <2> SUFFICES ASSUME NEW q \in Payouts \ {p}, x # None, payment[q] = x
               PROVE  Standing[q] \notin {"reserved", "committed"}
    BY DEF Promise!Sole
  <2>1. status[q] \in {"none", "failed"}
    BY <1>2 DEF Conflict, Active
  <2> QED  BY <2>1, StandingOf DEF Place
<1> QED  BY <1>1, <1>3, <1>4, <1>5, <1>6, <1>7 DEF Promise!Request

\* The claim of a failed row reserves it again; every other claim is a stutter.
LEMMA ClaimRetries ==
  ASSUME TypeOK, IInv, NEW e \in Executors, Claim(e)
  PROVE  Promise!Retry(on[e]) \/ UNCHANGED Promise!vars
<1> DEFINE p == on[e]
<1>1. p \in Payouts
  BY DEF Claim, TypeOK, IInv, IdleInv
<1>2. status' = [status EXCEPT ![p] = "processing"] /\ UNCHANGED stamped
  BY DEF Claim
<1>3. ~Conflict(p, payment[p]) /\ UNCHANGED <<payment, mined>>
  BY DEF Claim, chainVars
<1>4. status[p] # "none"
  BY DEF Claim, Claimable
<1>5. status'[p] = "processing"
  BY <1>1, <1>2 DEF TypeOK
<1>6. \A q \in Payouts \ {p} : status'[q] = status[q] /\ stamped'[q] = stamped[q]
  BY <1>2 DEF TypeOK
<1>7. CASE status[p] # "failed"
  <2>1. \A q \in Payouts : Place(status'[q], stamped'[q]) = Place(status[q], stamped[q])
    BY <1>2, <1>4, <1>5, <1>6, <1>7 DEF Place
  <2> QED  BY <1>3, <2>1, Stutters
<1>8. CASE status[p] = "failed"
  <2>1. ~stamped[p]
    BY <1>1, <1>8 DEF IInv, StatusInv
  <2>2. Standing[p] = "released"
    BY <1>1, <1>8, StandingOf DEF Place
  <2>3. Standing' = [Standing EXCEPT ![p] = "reserved"]
    BY <1>1, <1>2, <1>5, <1>6, <2>1, OneRow DEF Place
  <2>4. Landings' = Landings
    BY <1>3 DEF Landings
  <2>5. Promise!Sole(p, payment[p])
    <3> SUFFICES ASSUME NEW q \in Payouts \ {p}, payment[p] # None, payment[q] = payment[p]
                 PROVE  Standing[q] \notin {"reserved", "committed"}
      BY DEF Promise!Sole
    <3>1. status[q] \in {"none", "failed"}
      BY <1>3 DEF Conflict, Active
    <3> QED  BY <3>1, StandingOf DEF Place
  <2> QED  BY <1>3, <2>2, <2>3, <2>4, <2>5 DEF Promise!Retry
<1> QED  BY <1>7, <1>8

\* What executePayout writes afterwards releases an unstamped row, or nothing.
LEMMA WritesRelease ==
  ASSUME TypeOK, IInv, NEW e \in Executors,
         BookFailure(e) \/ WriteSent(e) \/ WatchReceipt(e)
  PROVE  Promise!Release(on[e]) \/ UNCHANGED Promise!vars
<1> DEFINE p == on[e]
<1>1. p \in Payouts /\ Busy(e, p)
  BY DEF BookFailure, WriteSent, WatchReceipt, TypeOK, IInv, IdleInv, Busy
<1>2. status[p] \notin {"none", "pending", "failed"}
  BY <1>1 DEF IInv, StatusInv
<1>3. UNCHANGED <<payment, stamped, mined>>
  BY DEF BookFailure, WriteSent, WatchReceipt, chainVars
<1>4. \A q \in Payouts \ {p} : status'[q] = status[q] /\ stamped'[q] = stamped[q]
  BY <1>3 DEF BookFailure, WriteSent, WatchReceipt, TypeOK
<1>5. CASE stamped[p]
  <2>1. status'[p] \notin {"none", "failed"}
    BY <1>1, <1>2, <1>5 DEF BookFailure, WriteSent, WatchReceipt, TypeOK
  <2>2. \A q \in Payouts : Place(status'[q], stamped'[q]) = Place(status[q], stamped[q])
    BY <1>2, <1>3, <1>4, <2>1 DEF Place
  <2> QED  BY <1>3, <2>2, Stutters
<1>6. CASE ~stamped[p]
  <2>1. BookFailure(e)
    BY <1>6 DEF WriteSent, WatchReceipt, IInv, StepInv, Informed
  <2>2. status'[p] = "failed"
    BY <1>1, <1>6, <2>1 DEF BookFailure, TypeOK
  <2>3. Standing[p] = "reserved"
    BY <1>1, <1>2, <1>6, StandingOf DEF Place
  <2>4. Standing' = [Standing EXCEPT ![p] = "released"]
    BY <1>1, <1>4, <2>2, OneRow DEF Place
  <2>5. Landings' = Landings
    BY <1>3 DEF Landings
  <2> QED  BY <1>3, <2>3, <2>4, <2>5 DEF Promise!Release
<1> QED  BY <1>5, <1>6

\* Stamping a row commits it, whether or not its caller learns of it.
LEMMA StampCommits ==
  ASSUME TypeOK, IInv, NEW e \in Executors,
         PersistPrepared(e) \/ PersistFails(e) \/ MarkAttempted(e)
         \/ MarkAttemptedFails(e)
  PROVE  Promise!Commit(on[e]) \/ UNCHANGED Promise!vars
<1> DEFINE p == on[e]
<1>1. p \in Payouts /\ Busy(e, p)
  BY DEF PersistPrepared, PersistFails, MarkAttempted, MarkAttemptedFails, TypeOK, IInv,
         IdleInv, Busy
<1>2. status[p] \notin {"none", "pending", "failed"}
  BY <1>1 DEF IInv, StatusInv
<1>3. UNCHANGED <<status, payment, mined>>
  BY DEF PersistPrepared, PersistFails, MarkAttempted, MarkAttemptedFails, chainVars
<1>4. \/ UNCHANGED stamped
      \/ stamped' = [stamped EXCEPT ![p] = TRUE]
  BY DEF PersistPrepared, PersistFails, MarkAttempted, MarkAttemptedFails
<1>5. CASE UNCHANGED stamped
  BY <1>3, <1>5, Stutters
<1>6. CASE stamped' = [stamped EXCEPT ![p] = TRUE]
  <2>1. stamped'[p] /\ \A q \in Payouts \ {p} : stamped'[q] = stamped[q]
    BY <1>1, <1>6 DEF TypeOK
  <2>2. CASE stamped[p]
    <3>1. \A q \in Payouts : Place(status'[q], stamped'[q]) = Place(status[q], stamped[q])
      BY <1>3, <2>1, <2>2 DEF Place
    <3> QED  BY <1>3, <3>1, Stutters
  <2>3. CASE ~stamped[p]
    <3>1. Standing[p] = "reserved"
      BY <1>1, <1>2, <2>3, StandingOf DEF Place
    <3>2. Standing' = [Standing EXCEPT ![p] = "committed"]
      BY <1>1, <1>2, <1>3, <2>1, OneRow DEF Place
    <3>3. Landings' = Landings
      BY <1>3 DEF Landings
    <3> QED  BY <1>3, <3>1, <3>2, <3>3 DEF Promise!Commit
  <2> QED  BY <2>2, <2>3
<1> QED  BY <1>4, <1>5, <1>6

\* A transaction that is mined is the first of its row: the row has one slot.
LEMMA MineLands ==
  ASSUME TypeOK, IInv, NEW s \in Slots, Mine(s)
  PROVE  pool[s] \in Payouts /\ Promise!Land(pool[s])
<1> DEFINE p == pool[s]
<1>1. p \in Payouts /\ OnWire(p, s) /\ mined[s] = None
  BY DEF Mine, TypeOK, OnWire, IInv, WireInv
<1>2. stamped[p] /\ status[p] \notin {"none", "failed"}
  BY <1>1 DEF IInv, WireInv, StatusInv
<1>3. \A t \in Slots : mined[t] # p
  <2> SUFFICES ASSUME NEW t \in Slots, mined[t] = p  PROVE FALSE
    OBVIOUS
  <2>1. OnWire(p, t)
    BY DEF OnWire
  <2>2. t = s
    BY <1>1, <2>1 DEF IInv, WireInv, TronInv
  <2> QED  BY <1>1, <2>2, PayoutAssumption
<1>4. mined' = [mined EXCEPT ![s] = p] /\ UNCHANGED <<status, payment, stamped>>
  BY DEF Mine, rowVars
<1>5. Landings[p] = 0
  <2>1. {t \in Slots : mined[t] = p} = {}
    BY <1>3
  <2>2. Landings[p] = Cardinality({t \in Slots : mined[t] = p})
    BY <1>1 DEF Landings
  <2> QED  BY <2>1, <2>2, FS_EmptySet
<1>6. Landings' = [Landings EXCEPT ![p] = 1]
  <2>1. \A t \in Slots : mined'[t] = IF t = s THEN p ELSE mined[t]
    BY <1>4 DEF TypeOK
  <2>2. {t \in Slots : mined'[t] = p} = {s}
    BY <1>3, <2>1
  <2>3. Cardinality({t \in Slots : mined'[t] = p}) = 1
    BY <2>2, FS_Singleton
  <2>4. \A q \in Payouts \ {p} :
          {t \in Slots : mined'[t] = q} = {t \in Slots : mined[t] = q}
    <3> SUFFICES ASSUME NEW q \in Payouts \ {p}, NEW t \in Slots
                 PROVE  mined'[t] = q <=> mined[t] = q
      OBVIOUS
    <3> QED  BY <1>1, <2>1, PayoutAssumption
  <2>5. \A q \in Payouts \ {p} : Landings'[q] = Landings[q]
    BY <2>4 DEF Landings
  <2>6. Landings'[p] = 1
    BY <1>1, <2>3 DEF Landings
  <2> QED  BY <2>5, <2>6 DEF Landings
<1>7. Standing' = Standing
  BY <1>4 DEF Standing
<1>8. Standing[p] = "committed"
  BY <1>1, <1>2, StandingOf DEF Place
<1> QED  BY <1>1, <1>4, <1>5, <1>6, <1>7, <1>8 DEF Promise!Land

\* Every step is a step of the promise or a stutter.
LEMMA PromiseStep == TypeOK /\ IInv /\ [Next]_vars => [Promise!Next]_(Promise!vars)
<1> SUFFICES ASSUME TypeOK, IInv, [Next]_vars
             PROVE  Promise!Next \/ UNCHANGED Promise!vars
  OBVIOUS
<1>0. ASSUME UNCHANGED <<status, payment, stamped, mined>>
      PROVE  UNCHANGED Promise!vars
  BY <1>0, Stutters
<1> USE DEF rowVars, chainVars
<1>1. ASSUME NEW r \in Requesters, Request(r)  PROVE Promise!Next \/ UNCHANGED Promise!vars
  <2>1. ASSUME NEW p \in Payouts, InsertPayout(r, p)  PROVE Promise!Next
    BY <2>1, InsertRequests DEF Promise!Next
  <2>2. CASE \/ \E x \in Payments : SweptPayout(r, x) \/ RedrivePayout(r, x)
             \/ ManualPayout(r) \/ CheckBalance(r) \/ RequestRollback(r)
             \/ EnqueuePayout(r)
    BY <1>0, <2>2 DEF SweptPayout, RedrivePayout, ManualPayout, Call, CheckBalance,
                      RequestRollback, EnqueuePayout
  <2> QED  BY <1>1, <2>1, <2>2 DEF Request
<1>2. ASSUME NEW e \in Executors, Execute(e)  PROVE Promise!Next \/ UNCHANGED Promise!vars
  <2>0. pc[e] # "idle" => on[e] \in Payouts
    BY DEF TypeOK, IInv, IdleInv
  <2>1. CASE Claim(e)
    BY <2>0, <2>1, ClaimRetries DEF Claim, Promise!Next
  <2>2. CASE BookFailure(e) \/ WriteSent(e) \/ WatchReceipt(e)
    BY <2>0, <2>2, WritesRelease DEF BookFailure, WriteSent, WatchReceipt, Promise!Next
  <2>3. CASE PersistPrepared(e) \/ PersistFails(e) \/ MarkAttempted(e)
             \/ MarkAttemptedFails(e)
    BY <2>0, <2>3, StampCommits DEF PersistPrepared, PersistFails, MarkAttempted,
                                    MarkAttemptedFails, Promise!Next
  <2>4. CASE \/ \E p \in Payouts : StartJob(e, p)
             \/ ClaimRefused(e) \/ ClaimConflict(e) \/ AcquireLock(e)
             \/ AcquireTimeout(e) \/ Replay(e) \/ Prepare(e) \/ PrepareFails(e)
             \/ Broadcast(e) \/ ReleaseLock(e) \/ BookFailureFails(e)
             \/ WriteSentFails(e) \/ Crash(e)
    BY <1>0, <2>4 DEF StartJob, ClaimRefused, ClaimConflict, AcquireLock, AcquireTimeout,
                      Replay, Prepare, PrepareFails, Broadcast, ReleaseLock,
                      BookFailureFails, WriteSentFails, Crash
  <2> QED  BY <1>2, <2>1, <2>2, <2>3, <2>4 DEF Execute
<1>3. CASE \/ \E x \in Payments : MarkSettled(x)
           \/ \E p \in Payouts : Redeliver(p)
           \/ ExpireLease
           \/ UNCHANGED vars
  BY <1>0, <1>3 DEF MarkSettled, Redeliver, ExpireLease, vars
<1>4. ASSUME NEW s \in Slots, Mine(s)  PROVE Promise!Next
  BY <1>4, MineLands DEF Promise!Next
<1> QED  BY <1>1, <1>2, <1>3, <1>4 DEF Next

\* The workers with their retries, redeliveries, leases and crashes keep the
\* promise: a row's transfer lands at most once, only while the row holds its
\* merchant's balance, and only one live row serves a payment.
THEOREM Refinement == Spec => KeepsPromise
<1>1. Init => Promise!Init
  BY PromiseInit
<1>2. TypeOK /\ IInv /\ [Next]_vars => [Promise!Next]_(Promise!vars)
  BY PromiseStep
<1> QED  BY <1>1, <1>2, Invariance, PTL DEF Spec, KeepsPromise, Promise!Spec

-----------------------------------------------------------------------------
(* The merchant's balance.                                                   *)

\* No job takes a 'failed' row up again.
NoReclaim == \A p \in Payouts : status[p] = "failed" => status'[p] = "failed"

\* The rows that hold or have sent part of the balance.
Committed == {p \in Payouts : status[p] \in Reserving}

\* The balance is not overdrawn, and a request that has passed the guard, which
\* alone holds the advisory lock, does not overdraw it.
Guarded ==
  /\ Available >= 0
  /\ \A r \in Requesters : rpc[r] = "insert" => advisory = r /\ ask[r].amount <= Available

\* The balance, before and after a step, as a difference of two sums.
LEMMA AvailableIs ==
  /\ Available = SumOf(Received, Payments) - SumOf(gross, Committed)
  /\ Available' = SumOf(Received, Payments) - SumOf(gross', Committed')
BY DEF Available, Committed, SumOf, MapThenSumSet, MapThenFoldSet

\* The sums are natural numbers.
LEMMA BalanceTypes ==
  ASSUME TypeOK
  PROVE  /\ SumOf(Received, Payments) \in Nat
         /\ SumOf(gross, Committed) \in Nat /\ Available \in Int
         /\ IsFiniteSet(Committed) /\ Committed \subseteq Payouts
         /\ \A p \in Payouts : gross[p] \in Nat
<1>1. IsFiniteSet(Payments) /\ \A x \in Payments : Received[x] \in Nat
  BY PayoutAssumption
<1>2. IsFiniteSet(Committed) /\ Committed \subseteq Payouts
  BY PayoutAssumption, FS_Subset DEF Committed
<1>3. \A p \in Payouts : gross[p] \in Nat
  BY DEF TypeOK
<1>4. SumOf(Received, Payments) \in Nat
  BY <1>1, SumType
<1>5. SumOf(gross, Committed) \in Nat
  BY <1>2, <1>3, SumType
<1> QED  BY <1>2, <1>3, <1>4, <1>5, AvailableIs

\* Nothing is committed in the beginning, and no request has passed the guard.
LEMMA InitGuarded == Init => Guarded
<1> SUFFICES ASSUME Init  PROVE Guarded
  OBVIOUS
<1>1. Committed = {}
  BY DEF Init, Committed, Reserving
<1>2. SumOf(gross, Committed) = 0 /\ SumOf(Received, Payments) \in Nat
  BY <1>1, SumEmpty, BalanceTypes, InitType
<1>3. \A r \in Requesters : rpc[r] # "insert"
  BY DEF Init
<1> QED  BY <1>2, <1>3, AvailableIs DEF Guarded

\* A step that commits no row and lets no request through.
LEMMA GuardedStep ==
  ASSUME TypeOK, Guarded, UNCHANGED gross, Committed' \subseteq Committed,
         \A r \in Requesters : rpc'[r] = "insert" =>
           rpc[r] = "insert" /\ advisory' = r /\ ask'[r].amount = ask[r].amount
  PROVE  Guarded'
<1>1. /\ SumOf(Received, Payments) \in Nat /\ SumOf(gross, Committed) \in Nat
      /\ IsFiniteSet(Committed) /\ IsFiniteSet(Committed')
      /\ \A p \in Committed : gross[p] \in Nat
  BY BalanceTypes, FS_Subset
<1>2. SumOf(gross, Committed') <= SumOf(gross, Committed) /\ SumOf(gross, Committed') \in Nat
  <2>1. Committed' \in SUBSET Committed
    OBVIOUS
  <2> QED  BY <1>1, <2>1, SumSubset, SumType
<1>3. Available <= Available' /\ Available \in Int /\ Available' \in Int
  BY <1>1, <1>2, AvailableIs
<1>4. \A r \in Requesters : ask[r].amount \in Nat
  BY DEF TypeOK, Asks
<1> QED  BY <1>3, <1>4 DEF Guarded

\* Steps of a requester that insert nothing.
LEMMA RequestGuarded ==
  ASSUME TypeOK, Guarded, NEW r \in Requesters, Request(r),
         ~ \E p \in Payouts : InsertPayout(r, p)
  PROVE  Guarded'
<1>t. /\ rpc \in [Requesters -> {"idle", "lock", "insert", "enqueue"}]
      /\ ask \in [Requesters -> Asks]
  BY DEF TypeOK
<1>1. UNCHANGED <<status, gross>>
  BY DEF Request, SweptPayout, RedrivePayout, ManualPayout, Call, CheckBalance, RequestRollback,
         EnqueuePayout, rowVars
<1>2. Committed' \subseteq Committed
  BY <1>1 DEF Committed
<1>3. CASE CheckBalance(r) /\ ~(ask[r].amount > Available)
  <2>1. rpc' = [rpc EXCEPT ![r] = "insert"] /\ advisory = None /\ advisory' = r /\ UNCHANGED ask
    BY <1>3 DEF CheckBalance
  <2>2. \A q \in Requesters : rpc[q] # "insert"
    BY <2>1, PayoutAssumption DEF Guarded
  <2>3. UNCHANGED Available
    BY <1>1 DEF Available, MapThenSumSet, MapThenFoldSet
  <2>4. ask[r].amount \in Nat /\ Available \in Int
    BY <1>t, BalanceTypes DEF Asks
  <2> QED  BY <1>t, <1>3, <2>1, <2>2, <2>3, <2>4 DEF Guarded
<1>4. CASE ~(CheckBalance(r) /\ ~(ask[r].amount > Available))
  <2>1. \E l \in {"idle", "lock"} : rpc' = [rpc EXCEPT ![r] = l]
    BY <1>4 DEF Request, SweptPayout, RedrivePayout, ManualPayout, Call, CheckBalance,
                RequestRollback, EnqueuePayout
  <2>2. \A q \in Requesters \ {r} : ask'[q] = ask[q]
    BY <1>t, <1>4 DEF Request, SweptPayout, RedrivePayout, ManualPayout, Call, CheckBalance,
                      RequestRollback, EnqueuePayout
  <2>3. advisory' = advisory \/ (advisory = r /\ advisory' = None)
    BY <1>4 DEF Request, SweptPayout, RedrivePayout, ManualPayout, Call, CheckBalance,
                RequestRollback, EnqueuePayout
  <2>4. \A q \in Requesters : rpc'[q] = "insert" =>
          rpc[q] = "insert" /\ advisory' = q /\ ask'[q].amount = ask[q].amount
    BY <1>t, <2>1, <2>2, <2>3 DEF Guarded
  <2> QED  BY <1>1, <1>2, <2>4, GuardedStep
<1> QED  BY <1>3, <1>4

\* The row commits what the guard has found.
LEMMA InsertGuarded ==
  ASSUME TypeOK, TypeOK', Guarded, NEW r \in Requesters, NEW p \in Payouts, InsertPayout(r, p)
  PROVE  Guarded'
<1>1. /\ rpc[r] = "insert" /\ status[p] = "none"
      /\ status' = [status EXCEPT ![p] = "pending"]
      /\ gross' = [gross EXCEPT ![p] = ask[r].amount]
      /\ rpc' = [rpc EXCEPT ![r] = "enqueue"]
  BY DEF InsertPayout
<1>2. \A q \in Requesters : rpc'[q] # "insert"
  BY <1>1 DEF TypeOK, Guarded
<1>3. /\ SumOf(Received, Payments) \in Nat /\ SumOf(gross, Committed) \in Nat
      /\ IsFiniteSet(Committed) /\ Committed \subseteq Payouts
      /\ \A q \in Payouts : gross[q] \in Nat /\ gross'[q] \in Nat
  BY BalanceTypes DEF TypeOK
<1>4. Committed' = Committed \cup {p} /\ p \notin Committed
  BY <1>1 DEF TypeOK, Committed, Reserving
<1>5. SumOf(gross', Committed) = SumOf(gross, Committed)
  <2>1. \A q \in Committed : gross[q] \in Int /\ gross[q] = gross'[q]
    BY <1>1, <1>3, <1>4 DEF TypeOK
  <2> QED  BY <1>3, <2>1, SumEqual
<1>6. SumOf(gross', Committed \cup {p}) = gross'[p] + SumOf(gross', Committed)
  <2>1. \A q \in Committed \cup {p} : gross'[q] \in Int
    BY <1>3
  <2> QED  BY <1>3, <1>4, <2>1, SumAdd
<1>7. gross'[p] = ask[r].amount /\ ask[r].amount \in Nat /\ ask[r].amount <= Available
  BY <1>1 DEF TypeOK, Asks, Guarded
<1>8. Available' >= 0
  BY <1>3, <1>4, <1>5, <1>6, <1>7, AvailableIs
<1> QED  BY <1>2, <1>8 DEF Guarded

\* A row that does not exist is not written by an executor.
LEMMA NoneStays ==
  ASSUME TypeOK, IInv, NEW e \in Executors, Execute(e), NEW p \in Payouts, status[p] = "none"
  PROVE  status'[p] = "none"
<1>1. ~Busy(e, p)
  BY DEF IInv, StatusInv
<1>2. CASE Claim(e)
  BY <1>2 DEF Claim, Claimable, TypeOK
<1>3. CASE BookFailure(e) \/ WriteSent(e) \/ WatchReceipt(e)
  BY <1>1, <1>3 DEF Busy, BookFailure, WriteSent, WatchReceipt, TypeOK
<1>4. CASE ~(Claim(e) \/ BookFailure(e) \/ WriteSent(e) \/ WatchReceipt(e))
  BY <1>4 DEF Execute, StartJob, ClaimRefused, ClaimConflict, AcquireLock,
              AcquireTimeout, Replay, Prepare, PrepareFails, PersistPrepared, PersistFails,
              MarkAttempted, MarkAttemptedFails, Broadcast, ReleaseLock, BookFailureFails,
              WriteSentFails,
              Crash, rowVars
<1> QED  BY <1>2, <1>3, <1>4

\* An executor writes no amount and touches no request.
LEMMA ExecuteLeaves ==
  ASSUME NEW e \in Executors, Execute(e)
  PROVE  UNCHANGED <<gross, payment, reqVars>>
BY DEF Execute, StartJob, Claim, ClaimRefused, ClaimConflict, AcquireLock,
       AcquireTimeout, Replay, Prepare, PrepareFails, PersistPrepared, PersistFails,
       MarkAttempted, MarkAttemptedFails, Broadcast, ReleaseLock, BookFailure,
       BookFailureFails, WriteSent,
       WriteSentFails, WatchReceipt, Crash, rowVars

\* A step that takes no failed row up again keeps the balance guarded.
LEMMA NextGuarded ==
  TypeOK /\ IInv /\ TypeOK' /\ Guarded /\ [Next]_vars /\ [NoReclaim]_vars => Guarded'
<1> SUFFICES ASSUME TypeOK, IInv, TypeOK', Guarded, [Next]_vars, [NoReclaim]_vars
             PROVE  Guarded'
  OBVIOUS
<1>1. ASSUME UNCHANGED <<status, gross, reqVars>>  PROVE Guarded'
  <2>1. Committed' \subseteq Committed
    BY <1>1 DEF Committed
  <2> QED  BY <1>1, <2>1, GuardedStep DEF reqVars, Guarded
<1>2. CASE UNCHANGED vars
  BY <1>1, <1>2 DEF vars, rowVars
<1>3. CASE \/ \E x \in Payments : MarkSettled(x)
           \/ \E p \in Payouts : Redeliver(p)
           \/ ExpireLease
           \/ \E s \in Slots : Mine(s)
  BY <1>1, <1>3 DEF MarkSettled, Redeliver, ExpireLease, Mine, rowVars
<1>4. ASSUME NEW e \in Executors, Execute(e)  PROVE Guarded'
  <2>1. UNCHANGED <<gross, reqVars>>
    BY <1>4, ExecuteLeaves
  <2>2. CASE UNCHANGED vars
    BY <1>2, <2>2
  <2>3. CASE NoReclaim
    <3>1. \A p \in Payouts : status[p] = "none" => status'[p] = "none"
      BY <1>4, NoneStays
    <3>2. Committed' \subseteq Committed
      BY <2>3, <3>1 DEF NoReclaim, Committed, Reserving, TypeOK, Statuses
    <3> QED  BY <2>1, <3>2, GuardedStep DEF reqVars, Guarded
  <2> QED  BY <2>2, <2>3
<1> QED  BY <1>2, <1>3, <1>4, RequestGuarded, InsertGuarded DEF Next

\* What a merchant's payouts hold or have sent exceeds what was credited only if a
\* job takes up again a row that was booked 'failed': nothing else, however
\* requests race, roll back and retry, overdraws the balance.
THEOREM OnlyReclaimsOverdraw == Spec /\ [][NoReclaim]_vars => []NoOverdraw
<1>1. Guarded => NoOverdraw
  BY DEF Guarded, NoOverdraw
<1>2. Init => Guarded
  BY InitGuarded
<1>3. TypeOK /\ IInv /\ TypeOK' /\ Guarded /\ [Next]_vars /\ [NoReclaim]_vars => Guarded'
  BY NextGuarded
<1> QED  BY <1>1, <1>2, <1>3, Invariance, PTL DEF Spec

-----------------------------------------------------------------------------
(* Where nothing is booked failed.                                           *)

\* Nothing fails before the stamp, so nothing is booked 'failed'.
NoneFailed ==
  /\ \A p \in Payouts : status[p] # "failed"
  /\ \A e \in Executors : pc[e] \in {"unlock", "book"} => stamped[on[e]]

\* No row exists in the beginning, and no worker runs.
LEMMA InitNoneFailed == Init => NoneFailed
BY DEF Init, NoneFailed

\* With none of those three faults an executor fails only after the stamp.
LEMMA ExecuteNoneFailed ==
  ASSUME {"timeout", "prepare", "persist"} \cap Faults = {},
         TypeOK, IInv, TypeOK', NoneFailed, NEW e \in Executors, Execute(e),
         \A p \in Payouts : stamped[p] => stamped'[p]
  PROVE  NoneFailed'
<1>t. /\ pc \in [Executors -> PCs] /\ on \in [Executors -> Payouts \cup {None}]
      /\ status \in [Payouts -> Statuses] /\ stamped \in [Payouts -> BOOLEAN]
  BY DEF TypeOK
<1>1. pc[e] # "idle" => on[e] \in Payouts
  BY <1>t DEF IInv, IdleInv
<1>2. Informed(e)
  BY DEF IInv, StepInv
<1>3. \A f \in Executors \ {e} : pc'[f] = pc[f] /\ on'[f] = on[f]
  BY <1>t DEF Execute, StartJob, Claim, ClaimRefused, ClaimConflict, AcquireLock,
       AcquireTimeout, Replay, Prepare, PrepareFails, PersistPrepared, PersistFails,
       MarkAttempted, MarkAttemptedFails, Broadcast, ReleaseLock, BookFailure,
       BookFailureFails, WriteSent,
       WriteSentFails, WatchReceipt, Crash, Unlocking, Goto, Leave
<1>4. ~AcquireTimeout(e) /\ ~PrepareFails(e) /\ ~PersistFails(e) /\ ~MarkAttemptedFails(e)
  BY DEF AcquireTimeout, PrepareFails, PersistFails, MarkAttemptedFails, Fault
<1>5. pc'[e] \in {"unlock", "book"} => stamped[on[e]] /\ on'[e] = on[e] /\ on[e] \in Payouts
  <2>1. CASE Claim(e) \/ Broadcast(e) \/ ReleaseLock(e)
    BY <1>1, <1>2, <1>t, <2>1 DEF Claim, Broadcast, ReleaseLock, Informed, NoneFailed, Goto,
                                  Unlocking, PCs
  <2>2. CASE ~(Claim(e) \/ Broadcast(e) \/ ReleaseLock(e))
    <3>1. \/ Leave(e) \/ Goto(e, "claim") \/ Goto(e, "locked") \/ Goto(e, "send")
          \/ Goto(e, "persist") \/ Goto(e, "watch") \/ UNCHANGED <<pc, on>>
      BY <1>4, <2>2 DEF Execute, StartJob, ClaimRefused, ClaimConflict, AcquireLock,
           Replay, Prepare, PersistPrepared, MarkAttempted, BookFailure, BookFailureFails,
           WriteSent, WriteSentFails, WatchReceipt, Crash
    <3>2. UNCHANGED <<pc, on>> \/ pc'[e] \notin {"unlock", "book"}
      BY <1>t, <3>1 DEF Leave, Goto
    <3> QED  BY <1>1, <3>2 DEF NoneFailed
  <2> QED  BY <2>1, <2>2
<1>6. ASSUME NEW f \in Executors, pc'[f] \in {"unlock", "book"}  PROVE stamped'[on'[f]]
  <2>1. CASE f = e
    BY <1>5, <1>6, <2>1
  <2>2. CASE f # e
    <3>1. on[f] \in Payouts /\ stamped[on[f]]
      BY <1>3, <1>6, <1>t, <2>2 DEF NoneFailed, IInv, IdleInv
    <3> QED  BY <1>3, <2>2, <3>1
  <2> QED  BY <2>1, <2>2
<1>7. \A p \in Payouts : status'[p] # "failed"
  <2>1. \/ UNCHANGED status
        \/ \E st \in Statuses \ {"failed"} : status' = [status EXCEPT ![on[e]] = st]
    <3>1. CASE BookFailure(e)
      BY <3>1 DEF BookFailure, NoneFailed, Statuses
    <3>2. CASE ~BookFailure(e)
      BY <3>2 DEF Execute, StartJob, Claim, ClaimRefused, ClaimConflict, AcquireLock,
           AcquireTimeout, Replay, Prepare, PrepareFails, PersistPrepared, PersistFails,
           MarkAttempted, MarkAttemptedFails, Broadcast, ReleaseLock, BookFailureFails,
           WriteSent,
           WriteSentFails, WatchReceipt, Crash, rowVars, Statuses
    <3> QED  BY <3>1, <3>2
  <2> QED  BY <1>t, <2>1 DEF NoneFailed
<1> QED  BY <1>6, <1>7 DEF NoneFailed

\* Every step keeps that.
LEMMA NextNoneFailed ==
  ASSUME {"timeout", "prepare", "persist"} \cap Faults = {}
  PROVE  TypeOK /\ IInv /\ [Next]_vars /\ TypeOK' /\ IInv' /\ NoneFailed => NoneFailed'
<1> SUFFICES ASSUME TypeOK, IInv, [Next]_vars, TypeOK', IInv', NoneFailed  PROVE NoneFailed'
  OBVIOUS
<1>1. CASE UNCHANGED <<status, stamped, execVars>>
  BY <1>1 DEF NoneFailed, execVars
<1>2. ASSUME NEW e \in Executors, Execute(e)  PROVE NoneFailed'
  <2>1. \A p \in Payouts : stamped[p] => stamped'[p]
    <3>1. CASE UNCHANGED vars
      BY <3>1 DEF vars, rowVars
    <3>2. CASE StampStays
      BY <3>2 DEF StampStays
    <3> QED  BY <3>1, <3>2, StampKept
  <2> QED  BY <1>2, <2>1, ExecuteNoneFailed
<1>3. ASSUME NEW r \in Requesters, Request(r)  PROVE NoneFailed'
  <2>1. UNCHANGED <<stamped, execVars>>
    BY <1>3 DEF Request, SweptPayout, RedrivePayout, ManualPayout, Call, CheckBalance,
                RequestRollback, EnqueuePayout, InsertPayout, rowVars
  <2>2. UNCHANGED status \/ \E p \in Payouts : status' = [status EXCEPT ![p] = "pending"]
    BY <1>3 DEF Request, SweptPayout, RedrivePayout, ManualPayout, Call, CheckBalance,
                RequestRollback, EnqueuePayout, InsertPayout, rowVars
  <2> QED  BY <2>1, <2>2 DEF NoneFailed, execVars, TypeOK
<1>4. CASE \/ UNCHANGED vars
           \/ \E x \in Payments : MarkSettled(x)
           \/ \E p \in Payouts : Redeliver(p)
           \/ ExpireLease
           \/ \E s \in Slots : Mine(s)
  BY <1>1, <1>4 DEF MarkSettled, Redeliver, ExpireLease, Mine, vars, rowVars
<1> QED  BY <1>2, <1>3, <1>4 DEF Next

\* Unless a payout fails before its broadcast is on record (its lock is not had in
\* time, its preparation or the storing of its bytes fails), the merchant's balance is
\* never overdrawn, for any number of workers and requests, crashes, stalls, lost
\* answers, failed writes and lapsed leases.
THEOREM NoOverdrawHolds ==
  ASSUME {"timeout", "prepare", "persist"} \cap Faults = {}
  PROVE  Spec => []NoOverdraw
<1>1. TypeOK /\ IInv /\ [Next]_vars => (TypeOK /\ IInv)'
  BY TypeStep, InvStep DEF IInv
<1>2. Init => NoneFailed
  BY InitNoneFailed
<1>3. TypeOK /\ IInv /\ [Next]_vars /\ TypeOK' /\ IInv' /\ NoneFailed => NoneFailed'
  BY NextNoneFailed
<1>4. Spec => []NoneFailed
  BY <1>1, <1>2, <1>3, Invariance, PTL DEF Spec
<1>5. NoneFailed /\ NoneFailed' => [NoReclaim]_vars
  BY DEF NoneFailed, NoReclaim
<1>6. []NoneFailed => [][NoReclaim]_vars
  BY <1>5, PTL
<1> QED  BY <1>4, <1>6, OnlyReclaimsOverdraw, PTL

-----------------------------------------------------------------------------
(* What is reported as sent.                                                 *)

\* A worker whose broadcast was answered has its transaction on the wire.
Delivered ==
  \A e \in Executors :
    pc[e] \in {"write", "watch"} \/ (pc[e] = "unlock" /\ outcome[e] = "ok") =>
      OnWire(on[e], bytes[e])

\* The chain lock is held throughout the locked section.
LeaseHeld == \A e \in Executors : pc[e] \in Section => lease = e

\* Stored bytes are on the wire, or the worker that stored them is sending them.
SignedReaches ==
  \A p \in Payouts : stamped[p] =>
    OnWire(p, signed[p]) \/ \E e \in Executors : on[e] = p /\ pc[e] = "send"

\* The nonce a worker has picked is nobody else's.
SlotIsOwn ==
  \A e \in Executors :
    /\ pc[e] = "persist" => Unused(bytes[e])
    /\ pc[e] = "send" => Unused(bytes[e]) \/ OnWire(on[e], bytes[e])

\* Where a nonce may be used up by another row, all that is sent arrives.
EvmInv == Kind = "evm" => LeaseHeld /\ SignedReaches /\ SlotIsOwn

\* The inductive invariant of SentIsOnWire.
ReachInv == EvmInv /\ Delivered /\ SentIsOnWire

\* The faults after which another row may use the nonce of stored bytes: they are not
\* sent, or not under the lock.
NonceFaults == {"lateCrash", "persist", "unsent", "lapse"}

\* No row is sent and no worker runs in the beginning.
LEMMA InitReach == Init => ReachInv
BY DEF Init, ReachInv, EvmInv, LeaseHeld, SignedReaches, SlotIsOwn, Delivered, SentIsOnWire, Section

\* Without those faults nothing leaves the wire.
LEMMA WireGrows ==
  ASSUME Kind = "evm" => NonceFaults \cap Faults = {},
         TypeOK, IInv, ReachInv, [Next]_vars
  PROVE  \A p \in Payouts, s \in Slots : OnWire(p, s) => OnWire(p, s)'
<1>1. CASE UNCHANGED chainVars
  BY <1>1 DEF OnWire, chainVars
<1>2. ASSUME NEW s \in Slots, Mine(s)  PROVE \A p \in Payouts, t \in Slots : OnWire(p, t) => OnWire(p, t)'
  <2>1. /\ pool[s] # None /\ mined[s] = None
        /\ mined'[s] = pool[s]
        /\ \A t \in Slots \ {s} : pool'[t] = pool[t] /\ mined'[t] = mined[t]
    BY <1>2 DEF Mine, IInv, WireInv, TypeOK
  <2> QED  BY <2>1, PayoutAssumption DEF OnWire
<1>3. ASSUME NEW e \in Executors, Broadcast(e)
      PROVE  \A p \in Payouts, t \in Slots : OnWire(p, t) => OnWire(p, t)'
  <2>1. PICK s \in Slots :
          /\ IF Kind = "tron" THEN NextSlot(s) ELSE s = bytes[e]
          /\ Accepts(s, on[e]) \/ UNCHANGED pool
    BY <1>3 DEF Broadcast, AlreadyThere, Refuses
  <2>2. on[e] \in Payouts /\ pc[e] = "send" /\ UNCHANGED mined
    BY <1>3 DEF Broadcast, IInv, IdleInv, TypeOK
  <2>3. CASE UNCHANGED pool
    BY <2>2, <2>3 DEF OnWire
  <2>4. CASE Accepts(s, on[e])
    <3>1. pool[s] \in {None, on[e]}
      <4>1. CASE Kind # "evm"
        BY <2>4, <4>1 DEF Accepts
      <4>2. CASE Kind = "evm"
        BY <2>1, <2>2, <2>4, <4>2, PayoutAssumption
           DEF Accepts, ReachInv, EvmInv, SlotIsOwn, Unused, OnWire
      <4> QED  BY <4>1, <4>2
    <3>2. pool' = [pool EXCEPT ![s] = on[e]]
      BY <2>4 DEF Accepts
    <3> QED  BY <2>2, <3>1, <3>2, PayoutAssumption DEF OnWire, TypeOK
  <2> QED  BY <2>1, <2>3, <2>4
<1>4. ASSUME NEW r \in Requesters, Request(r)  PROVE UNCHANGED chainVars
  BY <1>4 DEF Request, SweptPayout, RedrivePayout, ManualPayout, Call, CheckBalance,
              RequestRollback, EnqueuePayout, InsertPayout
<1>5. ASSUME NEW e \in Executors, Execute(e)  PROVE UNCHANGED chainVars \/ Broadcast(e)
  BY <1>5 DEF Execute, StartJob, Claim, ClaimRefused, ClaimConflict, AcquireLock,
       AcquireTimeout, Replay, Prepare, PrepareFails, PersistPrepared, PersistFails,
       MarkAttempted, MarkAttemptedFails, ReleaseLock, BookFailure, BookFailureFails, WriteSent,
       WriteSentFails, WatchReceipt, Crash
<1>6. CASE \/ UNCHANGED vars
           \/ \E x \in Payments : MarkSettled(x)
           \/ \E p \in Payouts : Redeliver(p)
           \/ ExpireLease
  BY <1>1, <1>6 DEF MarkSettled, Redeliver, ExpireLease, vars
<1> QED  BY <1>1, <1>2, <1>3, <1>4, <1>5, <1>6 DEF Next

\* Where each executor is, by the step it takes.
LEMMA ExecuteMoves ==
  ASSUME TypeOK, IInv, NEW e \in Executors, Execute(e)
  PROVE  /\ \A f \in Executors \ {e} : /\ pc'[f] = pc[f] /\ on'[f] = on[f]
                                       /\ bytes'[f] = bytes[f] /\ outcome'[f] = outcome[f]
         /\ UNCHANGED chainVars \/ Broadcast(e)
         /\ UNCHANGED lease \/ AcquireLock(e) \/ ReleaseLock(e)
         /\ UNCHANGED status \/ Claim(e) \/ BookFailure(e) \/ WriteSent(e) \/ WatchReceipt(e)
         /\ UNCHANGED <<stamped, signed>> \/ PersistPrepared(e) \/ PersistFails(e) \/ MarkAttempted(e)
                                             \/ MarkAttemptedFails(e)
<1>1. \A f \in Executors \ {e} : /\ pc'[f] = pc[f] /\ on'[f] = on[f]
                                 /\ bytes'[f] = bytes[f] /\ outcome'[f] = outcome[f]
  <2>1. /\ UNCHANGED pc \/ \E l : pc' = [pc EXCEPT ![e] = l]
        /\ UNCHANGED on \/ \E p : on' = [on EXCEPT ![e] = p]
    BY DEF Execute, StartJob, Claim, ClaimRefused, ClaimConflict, AcquireLock,
           AcquireTimeout, Replay, Prepare, PrepareFails, PersistPrepared, PersistFails,
           MarkAttempted, MarkAttemptedFails, Broadcast, ReleaseLock, BookFailure,
           BookFailureFails, WriteSent,
           WriteSentFails, WatchReceipt, Crash, Unlocking, Goto, Leave
  <2>2. /\ UNCHANGED bytes \/ \E b : bytes' = [bytes EXCEPT ![e] = b]
        /\ UNCHANGED outcome \/ \E o : outcome' = [outcome EXCEPT ![e] = o]
    BY DEF Execute, StartJob, Claim, ClaimRefused, ClaimConflict, AcquireLock,
           AcquireTimeout, Replay, Prepare, PrepareFails, PersistPrepared, PersistFails,
           MarkAttempted, MarkAttemptedFails, Broadcast, ReleaseLock, BookFailure,
           BookFailureFails, WriteSent,
           WriteSentFails, WatchReceipt, Crash, Unlocking, Goto, Leave
  <2> QED  BY <2>1, <2>2 DEF TypeOK
<1>2. UNCHANGED chainVars \/ Broadcast(e)
  BY DEF Execute, StartJob, Claim, ClaimRefused, ClaimConflict, AcquireLock,
       AcquireTimeout, Replay, Prepare, PrepareFails, PersistPrepared, PersistFails,
       MarkAttempted, MarkAttemptedFails, ReleaseLock, BookFailure, BookFailureFails, WriteSent,
       WriteSentFails, WatchReceipt, Crash
<1>3. UNCHANGED lease \/ AcquireLock(e) \/ ReleaseLock(e)
  BY DEF Execute, StartJob, Claim, ClaimRefused, ClaimConflict,
       AcquireTimeout, Replay, Prepare, PrepareFails, PersistPrepared, PersistFails,
       MarkAttempted, MarkAttemptedFails, Broadcast, BookFailure, BookFailureFails, WriteSent,
       WriteSentFails, WatchReceipt, Crash
<1>4. UNCHANGED status \/ Claim(e) \/ BookFailure(e) \/ WriteSent(e) \/ WatchReceipt(e)
  BY DEF Execute, StartJob, ClaimRefused, ClaimConflict, AcquireLock,
       AcquireTimeout, Replay, Prepare, PrepareFails, PersistPrepared, PersistFails,
       MarkAttempted, MarkAttemptedFails, Broadcast, ReleaseLock, BookFailureFails,
       WriteSentFails, Crash, rowVars
<1>5. UNCHANGED <<stamped, signed>> \/ PersistPrepared(e) \/ PersistFails(e) \/ MarkAttempted(e)
                                       \/ MarkAttemptedFails(e)
  BY DEF Execute, StartJob, Claim, ClaimRefused, ClaimConflict, AcquireLock,
       AcquireTimeout, Replay, Prepare, PrepareFails,
       Broadcast, ReleaseLock, BookFailure, BookFailureFails, WriteSent,
       WriteSentFails, WatchReceipt, Crash, rowVars
<1> QED  BY <1>1, <1>2, <1>3, <1>4, <1>5

\* The slots and rows the invariant speaks of are slots and rows.
LEMMA BusyTypes ==
  ASSUME TypeOK, IInv, NEW e \in Executors
  PROVE  /\ pc[e] # "idle" => on[e] \in Payouts
         /\ pc[e] \in {"write", "watch"} \/ (pc[e] = "unlock" /\ outcome[e] = "ok") => bytes[e] \in Slots
         /\ pc[e] = "send" /\ Kind # "tron" => bytes[e] \in Slots /\ bytes[e] = signed[on[e]]
         /\ pc[e] = "persist" => bytes[e] \in Slots
<1>1. Informed(e) /\ bytes[e] \in Slots \cup {None}
  BY DEF TypeOK, IInv, StepInv
<1>2. pc[e] # "idle" => on[e] \in Payouts
  BY DEF TypeOK, IInv, IdleInv
<1>3. pc[e] = "send" /\ Kind # "tron" => bytes[e] \in Slots /\ bytes[e] = signed[on[e]]
  BY <1>1, <1>2 DEF Informed, IInv, BytesInv
<1> QED  BY <1>1, <1>2, <1>3 DEF Informed

\* What a worker sends, and is answered "sent" or "already there", is on the wire;
\* on an EVM chain, whatever it is answered.
LEMMA BroadcastLands ==
  ASSUME Kind = "evm" => NonceFaults \cap Faults = {},
         TypeOK, IInv, ReachInv, NEW e \in Executors, Broadcast(e)
  PROVE  /\ pc'[e] = "unlock" /\ on'[e] = on[e] /\ UNCHANGED <<signed, stamped, status, lease>>
         /\ outcome'[e] = "ok" \/ Kind = "evm" => OnWire(on[e], bytes[e])'
         /\ Kind = "evm" => bytes'[e] = bytes[e]
<1>t. /\ pc \in [Executors -> PCs] /\ pool \in [Slots -> Payouts \cup {None}]
      /\ bytes \in [Executors -> Slots \cup {None}]
      /\ outcome \in [Executors -> {"none", "ok", "err"}]
  BY DEF TypeOK
<1>1. PICK s \in Slots :
        /\ IF Kind = "tron" THEN NextSlot(s) ELSE s = bytes[e]
        /\ bytes' = [bytes EXCEPT ![e] = s]
        /\ \/ Accepts(s, on[e]) \/ AlreadyThere(s, on[e])
           \/ Refuses(s, on[e]) /\ Unlocking(e, "err")
           \/ Fault("unsent") /\ Unlocking(e, "err")
  BY DEF Broadcast
<1>2. /\ pc[e] = "send" /\ Goto(e, "unlock") /\ UNCHANGED <<on, signed, stamped, status, lease, mined>>
  BY DEF Broadcast, Unlocking, rowVars
<1>3. bytes'[e] = s /\ pc'[e] = "unlock" /\ (Kind = "evm" => s = bytes[e])
  BY <1>t, <1>1, <1>2 DEF Goto
<1>4. Unlocking(e, "err") => outcome'[e] # "ok"
  BY <1>t DEF Unlocking
<1>5. on[e] \in Payouts /\ on[e] # None
  BY <1>2, BusyTypes, PayoutAssumption
<1>6. ASSUME outcome'[e] = "ok" \/ Kind = "evm"  PROVE pool'[s] = on[e] \/ mined[s] = on[e]
  <2>1. CASE Accepts(s, on[e])
    BY <1>t, <2>1 DEF Accepts
  <2>2. CASE Kind # "evm" /\ ~Accepts(s, on[e])
    BY <1>1, <1>4, <1>6, <2>2 DEF AlreadyThere
  <2>3. CASE Kind = "evm" /\ ~Accepts(s, on[e])
    <3>1. (pool[s] = None /\ mined[s] = None) \/ pool[s] = on[e] \/ mined[s] = on[e]
      BY <1>2, <1>3, <2>3 DEF ReachInv, EvmInv, SlotIsOwn, Unused, OnWire
    <3>2. pool[s] # None => mined[s] = None
      BY DEF IInv, WireInv
    <3>3. ~Fault("unsent")
      BY <2>3 DEF Fault, NonceFaults
    <3>4. CASE AlreadyThere(s, on[e])
      BY <1>5, <2>3, <3>1, <3>2, <3>4 DEF AlreadyThere
    <3>5. CASE Refuses(s, on[e])
      BY <1>5, <2>3, <3>1, <3>2, <3>5 DEF Refuses
    <3> QED  BY <1>1, <2>3, <3>3, <3>4, <3>5
  <2> QED  BY <2>1, <2>2, <2>3
<1> QED  BY <1>2, <1>3, <1>6 DEF OnWire

\* A step of an executor keeps what the answered workers know.
LEMMA DeliveredStep ==
  ASSUME Kind = "evm" => NonceFaults \cap Faults = {},
         TypeOK, IInv, ReachInv, NEW e \in Executors, Execute(e)
  PROVE  Delivered'
<1>t. /\ pc \in [Executors -> PCs] /\ outcome \in [Executors -> {"none", "ok", "err"}]
  BY DEF TypeOK
<1>g. \A p \in Payouts, s \in Slots : OnWire(p, s) => OnWire(p, s)'
  BY WireGrows DEF Next
<1> DEFINE Sure(f) == pc[f] \in {"write", "watch"} \/ (pc[f] = "unlock" /\ outcome[f] = "ok")
<1>1. ASSUME NEW f \in Executors, Sure(f), UNCHANGED <<on[f], bytes[f]>>
      PROVE  OnWire(on[f], bytes[f])'
  <2>1. OnWire(on[f], bytes[f]) /\ on[f] \in Payouts /\ bytes[f] \in Slots
    BY <1>1, BusyTypes DEF ReachInv, Delivered
  <2>2. pool'[bytes[f]] = on[f] \/ mined'[bytes[f]] = on[f]
    BY <1>g, <2>1 DEF OnWire
  <2> QED  BY <1>1, <2>2 DEF OnWire
<1>2. \/ Broadcast(e)
      \/ Sure(e) /\ UNCHANGED <<on[e], bytes[e]>>
      \/ ~Sure(e)'
  <2>1. CASE ReleaseLock(e)
    BY <1>t, <2>1 DEF ReleaseLock, Goto
  <2>2. CASE WriteSent(e)
    BY <2>2 DEF WriteSent
  <2>3. CASE PrepareFails(e) \/ PersistFails(e) \/ MarkAttemptedFails(e)
    BY <1>t, <2>3 DEF PrepareFails, PersistFails, MarkAttemptedFails, Unlocking, Goto
  <2>4. CASE StartJob(e, on[e]) \/ \E p \in Payouts : StartJob(e, p)
    BY <1>t, <2>4 DEF StartJob, Goto
  <2>5. CASE \/ Claim(e) \/ ClaimRefused(e) \/ ClaimConflict(e)
             \/ AcquireLock(e) \/ AcquireTimeout(e)
             \/ Replay(e) \/ Prepare(e) \/ PersistPrepared(e) \/ MarkAttempted(e)
             \/ BookFailure(e) \/ BookFailureFails(e) \/ WriteSentFails(e)
             \/ WatchReceipt(e) \/ Crash(e)
    BY <1>t, <2>5 DEF Claim, ClaimRefused, ClaimConflict, AcquireLock,
       AcquireTimeout, Replay, Prepare, PersistPrepared,
       MarkAttempted, BookFailure, BookFailureFails,
       WriteSentFails, WatchReceipt, Crash, Goto, Leave
  <2> QED  BY <2>1, <2>2, <2>3, <2>4, <2>5 DEF Execute
<1>3. ASSUME NEW f \in Executors, Sure(f)'  PROVE OnWire(on[f], bytes[f])'
  <2>1. CASE f # e
    <3>1. pc'[f] = pc[f] /\ outcome'[f] = outcome[f] /\ UNCHANGED <<on[f], bytes[f]>>
      BY <2>1, ExecuteMoves
    <3>2. Sure(f)
      BY <1>3, <3>1
    <3> QED  BY <1>1, <3>1, <3>2
  <2>2. CASE f = e /\ Broadcast(e)
    <3>1. pc'[e] = "unlock" /\ on'[e] = on[e] /\ (outcome'[e] = "ok" => OnWire(on[e], bytes[e])')
      BY <2>2, BroadcastLands
    <3> QED  BY <1>3, <2>2, <3>1 DEF OnWire
  <2>3. CASE f = e /\ ~Broadcast(e)
    BY <1>1, <1>2, <1>3, <2>3
  <2> QED  BY <2>1, <2>2, <2>3
<1> QED  BY <1>3 DEF Delivered

LEMMA SentStep ==
  ASSUME TypeOK, IInv, ReachInv, NEW e \in Executors, Execute(e),
         \A p \in Payouts, s \in Slots : OnWire(p, s) => OnWire(p, s)'
  PROVE  SentIsOnWire'
<1>t. status \in [Payouts -> Statuses]
  BY DEF TypeOK
<1> SUFFICES ASSUME NEW p \in Payouts, status'[p] \in {"sent", "confirmed"}
             PROVE  \E s \in Slots : OnWire(p, s)'
  BY DEF SentIsOnWire, OnWire
<1>1. CASE status'[p] = status[p]
  <2>1. \E s \in Slots : OnWire(p, s)
    BY <1>1 DEF ReachInv, SentIsOnWire, OnWire
  <2> QED  BY <2>1
<1>2. CASE status'[p] # status[p]
  <2>1. (WriteSent(e) \/ (WatchReceipt(e) /\ mined[bytes[e]] = on[e])) /\ p = on[e]
    BY <1>t, <1>2, ExecuteMoves DEF Claim, BookFailure, WriteSent, WatchReceipt
  <2>2. bytes[e] \in Slots /\ on[e] \in Payouts /\ OnWire(on[e], bytes[e])
    BY <2>1, BusyTypes DEF WriteSent, WatchReceipt, ReachInv, Delivered
  <2> QED  BY <2>1, <2>2
<1> QED  BY <1>1, <1>2

\* The lock changes hands only outside the section.
LEMMA LeaseStep ==
  ASSUME TypeOK, IInv, LeaseHeld, NEW e \in Executors, Execute(e)
  PROVE  LeaseHeld'
<1>t. pc \in [Executors -> PCs] /\ \A f \in Executors : f # None
  BY PayoutAssumption DEF TypeOK
<1>1. CASE AcquireLock(e)
  <2>1. lease = None /\ lease' = e /\ \A f \in Executors \ {e} : pc'[f] = pc[f]
    BY <1>1, ExecuteMoves DEF AcquireLock
  <2> QED  BY <1>t, <2>1 DEF LeaseHeld
<1>2. CASE ReleaseLock(e)
  <2>1. /\ lease' = IF lease = e THEN None ELSE lease
        /\ pc'[e] \in {"write", "book"} /\ \A f \in Executors \ {e} : pc'[f] = pc[f]
    BY <1>t, <1>2, ExecuteMoves DEF ReleaseLock, Goto
  <2> QED  BY <1>t, <2>1 DEF LeaseHeld, Section
<1>3. CASE ~AcquireLock(e) /\ ~ReleaseLock(e)
  <2>1. UNCHANGED lease /\ \A f \in Executors \ {e} : pc'[f] = pc[f]
    BY <1>3, ExecuteMoves
  <2>2. pc'[e] \in Section => pc[e] \in Section
    BY <1>t, <1>3 DEF Execute, StartJob, Claim, ClaimRefused, ClaimConflict,
       AcquireTimeout, Replay, Prepare, PrepareFails, PersistPrepared, PersistFails,
       MarkAttempted, MarkAttemptedFails, Broadcast, BookFailure, BookFailureFails, WriteSent,
       WriteSentFails, WatchReceipt, Crash, Unlocking, Goto, Leave, Section
  <2> QED  BY <1>t, <2>1, <2>2 DEF LeaseHeld
<1> QED  BY <1>1, <1>2, <1>3

\* The bytes are stored by the worker that goes on to send them, and it sends them.
LEMMA SignedStep ==
  ASSUME Kind = "evm", NonceFaults \cap Faults = {},
         TypeOK, IInv, ReachInv, NEW e \in Executors, Execute(e),
         \A p \in Payouts, s \in Slots : OnWire(p, s) => OnWire(p, s)',
         \A p \in Payouts : stamped[p] => stamped'[p] /\ signed'[p] = signed[p]
  PROVE  SignedReaches'
<1>t. /\ pc \in [Executors -> PCs] /\ on \in [Executors -> Payouts \cup {None}]
      /\ stamped \in [Payouts -> BOOLEAN]
  BY DEF TypeOK
<1> SUFFICES ASSUME NEW p \in Payouts, stamped'[p]
             PROVE  OnWire(p, signed[p])' \/ \E f \in Executors : on'[f] = p /\ pc'[f] = "send"
  BY DEF SignedReaches
<1>1. CASE ~stamped[p]
  <2>1. PersistPrepared(e) /\ p = on[e]
    BY <1>t, <1>1, ExecuteMoves DEF PersistPrepared, PersistFails, MarkAttempted,
                                    MarkAttemptedFails, Fault, NonceFaults
  <2> QED  BY <1>t, <2>1 DEF PersistPrepared, Goto
<1>2. CASE stamped[p] /\ OnWire(p, signed[p])
  <2>1. signed[p] \in Slots /\ signed'[p] = signed[p]
    BY <1>2 DEF TypeOK, IInv, BytesInv
  <2>2. pool'[signed[p]] = p \/ mined'[signed[p]] = p
    BY <1>2, <2>1 DEF OnWire
  <2> QED  BY <2>1, <2>2 DEF OnWire
<1>3. ASSUME stamped[p], NEW f \in Executors, on[f] = p, pc[f] = "send"
      PROVE  OnWire(p, signed[p])' \/ (on'[f] = p /\ pc'[f] = "send")
  <2>1. CASE f # e
    BY <1>3, <2>1, ExecuteMoves
  <2>2. CASE f = e /\ Broadcast(e)
    <3>1. signed'[p] = bytes'[e] /\ on'[e] = p
      BY <1>3, <2>2, BroadcastLands, BusyTypes
    <3> QED  BY <2>2, <3>1, BroadcastLands DEF OnWire
  <2>3. CASE f = e /\ ~Broadcast(e)
    <3>1. ~Crash(e)
      BY <1>3, <2>3 DEF Crash, Fault, NonceFaults
    <3>2. UNCHANGED <<pc, on>>
      BY <1>3, <2>3, <3>1 DEF Execute, StartJob, Claim, ClaimRefused, ClaimConflict, AcquireLock,
       AcquireTimeout, Replay, Prepare, PrepareFails, PersistPrepared, PersistFails,
       MarkAttempted, MarkAttemptedFails, ReleaseLock, BookFailure, BookFailureFails, WriteSent,
       WriteSentFails, WatchReceipt
    <3> QED  BY <1>3, <2>3, <3>2
  <2> QED  BY <2>1, <2>2, <2>3
<1> QED  BY <1>1, <1>2, <1>3 DEF ReachInv, EvmInv, SignedReaches

\* A nonce is picked where the node knows nothing of it, and under the lock nobody else
\* sends.
LEMMA SlotStep ==
  ASSUME Kind = "evm", TypeOK, IInv, ReachInv, NEW e \in Executors, Execute(e)
  PROVE  SlotIsOwn'
<1>t. /\ pc \in [Executors -> PCs] /\ bytes \in [Executors -> Slots \cup {None}]
      /\ \A f \in Executors : pc[f] \in Section => lease = f
  BY DEF TypeOK, ReachInv, EvmInv, LeaseHeld
<1>1. ASSUME NEW f \in Executors \ {e}, pc'[f] \in {"persist", "send"}
      PROVE  /\ pc'[f] = "persist" => Unused(bytes[f])'
             /\ pc'[f] = "send" => (Unused(bytes[f]) \/ OnWire(on[f], bytes[f]))'
  <2>1. pc'[f] = pc[f] /\ on'[f] = on[f] /\ bytes'[f] = bytes[f]
    BY <1>1, ExecuteMoves
  <2>2. ~Broadcast(e)
    BY <1>t, <1>1, <2>1 DEF Broadcast, Section
  <2>3. UNCHANGED chainVars
    BY <2>2, ExecuteMoves
  <2> QED  BY <2>1, <2>3 DEF chainVars, Unused, OnWire, ReachInv, EvmInv, SlotIsOwn
<1>2. ASSUME pc'[e] \in {"persist", "send"}
      PROVE  /\ pc'[e] = "persist" => Unused(bytes[e])'
             /\ pc'[e] = "send" => (Unused(bytes[e]) \/ OnWire(on[e], bytes[e]))'
  <2>1. \/ Prepare(e) \/ PersistPrepared(e) \/ Replay(e) \/ UNCHANGED <<pc, on, bytes>>
    <3>1. CASE \E p \in Payouts : StartJob(e, p)
      BY <1>t, <1>2, <3>1 DEF StartJob, Goto
    <3>2. CASE \/ Claim(e) \/ ClaimRefused(e) \/ ClaimConflict(e)
               \/ AcquireLock(e) \/ AcquireTimeout(e)
               \/ PrepareFails(e) \/ PersistFails(e) \/ MarkAttempted(e)
               \/ MarkAttemptedFails(e) \/ Broadcast(e)
               \/ ReleaseLock(e) \/ BookFailure(e) \/ BookFailureFails(e) \/ WriteSent(e)
               \/ WriteSentFails(e) \/ WatchReceipt(e) \/ Crash(e)
      BY <1>t, <1>2, <3>2 DEF Claim, ClaimRefused, ClaimConflict, AcquireLock,
       AcquireTimeout, PrepareFails, PersistFails,
       MarkAttempted, MarkAttemptedFails, Broadcast, ReleaseLock, BookFailure,
       BookFailureFails, WriteSent,
       WriteSentFails, WatchReceipt, Crash, Unlocking, Goto, Leave
    <3> QED  BY <3>1, <3>2 DEF Execute
  <2>2. UNCHANGED chainVars
    BY <1>t, <1>2, ExecuteMoves DEF Broadcast, Unlocking, Goto
  <2>3. CASE UNCHANGED <<pc, on, bytes>>
    BY <1>2, <2>2, <2>3 DEF chainVars, Unused, OnWire, ReachInv, EvmInv, SlotIsOwn
  <2>4. CASE Prepare(e)
    <3>1. pc'[e] = "persist" /\ Unused(bytes'[e])
      BY <1>t, <2>4 DEF Prepare, Goto, NextSlot
    <3> QED  BY <2>2, <3>1 DEF chainVars, Unused
  <2>5. CASE PersistPrepared(e)
    <3>1. pc[e] = "persist" /\ pc'[e] = "send" /\ UNCHANGED bytes
      BY <1>t, <2>5 DEF PersistPrepared, Goto
    <3>2. Unused(bytes[e])
      BY <3>1 DEF ReachInv, EvmInv, SlotIsOwn
    <3> QED  BY <2>2, <3>1, <3>2 DEF chainVars, Unused
  <2>6. CASE Replay(e)
    <3>1. /\ pc[e] = "locked" /\ pc'[e] = "send" /\ UNCHANGED on
          /\ bytes'[e] = held[e].signed /\ held[e].signed # None
      BY <1>t, <2>6 DEF Replay, Goto
    <3>2. on[e] \in Payouts /\ held[e].signed = signed[on[e]] /\ stamped[on[e]]
      BY <3>1, BusyTypes DEF IInv, StepInv, Informed, BytesInv
    <3>3. \A f \in Executors : pc[f] # "send"
      BY <1>t, <3>1 DEF Section
    <3>4. OnWire(on[e], signed[on[e]])
      BY <3>2, <3>3 DEF ReachInv, EvmInv, SignedReaches
    <3> QED  BY <2>2, <3>1, <3>2, <3>4 DEF chainVars, OnWire
  <2> QED  BY <2>1, <2>3, <2>4, <2>5, <2>6
<1> QED  BY <1>1, <1>2 DEF SlotIsOwn

\* Every step keeps the invariant.
LEMMA NextReach ==
  ASSUME Kind = "evm" => NonceFaults \cap Faults = {}
  PROVE  TypeOK /\ IInv /\ [Next]_vars /\ TypeOK' /\ IInv' /\ ReachInv => ReachInv'
<1> SUFFICES ASSUME TypeOK, IInv, [Next]_vars, TypeOK', IInv', ReachInv  PROVE ReachInv'
  OBVIOUS
<1>g. \A p \in Payouts, s \in Slots : OnWire(p, s) => OnWire(p, s)'
  BY WireGrows
<1>s. \A p \in Payouts : stamped[p] => stamped'[p] /\ signed'[p] = signed[p]
  <2>1. CASE UNCHANGED vars
    BY <2>1 DEF vars, rowVars
  <2>2. CASE StampStays
    BY <2>2 DEF StampStays
  <2> QED  BY <2>1, <2>2, StampKept
<1>1. ASSUME NEW e \in Executors, Execute(e)  PROVE ReachInv'
  <2>1. Delivered' /\ SentIsOnWire'
    BY <1>1, <1>g, DeliveredStep, SentStep
  <2>2. ASSUME Kind = "evm"  PROVE LeaseHeld' /\ SignedReaches' /\ SlotIsOwn'
    BY <1>1, <1>g, <1>s, <2>2, LeaseStep, SignedStep, SlotStep DEF ReachInv, EvmInv
  <2> QED  BY <2>1, <2>2 DEF ReachInv, EvmInv
<1>2. ASSUME UNCHANGED <<execVars, stamped, signed>>,
             \A p \in Payouts : status'[p] \in {"sent", "confirmed"} => status'[p] = status[p]
      PROVE  Delivered' /\ SentIsOnWire' /\ (Kind = "evm" => SignedReaches')
  <2>1. UNCHANGED <<pc, on, bytes, outcome>>
    BY <1>2 DEF execVars
  <2>2. Delivered'
    <3> SUFFICES ASSUME NEW e \in Executors,
                        pc[e] \in {"write", "watch"} \/ (pc[e] = "unlock" /\ outcome[e] = "ok")
                 PROVE  OnWire(on[e], bytes[e])'
      BY <2>1 DEF Delivered
    <3>1. OnWire(on[e], bytes[e]) /\ on[e] \in Payouts /\ bytes[e] \in Slots
      BY BusyTypes DEF ReachInv, Delivered
    <3>2. pool'[bytes[e]] = on[e] \/ mined'[bytes[e]] = on[e]
      BY <1>g, <3>1 DEF OnWire
    <3> QED  BY <2>1, <3>2 DEF OnWire
  <2>3. SentIsOnWire'
    <3> SUFFICES ASSUME NEW p \in Payouts, status'[p] \in {"sent", "confirmed"}
                 PROVE  \E s \in Slots : OnWire(p, s)'
      BY DEF SentIsOnWire, OnWire
    <3>1. \E s \in Slots : OnWire(p, s)
      BY <1>2 DEF ReachInv, SentIsOnWire, OnWire
    <3> QED  BY <1>g, <3>1
  <2>4. ASSUME Kind = "evm"  PROVE SignedReaches'
    <3> SUFFICES ASSUME NEW p \in Payouts, stamped[p]
                 PROVE  OnWire(p, signed[p])' \/ \E e \in Executors : on[e] = p /\ pc[e] = "send"
      BY <1>2, <2>1 DEF SignedReaches
    <3>1. CASE OnWire(p, signed[p])
      <4>1. signed[p] \in Slots
        BY <2>4 DEF TypeOK, IInv, BytesInv
      <4>2. pool'[signed[p]] = p \/ mined'[signed[p]] = p
        BY <1>g, <3>1, <4>1 DEF OnWire
      <4> QED  BY <1>2, <4>2 DEF OnWire
    <3> QED  BY <2>4, <3>1 DEF ReachInv, EvmInv, SignedReaches
  <2> QED  BY <2>2, <2>3, <2>4
<1>3. ASSUME UNCHANGED <<execVars, chainVars, lease, stamped, signed>>,
             \A p \in Payouts : status'[p] \in {"sent", "confirmed"} => status'[p] = status[p]
      PROVE  ReachInv'
  <2>1. Kind = "evm" => LeaseHeld' /\ SlotIsOwn'
    BY <1>3 DEF ReachInv, EvmInv, LeaseHeld, SlotIsOwn, Unused, OnWire, execVars, chainVars
  <2> QED  BY <1>2, <1>3, <2>1 DEF ReachInv, EvmInv
<1>4. ASSUME NEW r \in Requesters, Request(r)  PROVE ReachInv'
  <2>1. UNCHANGED <<execVars, chainVars, lease, stamped, signed>>
    BY <1>4 DEF Request, SweptPayout, RedrivePayout, ManualPayout, Call, CheckBalance,
                RequestRollback, EnqueuePayout, InsertPayout, rowVars
  <2>2. UNCHANGED status \/ \E p \in Payouts : status' = [status EXCEPT ![p] = "pending"]
    BY <1>4 DEF Request, SweptPayout, RedrivePayout, ManualPayout, Call, CheckBalance,
                RequestRollback, EnqueuePayout, InsertPayout, rowVars
  <2> QED  BY <1>3, <2>1, <2>2 DEF TypeOK
<1>5. CASE \/ UNCHANGED vars
           \/ \E x \in Payments : MarkSettled(x)
           \/ \E p \in Payouts : Redeliver(p)
  BY <1>3, <1>5 DEF MarkSettled, Redeliver, vars, rowVars
<1>6. CASE ExpireLease
  <2>1. /\ UNCHANGED <<execVars, chainVars, rowVars>> /\ lease' = None
        /\ pc[lease] \in Section => Fault("lapse")
    BY <1>6 DEF ExpireLease
  <2>2. Kind = "evm" => LeaseHeld'
    BY <2>1 DEF ReachInv, EvmInv, LeaseHeld, Fault, NonceFaults, execVars
  <2>3. Kind = "evm" => SlotIsOwn'
    BY <2>1 DEF ReachInv, EvmInv, SlotIsOwn, Unused, OnWire, execVars, chainVars
  <2> QED  BY <1>2, <2>1, <2>2, <2>3 DEF ReachInv, EvmInv, rowVars
<1>7. ASSUME NEW s \in Slots, Mine(s)  PROVE ReachInv'
  <2>1. /\ UNCHANGED <<execVars, rowVars, lease>> /\ pool[s] # None
        /\ \A t \in Slots \ {s} : pool'[t] = pool[t] /\ mined'[t] = mined[t]
    BY <1>7 DEF Mine, TypeOK
  <2>2. Kind = "evm" => LeaseHeld'
    BY <2>1 DEF ReachInv, EvmInv, LeaseHeld, execVars
  <2>3. ASSUME Kind = "evm"  PROVE SlotIsOwn'
    <3> SUFFICES ASSUME NEW e \in Executors
                 PROVE  /\ pc[e] = "persist" => Unused(bytes[e])'
                        /\ pc[e] = "send" => (Unused(bytes[e]) \/ OnWire(on[e], bytes[e]))'
      BY <2>1 DEF SlotIsOwn, execVars
    <3>1. UNCHANGED <<bytes, on>>
      BY <2>1 DEF execVars
    <3>2. CASE pc[e] \in {"persist", "send"}
      <4>1. bytes[e] \in Slots /\ on[e] \in Payouts
        BY <2>3, <3>2, BusyTypes
      <4>2. Unused(bytes[e]) => Unused(bytes[e])'
        BY <2>1, <3>1, <4>1 DEF Unused
      <4>3. OnWire(on[e], bytes[e]) => OnWire(on[e], bytes[e])'
        <5>1. OnWire(on[e], bytes[e]) => pool'[bytes[e]] = on[e] \/ mined'[bytes[e]] = on[e]
          BY <1>g, <4>1 DEF OnWire
        <5> QED  BY <3>1, <5>1 DEF OnWire
      <4> QED  BY <2>3, <4>2, <4>3 DEF ReachInv, EvmInv, SlotIsOwn
    <3> QED  BY <3>2
  <2> QED  BY <1>2, <2>1, <2>2, <2>3 DEF ReachInv, EvmInv, rowVars
<1> QED  BY <1>1, <1>4, <1>5, <1>6, <1>7 DEF Next

\* A payout reported as sent or confirmed is at the node or in a block: on Bitcoin and
\* Tron whatever happens, on an EVM chain unless stored bytes go unsent (a lost
\* request, a death or an error just after they were stored) or the lock lapses.
THEOREM SentIsOnWireHolds ==
  ASSUME Kind = "evm" => NonceFaults \cap Faults = {}
  PROVE  Spec => []SentIsOnWire
<1>1. TypeOK /\ IInv /\ [Next]_vars => (TypeOK /\ IInv)'
  BY TypeStep, InvStep DEF IInv
<1>2. Init => ReachInv
  BY InitReach
<1>3. TypeOK /\ IInv /\ [Next]_vars /\ TypeOK' /\ IInv' /\ ReachInv => ReachInv'
  BY NextReach
<1>4. ReachInv => SentIsOnWire
  BY DEF ReachInv
<1> QED  BY <1>1, <1>2, <1>3, <1>4, Invariance, PTL DEF Spec
=============================================================================
