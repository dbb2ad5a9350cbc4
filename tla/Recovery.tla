------------------------------- MODULE Recovery -------------------------------
(***************************************************************************)
(* Money that came to a deposit address and could not be credited: it is   *)
(* recorded, and the merchant recovers it with POST                        *)
(* /account/unexpected-deposits/:id/recover (recordUnexpectedDeposit,      *)
(* claimForSweep, markSwept, markFailed).  A late payment's payout takes   *)
(* from the balance that the requests of module Requests take from.        *)
(*                                                                         *)
(* Each row is at an address of its own, whose payment has expired.  A     *)
(* recovery is one HTTP request; each of its statements is a step.         *)
(***************************************************************************)
EXTENDS Requests

CONSTANTS
  Rows,        \* unexpected_deposits rows
  Late,        \* those in the payment's own asset; the others are a wrong coin
  Indexless,   \* those without a derivation index
  Clicks,      \* recovery requests
  Comes,       \* units that come to its address, at most
  MaxTroubles  \* faults in a run

ASSUME RecoveryAssumption ==
  /\ Late \subseteq Rows /\ Indexless \subseteq Rows
  /\ Comes \in [Rows -> Nat] /\ MaxTroubles \in Nat
  /\ None \notin Rows

VARIABLES
  status,   \* of each row
  came,     \* units that came to its address
  moved,    \* units of them that were swept to the central wallet
  booked,   \* units of them that the ledger has a 'sweep' row for
  settled,  \* the late payments that have a payout
  click,    \* where each recovery is, its row, and what it moved
  trouble   \* how often each thing went wrong

recoveryVars == <<status, came, moved, booked, settled, click, trouble>>

Troubles == {"statement", "mark", "wait", "crash"}
Strikes  == Troubles \cup {"unmoved"}

Trouble(t) ==
  /\ SumFunctionOnSet(trouble, Troubles) < MaxTroubles
  /\ trouble' = [trouble EXCEPT ![t] = @ + 1]

RecoveryInit ==
  /\ status = [d \in Rows |-> "none"]
  /\ came = [d \in Rows |-> 0]
  /\ moved = [d \in Rows |-> 0]
  /\ booked = [d \in Rows |-> 0]
  /\ settled = {}
  /\ click = [k \in Clicks |-> [at |-> "new", row |-> None, amount |-> 0]]
  /\ trouble = [t \in Strikes |-> 0]

Held(d) == came[d] - moved[d]
Step(k, place) == click' = [click EXCEPT ![k].at = place]
Mark(d, s)     == status' = [status EXCEPT ![d] = s]

\* What a recovery leaves alone unless it says otherwise.
Aside == UNCHANGED <<requestVars, came>>

-----------------------------------------------------------------------------
(* Deposits and their rows.                                                 *)

Arrive(d) ==
  /\ came[d] < Comes[d]
  /\ came' = [came EXCEPT ![d] = @ + 1]
  /\ UNCHANGED <<requestVars, status, moved, booked, settled, click, trouble>>

\* recordUnexpectedDeposit, called by the listeners and by reapLateDeposits: an
\* address that has a row gets no other.
RecordDeposit(d) ==
  /\ status[d] = "none"
  /\ Held(d) > 0
  /\ Mark(d, "detected")
  /\ UNCHANGED <<moved, booked, settled, click, trouble>> /\ Aside

-----------------------------------------------------------------------------
(* A recovery.                                                              *)

\* The status is not looked at.
ClaimAny(k, d) ==
  /\ click[k].at = "new"
  /\ status[d] # "none"
  /\ Mark(d, "sweeping")
  /\ click' = [click EXCEPT ![k] = [at |-> IF d \in Indexless THEN "indexless" ELSE "sweep",
                                    row |-> d, amount |-> 0]]
  /\ UNCHANGED <<moved, booked, settled, trouble>> /\ Aside

\* claimForSweep; the click on a row that cannot be claimed is refused.
Claim(k, d) ==
  /\ click[k].at = "new"
  /\ status[d] \in {"detected", "failed"}
  /\ Mark(d, "sweeping")
  /\ click' = [click EXCEPT ![k] = [at |-> IF d \in Indexless THEN "indexless" ELSE "sweep",
                                    row |-> d, amount |-> 0]]
  /\ UNCHANGED <<moved, booked, settled, trouble>> /\ Aside

\* Without an index there is nothing to sweep with: failed, outside of the try.
RefuseIndexless(k) ==
  /\ click[k].at = "indexless"
  /\ Mark(click[k].row, "failed")
  /\ Step(k, "done")
  /\ UNCHANGED <<moved, booked, settled, trouble>> /\ Aside

\* sweepDeposit moves the whole balance.
Sweep(k) ==
  LET d == click[k].row IN
  /\ click[k].at = "sweep"
  /\ Held(d) > 0
  /\ moved' = [moved EXCEPT ![d] = came[d]]
  /\ click' = [click EXCEPT ![k].at = "moved", ![k].amount = Held(d)]
  /\ UNCHANGED <<status, booked, settled, trouble>> /\ Aside

\* Nothing worth moving, or a fee that is too high now: failed, and the
\* AppError thrown next is caught.
SweepNothing(k) ==
  /\ click[k].at = "sweep"
  /\ Mark(click[k].row, "failed")
  /\ Step(k, "caught")
  /\ trouble' = [trouble EXCEPT !["unmoved"] = @ + 1]
  /\ UNCHANGED <<moved, booked, settled>> /\ Aside

\* sweepDeposit throws: before the transfer, or while it waits for its receipt.
SweepThrows(k) ==
  LET d == click[k].row IN
  /\ click[k].at = "sweep"
  /\ Step(k, "caught")
  /\ moved' \in {moved, [moved EXCEPT ![d] = came[d]]}
  /\ Trouble("wait")
  /\ UNCHANGED <<status, booked, settled>> /\ Aside

MarkSwept(k) ==
  /\ click[k].at = "moved"
  /\ Mark(click[k].row, "swept")
  /\ Step(k, "booking")
  /\ UNCHANGED <<moved, booked, settled, trouble>> /\ Aside

\* The INSERT of the ledger's 'sweep' row.
BookTransfer(k) ==
  LET d == click[k].row IN
  /\ click[k].at = "booking"
  /\ booked' = [booked EXCEPT ![d] = @ + click[k].amount]
  /\ Step(k, IF d \in Late THEN "settling" ELSE "ended")
  /\ UNCHANGED <<status, moved, settled, trouble>> /\ Aside

\* requestPayout for a late payment: its guard counts what payments that are
\* confirmed or swept received, and this one is expired.  A refusal is logged, and
\* so is an enqueue that fails after the COMMIT, which leaves the same rows.
SettleLate(k) ==
  LET d == click[k].row IN
  /\ click[k].at = "settling"
  /\ \/ /\ click[k].amount <= Funds - reserved
        /\ d \notin settled
        /\ reserved' = reserved + click[k].amount
        /\ settled' = settled \cup {d}
     \/ /\ click[k].amount > Funds - reserved \/ d \in settled
        /\ UNCHANGED <<reserved, settled>>
  /\ Step(k, "ended")
  /\ UNCHANGED <<asked, record, request, command, made, cause>>
  /\ UNCHANGED <<status, came, moved, booked, trouble>>

\* The statement of a step fails: on to the catch.
StatementFails(k) ==
  /\ click[k].at \in {"moved", "booking"}
  /\ Step(k, "caught")
  /\ Trouble("statement")
  /\ UNCHANGED <<status, moved, booked, settled>> /\ Aside

\* The error is answered and the row is left in the state it has.
CaughtOnly(k) ==
  /\ click[k].at = "caught"
  /\ Step(k, "done")
  /\ UNCHANGED <<status, moved, booked, settled, trouble>> /\ Aside

\* catch: markFailed, whatever the row's status is.
Caught(k) ==
  /\ click[k].at = "caught"
  /\ Mark(click[k].row, "failed")
  /\ Step(k, "done")
  /\ UNCHANGED <<moved, booked, settled, trouble>> /\ Aside

\* markFailed itself fails.
MarkFails(k) ==
  /\ click[k].at \in {"caught", "indexless"}
  /\ Step(k, "done")
  /\ Trouble("mark")
  /\ UNCHANGED <<status, moved, booked, settled>> /\ Aside

Underway == {"indexless", "sweep", "moved", "booking", "settling", "caught"}

Dies(k) ==
  /\ click[k].at \in Underway
  /\ Step(k, "dead")
  /\ Trouble("crash")
  /\ UNCHANGED <<status, moved, booked, settled>> /\ Aside

\* What the handler of a recovery does on its own.
Recover(k) ==
  \/ RefuseIndexless(k) \/ Sweep(k) \/ SweepNothing(k) \/ MarkSwept(k) \/ BookTransfer(k)
  \/ SettleLate(k) \/ Caught(k)

RecoveryNext ==
  \/ \E d \in Rows : Arrive(d) \/ RecordDeposit(d)
  \/ \E k \in Clicks :
       \/ \E d \in Rows : Claim(k, d)
       \/ Recover(k) \/ SweepThrows(k) \/ StatementFails(k) \/ MarkFails(k) \/ Dies(k)

-----------------------------------------------------------------------------
(* Properties.                                                              *)

RecoveryTypeOK ==
  /\ status \in [Rows -> {"none", "detected", "sweeping", "swept", "failed"}]
  /\ came \in [Rows -> Nat]
  /\ moved \in [Rows -> Nat]
  /\ booked \in [Rows -> Nat]
  /\ \A d \in Rows : moved[d] <= came[d]
  /\ settled \subseteq Rows
  /\ click \in [Clicks -> [at : Underway \cup {"new", "ended", "done", "dead"},
                           row : Rows \cup {None}, amount : Nat]]
  /\ \A k \in Clicks : click[k].at \in Underway => click[k].row \in Rows
  /\ trouble \in [Strikes -> Nat]

\* The status of a row is its lock: no two recoveries are at work on one row,
\* unless one of them found nothing to move and marked it failed twice
\* (claimForSweep).
OneRecovery ==
  trouble["unmoved"] = 0 =>
    \A j, k \in Clicks :
      click[j].at \in Underway /\ click[k].at \in Underway /\ click[j].row = click[k].row => j = k

\* A row leaves 'sweeping' however its recovery ends, unless its process died or
\* the database refused to mark it: "leave a readable reason on the row, and
\* allow a retry" (routes/account.ts).
ClaimEnds ==
  \A d \in Rows :
    status[d] = "sweeping" ~> status[d] # "sweeping" \/ trouble["crash"] + trouble["mark"] > 0

\* "A late payment is still the merchant's money": a late payment that was
\* recovered and booked is paid out (routes/account.ts).
LateIsPaid ==
  \A k \in Clicks : click[k].at = "ended" /\ click[k].row \in Late => click[k].row \in settled
=============================================================================
