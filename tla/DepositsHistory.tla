--------------------------- MODULE DepositsHistory ---------------------------
(***************************************************************************)
(* Deposits with a history variable: the payments that a pass has taken    *)
(* back from 'confirmed' to 'waiting' after a reorganisation.  The program *)
(* keeps no such set; what its listener guarantees depends on it.          *)
(***************************************************************************)
EXTENDS Deposits

VARIABLE back   \* payments that a pass has taken back

historyVars == <<vars, back>>

TakenBack == {x \in Payments : status[x] = "confirmed" /\ status'[x] = "waiting"}
Remember  == back' = back \cup TakenBack

HistoryInit == Init /\ back = {}
HistoryNext == Next /\ Remember
HistorySpec == HistoryInit /\ [][HistoryNext]_historyVars
FairHistorySpec == HistorySpec /\ Fairness

-----------------------------------------------------------------------------
(* Properties.                                                             *)

\* The cursor passes no transfer that a live payment awaits and that has no row in
\* its right block: nothing behind the cursor is read again (reconcileOnce).  The
\* exception is a payment that a pass took back: the watch set of that pass left it
\* out as confirmed.
NoneMissed ==
  \A t \in Transfers : LET x == To[t] IN
    (at[t] \in 1..cursor /\ status[x] \in Live /\ x \notin back /\ t \in Incoming(x))
      => tx[t].status \in {"pending", "confirmed"} /\ tx[t].block = at[t]

\* "Every block <= head was already mined ...; a deposit address that is missing from
\* the set refreshed AFTER that moment therefore did not exist" (reconcileOnce): the
\* cursor passes no transfer that a live payment awaits, without exception.
NeverMissed ==
  \A t \in Transfers : LET x == To[t] IN
    (at[t] \in 1..cursor /\ status[x] \in Live /\ t \in Incoming(x))
      => tx[t].status \in {"pending", "confirmed"} /\ tx[t].block = at[t]
=============================================================================
