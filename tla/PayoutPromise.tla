---------------------------- MODULE PayoutPromise ----------------------------
(***************************************************************************)
(* What the payout subsystem promises, without workers, locks or queues: a *)
(* row reserves its merchant's balance until it is either released or      *)
(* committed; a committed row stays committed and its transfer lands at    *)
(* most once; and at most one live row serves a payment.  Payout           *)
(* implements it.                                                          *)
(***************************************************************************)
EXTENDS Naturals

CONSTANTS Payouts, Payments, None

VARIABLES
  row,      \* "none", "reserved", "released" or "committed"
  purpose,  \* the payment the row pays out, None for a manual payout
  landed    \* how many transfers of the row are in a block

vars == <<row, purpose, landed>>

Init ==
  /\ row = [p \in Payouts |-> "none"]
  /\ purpose = [p \in Payouts |-> None]
  /\ landed = [p \in Payouts |-> 0]

\* No other row holds balance for payment x.
Sole(p, x) ==
  \A q \in Payouts \ {p} :
    x # None /\ purpose[q] = x => row[q] \notin {"reserved", "committed"}

Request(p, x) ==
  /\ row[p] = "none"
  /\ Sole(p, x)
  /\ row' = [row EXCEPT ![p] = "reserved"]
  /\ purpose' = [purpose EXCEPT ![p] = x]
  /\ UNCHANGED landed

Release(p) ==
  /\ row[p] = "reserved"
  /\ row' = [row EXCEPT ![p] = "released"]
  /\ UNCHANGED <<purpose, landed>>

Retry(p) ==
  /\ row[p] = "released"
  /\ Sole(p, purpose[p])
  /\ row' = [row EXCEPT ![p] = "reserved"]
  /\ UNCHANGED <<purpose, landed>>

Commit(p) ==
  /\ row[p] = "reserved"
  /\ row' = [row EXCEPT ![p] = "committed"]
  /\ UNCHANGED <<purpose, landed>>

Land(p) ==
  /\ row[p] = "committed" /\ landed[p] = 0
  /\ landed' = [landed EXCEPT ![p] = 1]
  /\ UNCHANGED <<row, purpose>>

Next ==
  \E p \in Payouts :
    \/ \E x \in Payments \cup {None} : Request(p, x)
    \/ Release(p) \/ Retry(p) \/ Commit(p) \/ Land(p)

Spec == Init /\ [][Next]_vars
=============================================================================
