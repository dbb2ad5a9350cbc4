------------------------------ MODULE MCPayout ------------------------------
(* Small instances of Payout for TLC.                                      *)
EXTENDS PayoutInv, TLC

CONSTANTS p1, p2, p3, p4, x1, x2, e1, e2, r1, r2

OneUnit == [x \in Payments |-> 1]

\* Rows, workers and requesters are interchangeable.
Symmetry ==
  Permutations(Payouts) \cup Permutations(Executors) \cup Permutations(Requesters)
    \cup Permutations(Payments)
=============================================================================
