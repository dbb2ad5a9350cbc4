----------------------------- MODULE MCDeposits -----------------------------
(* Small instances of Deposits for TLC.                                      *)
EXTENDS DepositsHistory, TLC

CONSTANTS x1, t1, t2, t3

\* Every transfer goes to one payment.
OnePayment == [t \in Transfers |-> x1]
InUsdt     == [x \in Payments |-> "usdt"]
\* All of them are in the token it awaits.
AllInUsdt == [t \in Transfers |-> "usdt"]

\* Top-ups in the same token are interchangeable.
Symmetry == Permutations({t2, t3})

DueTwo     == [x \in Payments |-> 2]
\* The first transfer covers the payment, the others are top-ups.
TwoAndOne  == [t \in Transfers |-> IF t = t1 THEN 2 ELSE 1]
=============================================================================
