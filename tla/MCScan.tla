------------------------------- MODULE MCScan -------------------------------
(* Small instances of Scan for TLC.                                        *)
EXTENDS Scan

CONSTANTS x1, x2, t1, t2, t3

ToEach     == [t \in Transfers |-> IF t = t3 THEN x2 ELSE x1]
\* Neither of the first two transfers covers the first payment.
DueTwoOne  == [x \in Payments |-> IF x = x1 THEN 2 ELSE 1]
Ones       == [t \in Transfers |-> 1]
\* The third transfer is in another token, in the transaction of the first.
OneStranger == [t \in Transfers |-> IF t = t3 THEN "usdc" ELSE "usdt"]
InUsdt     == [x \in Payments |-> "usdt"]
Together   == [t \in Transfers |-> IF t = t3 THEN t1 ELSE t]
Depth      == [c \in Chains |-> IF c = "BTC" THEN 2 ELSE 1]
=============================================================================
