----------------------------- MODULE MCWithdrawal -----------------------------
(* Small instances of Withdrawal for TLC.                                    *)
EXTENDS Withdrawal

CONSTANTS x1, x2

GrossThree == [x \in Payments |-> 3]
NetTwo     == [x \in Payments |-> 2]
=============================================================================
