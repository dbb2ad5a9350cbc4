---------------------------- MODULE MCSettlement ----------------------------
(* Small instances of Settlement for TLC.                                    *)
EXTENDS Settlement

CONSTANTS x1, w1, w2

FourUnits == [x \in Payments |-> 4]

\* A commission of half the gross, rounded down.
Half == [g \in 0..MaxUnits |-> g \div 2]
=============================================================================
