------------------------------- MODULE MCPortal -------------------------------
(* Small instances of Portal for TLC.                                       *)
EXTENDS Portal

CONSTANTS r1, r2, r3, d1, d2, d3

Orders(route) == {[route |-> route, body |-> b] : b \in {"a", "b"}}
AllCalls == Orders("payments") \cup Orders("payouts")

\* One route; one or two of the requests may be for another order by mistake.
OneRoute == {f \in [Requests -> AllCalls] :
               f[r1].body = "a" /\ \A r \in Requests : f[r].route = f[r1].route}

\* A second deposit comes to the address of the late payment.
TwiceLate == [d \in Rows |-> IF d \in Late THEN 2 ELSE 1]
=============================================================================
