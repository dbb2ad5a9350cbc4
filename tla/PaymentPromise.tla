--------------------------- MODULE PaymentPromise ---------------------------
(***************************************************************************)
(* What the listeners promise of a payment, without blocks, rows, passes   *)
(* or watch sets: money the chain holds for good stays; the payment is     *)
(* paid once its price is both held and credited, and its credit is frozen *)
(* from then on; only a reorganisation opens it again; and it does not     *)
(* come back from expiry or from the sweep.  Deposits implements it for    *)
(* each of its payments, and so does Scan.                                 *)
(***************************************************************************)

VARIABLES
  life,      \* "none", "open", "paid", "swept" or "expired"
  funded,    \* the chain holds the price, and keeps it
  credited   \* the merchant is credited with the price

vars == <<life, funded, credited>>

\* A payment of price zero is funded and credited from the start.
Init ==
  /\ life = "none"
  /\ funded \in BOOLEAN
  /\ credited \in BOOLEAN

Move(from, to) == life = from /\ life' = to

Create == Move("none", "open") /\ UNCHANGED <<funded, credited>>

Fund ==
  /\ UNCHANGED <<life, credited>>
  /\ funded => funded'

Credit ==
  /\ life = "open"
  /\ credited' \in BOOLEAN
  /\ UNCHANGED <<life, funded>>

Pay ==
  /\ funded /\ credited
  /\ Move("open", "paid")
  /\ UNCHANGED <<funded, credited>>

Reopen ==
  /\ Move("paid", "open")
  /\ credited' \in BOOLEAN
  /\ UNCHANGED funded

Expire == Move("open", "expired") /\ UNCHANGED <<funded, credited>>

Sweep == Move("paid", "swept") /\ UNCHANGED <<funded, credited>>

Next == Fund \/ Create \/ Credit \/ Pay \/ Reopen \/ Expire \/ Sweep

Spec == Init /\ [][Next]_vars
=============================================================================
