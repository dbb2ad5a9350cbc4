------------------------------ MODULE PayoutInv ------------------------------
(* The inductive invariant of Payout: why its safety properties hold.        *)
EXTENDS Payout

\* Executor e has claimed row p and has not left it.
Busy(e, p) == on[e] = p /\ pc[e] \notin {"idle", "claim"}

\* The transaction of row p is at the node or in a block.
OnWire(p, s) == pool[s] = p \/ mined[s] = p

\* An idle executor holds no row; before the claim nothing is known of a row.
IdleInv ==
  \A e \in Executors :
    /\ on[e] = None <=> pc[e] = "idle"
    /\ pc[e] \in {"idle", "claim"} => held[e] = NoHeld

\* The status tells what broadcast_at and signed_tx are.
StatusInv ==
  \A p \in Payouts :
    /\ status[p] \in {"none", "pending", "failed"} =>
         ~stamped[p] /\ \A e \in Executors : ~Busy(e, p)
    /\ status[p] \in {"unresolved", "sent", "confirmed"} => stamped[p]

\* broadcast_at and signed_tx are written together, or the chain has no bytes.
BytesInv ==
  \A p \in Payouts :
    /\ signed[p] # None => stamped[p] /\ Kind # "tron"
    /\ stamped[p] /\ Kind # "tron" => signed[p] # None

\* A row that is not stamped has one executor past the claim.
SoleInv ==
  \A p \in Payouts : \A e, f \in Executors :
    ~stamped[p] /\ Busy(e, p) /\ Busy(f, p) => e = f

\* What executor e knows of its row, point by point.
Informed(e) ==
  /\ pc[e] # "idle" => held[e].signed \in {None, signed[on[e]]}
  /\ held[e].stamped => stamped[on[e]] /\ (Kind # "tron" => held[e].signed # None)
  /\ pc[e] \in {"lock", "locked"} /\ held[e].signed = None => ~stamped[on[e]]
  /\ pc[e] = "persist" => Kind # "tron" /\ ~stamped[on[e]] /\ bytes[e] # None
  /\ pc[e] = "send" => stamped[on[e]]
  /\ pc[e] = "send" /\ Kind # "tron" => bytes[e] = signed[on[e]]
  /\ pc[e] = "unlock" /\ outcome[e] = "ok" => stamped[on[e]] /\ bytes[e] # None
  /\ pc[e] \in {"write", "watch"} => stamped[on[e]] /\ bytes[e] # None

StepInv == \A e \in Executors : Informed(e)

\* What the node has of a row is what the row was signed as.
WireInv ==
  \A s \in Slots :
    /\ pool[s] # None => mined[s] = None
    /\ \A p \in Payouts : OnWire(p, s) =>
         stamped[p] /\ (Kind # "tron" => signed[p] = s)

\* Without stored bytes, one executor sends one transaction, once.
TronInv ==
  Kind = "tron" => \A p \in Payouts :
    /\ \A e, f \in Executors :
         on[e] = p /\ on[f] = p /\ pc[e] = "send" /\ pc[f] = "send" => e = f
    /\ \A s, t \in Slots : OnWire(p, s) /\ OnWire(p, t) => s = t
    /\ \A s \in Slots : \A e \in Executors : OnWire(p, s) => ~(on[e] = p /\ pc[e] = "send")

\* uq_payouts_active_payment.
IndexInv ==
  \A x \in Payments : \A p, q \in Active(x) : p = q

IInv ==
  /\ IdleInv /\ StatusInv /\ BytesInv /\ SoleInv /\ StepInv /\ WireInv /\ TronInv
  /\ IndexInv /\ SettledIsHeld /\ ConfirmedLanded
=============================================================================
