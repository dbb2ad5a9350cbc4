------------------------------- MODULE Filing -------------------------------
(***************************************************************************)
(* What a listener promises of unexpected_deposits, the list a merchant    *)
(* recovers stray money from.                                              *)
(***************************************************************************)
CONSTANTS To        \* the payment whose address a transfer goes to

VARIABLES
  chain,     \* whose listener this is
  status,    \* payments.status
  counted,   \* counted[x]: the transfers payments.amount_received is the sum of
  listed     \* the transfers that have a row in unexpected_deposits

\* What the Bitcoin listener lists for recovery is not money of a payment that was
\* confirmed with it, although it reads every transfer again after that: whoever
\* recovers it would sweep what the sweep worker owns.
ListedIsStray ==
  \A t \in listed : chain = "BTC" /\ status[To[t]] = "confirmed" => t \notin counted[To[t]]
=============================================================================
