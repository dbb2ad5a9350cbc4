-------------------------------- MODULE Portal --------------------------------
(***************************************************************************)
(* What the API of the gateway does for a merchant's own requests: calls   *)
(* with an Idempotency-Key, the recovery of stray deposits, and signing    *)
(* in.  Calls and recoveries reserve the same balance.                     *)
(*                                                                         *)
(* A run follows one story: calls, calls and recoveries, or sign-ins; the  *)
(* sign-ins share nothing with the rest.                                   *)
(***************************************************************************)
EXTENDS Recovery, SignIn

CONSTANT Stories  \* of "calls", "recovery", "signIn"

VARIABLE story

vars == <<story, requestVars, recoveryVars, signInVars>>

Init ==
  /\ story \in Stories
  /\ RequestsInit /\ RecoveryInit /\ SignInInit
  /\ story # "calls" => \A q, r \in Requests : asked[q] = asked[r] /\ asked[r].route = "payouts"

\* While it recovers deposits the merchant also asks for payouts: whichever call
\* comes first, when there is balance for it.
PayoutCall ==
  \E r \in Requests :
    /\ asked[r].route = "payouts"
    /\ \/ record.state = "free" /\ Reserve(r)
       \/ Create(r)

Next ==
  /\ UNCHANGED story
  /\ \/ story = "calls" /\ RequestsNext /\ UNCHANGED <<recoveryVars, signInVars>>
     \/ story = "recovery" /\ RecoveryNext /\ UNCHANGED signInVars
     \/ story = "recovery" /\ PayoutCall /\ UNCHANGED <<recoveryVars, signInVars>>
     \/ story = "signIn" /\ SignInNext /\ UNCHANGED <<requestVars, recoveryVars>>

Spec == Init /\ [][Next]_vars

\* A handler that has begun goes on, unless its process dies.
FairSpec ==
  /\ Spec
  /\ \A k \in Clicks : WF_vars(story = "recovery" /\ Recover(k) /\ UNCHANGED <<story, signInVars>>)

-----------------------------------------------------------------------------
(* Properties.                                                              *)

TypeOK == story \in Stories /\ RequestsTypeOK /\ RecoveryTypeOK /\ SignInTypeOK
=============================================================================
