------------------------------- MODULE Requests -------------------------------
(***************************************************************************)
(* POST /payments and POST /payouts with one Idempotency-Key, of one       *)
(* merchant: the middleware reserves the key in Redis, the handler runs,   *)
(* and its answer replaces the reservation or releases it (idempotency,    *)
(* createPayment, requestPayout).                                          *)
(*                                                                         *)
(* The Redis commands of an answer are not awaited, so they arrive after   *)
(* it.  All of a run happens within the 24 hours a complete record lasts,  *)
(* and every record carries the fingerprint (bodyHash) of its call.        *)
(***************************************************************************)
EXTENDS Integers, FiniteSetsExt

CONSTANTS
  Requests,   \* HTTP requests with the key, in any order and at once
  Calls,      \* what a request may ask for: a route and its body
  Asks,       \* which request asks for what, one of these
  Funds,      \* payouts of one unit the merchant's balance allows
  MaxCauses,  \* faults in a run
  None

ASSUME RequestsAssumption ==
  /\ IsFiniteSet(Requests)
  /\ Calls \subseteq [route : {"payments", "payouts"}, body : STRING]
  /\ Asks \subseteq [Requests -> Calls]
  /\ Funds \in Nat /\ MaxCauses \in Nat
  /\ None \notin Calls

VARIABLES
  asked,      \* the call of each request
  record,     \* what Redis holds under the key
  request,    \* where each request is, whether it reserved the key, its reply
  command,    \* the Redis command a request has sent off: SET, DEL or none
  made,       \* the payments and payouts committed, and by which request
  reserved,   \* units of the balance that payouts hold
  cause       \* how often each thing that may cost the protection happened

requestVars == <<asked, record, request, command, made, reserved, cause>>

Faults == {"lapse", "redis", "enqueue", "crash"}
Causes == Faults \cup {"vanished"}

\* A reply is the payment or payout it tells of; an error's is empty.
Thing(r) == [call |-> asked[r], by |-> r]
Free     == [state |-> "free", call |-> None, reply |-> {}]

InFlight(r) == [state |-> "in_flight", call |-> asked[r], reply |-> {}]
Complete(r) == [state |-> "complete", call |-> asked[r], reply |-> request[r].reply]

Suffer(c) ==
  /\ SumFunctionOnSet(cause, Faults) < MaxCauses
  /\ cause' = [cause EXCEPT ![c] = @ + 1]

RequestsInit ==
  /\ asked \in Asks
  /\ record = Free
  /\ request = [r \in Requests |-> [at |-> "new", owns |-> FALSE, reply |-> {}]]
  /\ command = [r \in Requests |-> "none"]
  /\ made = {}
  /\ reserved = 0
  /\ cause = [c \in Causes |-> 0]

-----------------------------------------------------------------------------
(* The middleware.                                                          *)

To(r, place) == request' = [request EXCEPT ![r].at = place]
Own(r)       == request' = [request EXCEPT ![r] = [@ EXCEPT !.at = "running", !.owns = TRUE]]

\* A GET, and the SET only with the answer.
ReserveLate(r) ==
  /\ request[r].at = "new"
  /\ \/ record.state = "free" /\ Own(r)
     \/ record.state # "free" /\ To(r, "taken")
  /\ UNCHANGED <<asked, record, command, made, reserved, cause>>

\* SET key reservation EX 60 NX.
Reserve(r) ==
  /\ request[r].at = "new"
  /\ \/ record.state = "free" /\ record' = InFlight(r) /\ Own(r)
     \/ record.state # "free" /\ To(r, "taken") /\ UNCHANGED record
  /\ UNCHANGED <<asked, command, made, reserved, cause>>

\* Redis answers the SET with an error, whether or not it did it: the request
\* runs without protection, and nobody will release what it may have reserved.
ReserveFails(r) ==
  /\ request[r].at = "new"
  /\ \/ UNCHANGED record
     \/ record.state = "free" /\ record' = InFlight(r)
  /\ To(r, "running")
  /\ Suffer("redis")
  /\ UNCHANGED <<asked, command, made, reserved>>

\* No fingerprint is compared.
LookBlind(r) ==
  /\ request[r].at = "taken"
  /\ \/ /\ record.state = "free"
        /\ To(r, "running")
        /\ cause' = [cause EXCEPT !["vanished"] = @ + 1]
     \/ /\ record.state # "free"
        /\ request' = [request EXCEPT ![r].at = "done", ![r].reply = record.reply]
        /\ UNCHANGED cause
  /\ UNCHANGED <<asked, record, command, made, reserved>>

\* serveExisting: a record that vanished since the SET lets the request run
\* without the key; another call's is refused (422); a complete one is replayed;
\* one in flight is a conflict (409).
Look(r) ==
  /\ request[r].at = "taken"
  /\ \/ /\ record.state = "free"
        /\ To(r, "running")
        /\ cause' = [cause EXCEPT !["vanished"] = @ + 1]
     \/ /\ record.state # "free"
        /\ request' = [request EXCEPT ![r].at = "done",
                         ![r].reply = IF record.call = asked[r] THEN record.reply ELSE {}]
        /\ UNCHANGED cause
  /\ UNCHANGED <<asked, record, command, made, reserved>>

LookFails(r) ==
  /\ request[r].at = "taken"
  /\ To(r, "running")
  /\ Suffer("redis")
  /\ UNCHANGED <<asked, record, command, made, reserved>>

-----------------------------------------------------------------------------
(* The handlers.                                                            *)

\* The unique (client_id, order_id) of payments; the body of a call stands for
\* its order.
OrderTaken(r) == \E m \in made : m.call = asked[r]

Allowed(r) ==
  \/ asked[r].route = "payments" /\ ~OrderTaken(r)
  \/ asked[r].route = "payouts" /\ reserved < Funds

Commit(r) ==
  /\ request[r].at = "running"
  /\ Allowed(r)
  /\ made' = made \cup {Thing(r)}
  /\ reserved' = IF asked[r].route = "payouts" THEN reserved + 1 ELSE reserved

\* createPayment, requestPayout.
Create(r) ==
  /\ Commit(r)
  /\ request' = [request EXCEPT ![r] = [@ EXCEPT !.at = "ran", !.reply = {Thing(r)}]]
  /\ UNCHANGED <<asked, record, command, cause>>

\* A payout's row is committed and its job cannot be queued: the handler throws.
CreateUnqueued(r) ==
  /\ asked[r].route = "payouts"
  /\ Commit(r)
  /\ To(r, "ran")
  /\ Suffer("enqueue")
  /\ UNCHANGED <<asked, record, command>>

\* The order exists, the balance is too small, or something throws before.
Refuse(r) ==
  /\ request[r].at = "running"
  /\ To(r, "ran")
  /\ UNCHANGED <<asked, record, command, made, reserved, cause>>

\* The answer always releases the key.
AnswerReleasing(r) ==
  /\ request[r].at = "ran"
  /\ To(r, "done")
  /\ command' = IF request[r].owns THEN [command EXCEPT ![r] = "DEL"] ELSE command
  /\ UNCHANGED <<asked, record, made, reserved, cause>>

\* A 2xx answer sends off the SET of the complete record, any other the DEL.
Answer(r) ==
  /\ request[r].at = "ran"
  /\ To(r, "done")
  /\ command' = IF request[r].owns
                THEN [command EXCEPT ![r] = IF request[r].reply # {} THEN "SET" ELSE "DEL"]
                ELSE command
  /\ UNCHANGED <<asked, record, made, reserved, cause>>

\* The command arrives, whoever's record is there by now.
Land(r) ==
  /\ command[r] # "none"
  /\ record' = IF command[r] = "SET" THEN Complete(r) ELSE Free
  /\ command' = [command EXCEPT ![r] = "none"]
  /\ UNCHANGED <<asked, request, made, reserved, cause>>

LandFails(r) ==
  /\ command[r] # "none"
  /\ command' = [command EXCEPT ![r] = "none"]
  /\ Suffer("redis")
  /\ UNCHANGED <<asked, record, request, made, reserved>>

-----------------------------------------------------------------------------
(* Time and crashes.                                                        *)

\* The reservation's 60 seconds are over, whether or not its handler is.
Lapse ==
  /\ record.state = "in_flight"
  /\ record' = Free
  /\ Suffer("lapse")
  /\ UNCHANGED <<asked, request, command, made, reserved>>

\* The process of a request dies, with the command it had not sent.
Crash(r) ==
  /\ request[r].at \in {"taken", "running", "ran"} \/ command[r] # "none"
  /\ To(r, "dead")
  /\ command' = [command EXCEPT ![r] = "none"]
  /\ Suffer("crash")
  /\ UNCHANGED <<asked, record, made, reserved>>

RequestsNext ==
  \/ Lapse
  \/ \E r \in Requests :
       \/ Reserve(r) \/ ReserveFails(r) \/ Look(r) \/ LookFails(r)
       \/ Create(r) \/ CreateUnqueued(r) \/ Refuse(r)
       \/ Answer(r) \/ Land(r) \/ LandFails(r) \/ Crash(r)

RequestsSpec == RequestsInit /\ [][RequestsNext]_requestVars

-----------------------------------------------------------------------------
(* Properties.                                                              *)

Things == [call : Calls, by : Requests]
Places == {"new", "taken", "running", "ran", "done", "dead"}
Marks  == [at : Places, owns : BOOLEAN, reply : SUBSET Things]

RequestsTypeOK ==
  /\ asked \in [Requests -> Calls]
  /\ record \in [state : {"free", "in_flight", "complete"}, call : Calls \cup {None},
                 reply : SUBSET Things]
  /\ request \in [Requests -> Marks]
  /\ command \in [Requests -> {"none", "SET", "DEL"}]
  /\ made \subseteq Things
  /\ reserved \in Nat
  /\ cause \in [Causes -> Nat]

\* What a request is told of, at first hand or replayed, is what it asked for: a
\* key used for two orders never gives one the other's payment (serveExisting).
ReplyIsMine == \A r \in Requests : \A m \in request[r].reply : m.call = asked[r]

\* An order has one payment, also when the key protects nothing because Redis was
\* down or a reservation lapsed (createPayment).
OnePerOrder ==
  \A m, n \in made : m.call = n.call /\ m.call.route = "payments" => m = n

\* Retries and concurrent submissions with one key make one payment or payout.
\* A further one has a cause: a reservation that lapsed, Redis failing, a payout
\* whose job could not be queued, or a record that vanished between a request's
\* SET and its GET (idempotency).
ExtraHasCause ==
  Cardinality(made) <=
    1 + cause["lapse"] + cause["redis"] + cause["enqueue"] + cause["vanished"]
=============================================================================
