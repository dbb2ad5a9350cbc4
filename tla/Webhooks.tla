------------------------------ MODULE Webhooks ------------------------------
(* Delivery of one payment's webhook events: enqueueWebhook and dispatch     *)
(* (services/webhookService.ts), the retry policy (workers/queues.ts), the   *)
(* reaper of the settle tick (redeliverAbandonedWebhooks, workers/index.ts)  *)
(* and the held enqueues of the EVM listener (blockchain/evmListener.ts).    *)
(*                                                                           *)
(* Rows of webhook_logs are kept per event, which is the reaper's group: the *)
(* newest row of it, and whether any row of it succeeded.  A job that is on  *)
(* its first attempt updates its own row, a later attempt inserts a row.     *)
(* Time is counted in units longer than a settle tick and an HTTP answer.    *)
EXTENDS Integers, Sequences, FiniteSets, SequencesExt, FiniteSetsExt

CONSTANTS
  Events,      \* events of the payment, each emitted once
  Followed,    \* those whose delivery is followed; of the others, which it does
               \* not touch, only the way into the queue is
  Base, Cap,   \* WEBHOOK_BACKOFF_BASE_MS, WEBHOOK_BACKOFF_MAX_MS
  Target,      \* WEBHOOK_RETRY_TARGET_MS
  MaxRetries,  \* WEBHOOK_MAX_RETRIES
  Timeout,     \* WEBHOOK_TIMEOUT_MS
  Grace,       \* WEBHOOK_UNDISPATCHED_GRACE_MS
  MaxAge,      \* WEBHOOK_REDELIVER_MAX_AGE_MS
  MaxOutage,   \* failures of a held enqueue that are not counted as faults
  Faults,      \* kinds of failure admitted
  MaxFaults,   \* how many
  None

FaultKinds ==
  {"insert", "add", "parked", "record", "crash", "workerDies", "behind", "reapAdd", "reapCrash"}

ASSUME WebhooksAssumption ==
  /\ Followed \subseteq Events
  /\ Base \in Nat \ {0} /\ Cap \in Nat /\ Cap >= Base
  /\ Target \in Nat /\ MaxRetries \in Nat /\ Timeout \in Nat
  /\ Grace \in Nat /\ MaxAge \in Nat /\ MaxOutage \in Nat
  /\ Faults \subseteq FaultKinds /\ MaxFaults \in Nat

VARIABLES
  evm,     \* emitted by the EVM listener, through enqueueOrDefer; the others
           \* only log what fails
  url,     \* what the merchant's endpoint does
  emit,    \* where the enqueueWebhook of each event is
  fifo,    \* deferredEnqueues
  tried,   \* DeferredItem.attempts
  row,     \* the newest row of each event
  won,     \* events with a successful row
  jobs,    \* BullMQ jobs of each event
  parked,  \* adds that timed out and may still land
  reaped,  \* rows stamped by the reaper and not yet added
  byHand,  \* events left to people: stamped and not added, or refused by dispatch
  ahead,   \* ghost: what was held when an event was emitted
  queued,  \* ghost: events a job was ever added for
  faults

Held == IF evm THEN Events ELSE {}

producer == <<emit, fifo, tried, parked, ahead>>
tables   == <<row, won>>
queue    == <<jobs, queued>>
reaper   == <<reaped, byHand>>
vars == <<evm, url, producer, tables, queue, reaper, faults>>

-----------------------------------------------------------------------------
(* The retry policy.                                                       *)

\* webhookBackoffMs: doubled up to the cap, and not where the power overflows.
Backoff ==
  [n \in Nat \ {0} |-> IF n > Cap THEN Cap ELSE Min({Cap, Base * 2^(n - 1)} \cap (0 .. Cap))]
\* backoffSpanMs: the gaps before attempt a.
GapSpan(a) == MapThenSumSet(LAMBDA n : Backoff[n], 1 .. a - 1)
\* attemptsCovering.
Covering ==
  CHOOSE a \in 1 .. 500 : /\ GapSpan(a) >= Target \/ a = 500
                          /\ \A b \in 1 .. a - 1 : GapSpan(b) < Target
\* WEBHOOK_ATTEMPTS and WEBHOOK_RETRY_SPAN_MS.
Attempts == Max({1, MaxRetries, Covering})
\* Mutant: the time the requests take is forgotten.
RetrySpanGaps == GapSpan(Attempts)
RetrySpan == GapSpan(Attempts) + Attempts * Timeout

-----------------------------------------------------------------------------
Row(told) == [age |-> 0, told |-> told, stamped |-> FALSE]
\* A job: attemptsMade, the time left before it is due or answers, and
\* whether its row is the newest.
NewJob(own) == [state |-> "wait", made |-> 0, left |-> 0, own |-> own]

TypeOK ==
  /\ evm \in BOOLEAN
  /\ url \in {"up", "down", "blocked"}
  /\ emit \in [Events -> {"none", "insert", "add", "held", "done", "lost"}]
  /\ fifo \in Seq(Held) /\ IsInjective(fifo)
  /\ \A e \in Held : e \in Range(fifo) => emit[e] \in {"held", "insert", "add"}
  /\ tried \in [Events -> Nat]
  /\ \A e \in Events : row[e] = None
       \/ row[e] \in [age : 0 .. MaxAge + 1, told : BOOLEAN, stamped : BOOLEAN]
  /\ won \subseteq Events
  /\ jobs \in [Events -> Seq([state : {"wait", "active"}, made : 0 .. Attempts - 1,
                              left : 0 .. Max({Cap, Timeout}), own : BOOLEAN])]
  /\ \A e \in Events : jobs[e] # <<>> => row[e] # None
  /\ parked \in [Events -> {"no", "own", "old"}]
  /\ reaped \in [Events -> {"no", "own", "old"}] /\ byHand \subseteq Events
  /\ ahead \in [Events -> SUBSET Events] /\ queued \subseteq Events
  /\ faults \in 0 .. MaxFaults

Init ==
  /\ evm \in BOOLEAN
  /\ url \in {"up", "down", "blocked"}
  /\ emit = [e \in Events |-> "none"]
  /\ fifo = <<>> /\ tried = [e \in Events |-> 0]
  /\ row = [e \in Events |-> None] /\ won = {}
  /\ jobs = [e \in Events |-> <<>>]
  /\ parked = [e \in Events |-> "no"]
  /\ reaped = [e \in Events |-> "no"] /\ byHand = {}
  /\ ahead = [e \in Events |-> {}] /\ queued = {}
  /\ faults = 0

Fault(k) == k \in Faults /\ faults < MaxFaults /\ faults' = faults + 1
NoFault == UNCHANGED faults

\* webhookQueue.add('deliver', ...), without a jobId.
Add(e, own) ==
  /\ jobs' = IF e \in Followed THEN [jobs EXCEPT ![e] = Append(@, NewJob(own))] ELSE jobs
  /\ queued' = queued \cup {e}

\* A row is inserted for e: what refers to an older one no longer has the newest.
Older(ref) == IF ref = "own" THEN "old" ELSE ref
Disown(js) == [i \in DOMAIN js |-> [js[i] EXCEPT !.own = FALSE]]

-----------------------------------------------------------------------------
(* enqueueWebhook, enqueueOrDefer and drainDeferredEnqueues.                *)

\* Mutant: what is held is not looked at.
EmitDirect(e) ==
  /\ emit[e] = "none"
  /\ emit' = [emit EXCEPT ![e] = "insert"]
  /\ ahead' = [ahead EXCEPT ![e] = Range(fifo)]
  /\ UNCHANGED <<url, fifo, tried, parked, tables, queue, reaper, faults>>

\* An event happens; the listener holds it behind what it holds already.
Emit(e) ==
  /\ emit[e] = "none"
  /\ IF e \in Held /\ fifo # <<>>
       THEN emit' = [emit EXCEPT ![e] = "held"] /\ fifo' = Append(fifo, e)
       ELSE emit' = [emit EXCEPT ![e] = "insert"] /\ UNCHANGED fifo
  /\ ahead' = [ahead EXCEPT ![e] = Range(fifo)]
  /\ UNCHANGED <<url, tried, parked, tables, queue, reaper, faults>>

\* The oldest held enqueue is tried again.
Drain ==
  /\ fifo # <<>> /\ emit[Head(fifo)] = "held"
  /\ emit' = [emit EXCEPT ![Head(fifo)] = "insert"]
  /\ UNCHANGED <<url, fifo, tried, parked, ahead, tables, queue, reaper, faults>>


\* A failure of sendEnqueue: held for the next pass, at the back after three.
\* Everybody else only logs.
Fails(e) ==
  IF e \notin Held
    THEN emit' = [emit EXCEPT ![e] = "lost"] /\ UNCHANGED <<fifo, tried>>
    ELSE /\ emit' = [emit EXCEPT ![e] = "held"]
         /\ IF fifo # <<>> /\ Head(fifo) = e
              THEN /\ tried' = [tried EXCEPT ![e] = @ + 1]
                   /\ fifo' = IF tried[e] + 1 >= 3 THEN Append(Tail(fifo), e) ELSE fifo
              ELSE fifo' = Append(fifo, e) /\ UNCHANGED tried

\* sendEnqueue returned; the drainer shifts what it sent.
Sent(e) ==
  /\ emit' = [emit EXCEPT ![e] = "done"]
  /\ fifo' = IF fifo # <<>> /\ Head(fifo) = e THEN Tail(fifo) ELSE fifo

\* The log row; a blocked destination is recorded in it and gets no job.
InsertRow(e) ==
  /\ emit[e] = "insert"
  /\ row' = [row EXCEPT ![e] = Row(url = "blocked")]
  /\ jobs' = [jobs EXCEPT ![e] = Disown(@)]
  /\ parked' = [parked EXCEPT ![e] = Older(@)]
  /\ reaped' = [reaped EXCEPT ![e] = Older(@)]
  /\ IF url = "blocked" THEN Sent(e)
     ELSE emit' = [emit EXCEPT ![e] = "add"] /\ UNCHANGED fifo
  /\ UNCHANGED <<url, tried, won, queued, byHand, ahead, faults>>

InsertFails(e) ==
  /\ emit[e] = "insert" /\ Fault("insert")
  /\ Fails(e)
  /\ UNCHANGED <<url, parked, ahead, tables, queue, reaper>>

AddJob(e) ==
  /\ emit[e] = "add"
  /\ Add(e, TRUE)
  /\ Sent(e)
  /\ UNCHANGED <<url, tried, parked, ahead, tables, reaper, faults>>

\* Redis refuses, or parks the command, which may land after it was given up.
AddFails(e) ==
  /\ emit[e] = "add"
  /\ \/ Fault("add") /\ UNCHANGED parked
     \/ e \in Range(fifo) \ Followed /\ tried[e] < MaxOutage /\ UNCHANGED <<parked, faults>>
     \/ e \in Held /\ Fault("parked") /\ parked' = [parked EXCEPT ![e] = "own"]
  /\ Fails(e)
  /\ UNCHANGED <<url, ahead, tables, queue, reaper>>

Land(e) ==
  /\ parked[e] # "no"
  /\ Add(e, parked[e] = "own")
  /\ parked' = [parked EXCEPT ![e] = "no"]
  /\ UNCHANGED <<url, emit, fifo, tried, ahead, tables, reaper, faults>>

\* The listener, or the process of another producer, dies: its enqueues in
\* flight and everything held are gone.
Crash(S) ==
  /\ \E e \in S : emit[e] \in {"insert", "add", "held"}
  /\ Fault("crash")
  /\ emit' = [e \in Events |-> IF e \in S /\ emit[e] \in {"insert", "add", "held"}
                                 THEN "lost" ELSE emit[e]]
  /\ fifo' = IF S = Held THEN <<>> ELSE fifo
  /\ UNCHANGED <<url, tried, parked, ahead, tables, queue, reaper>>

-----------------------------------------------------------------------------
(* The delivery worker: dispatch and recordAttempt.                         *)

Take(e, i) ==
  /\ jobs[e][i].state = "wait" /\ jobs[e][i].left = 0
  /\ jobs' = [jobs EXCEPT ![e][i].state = "active", ![e][i].left = Timeout]
  /\ UNCHANGED <<url, producer, tables, queued, reaper, faults>>

\* recordAttempt: the first attempt is written to the job's own row, every
\* later one to a row of its own.
Record(e, i) ==
  IF jobs[e][i].made = 0
    THEN /\ row' = IF jobs[e][i].own THEN [row EXCEPT ![e].told = TRUE] ELSE row
         /\ UNCHANGED <<parked, reaped>>
    ELSE /\ row' = [row EXCEPT ![e] = Row(TRUE)]
         /\ parked' = [parked EXCEPT ![e] = Older(@)]
         /\ reaped' = [reaped EXCEPT ![e] = Older(@)]
\* The jobs of e, job i excepted, once that is written.
AfterRecord(e, i) == IF jobs[e][i].made = 0 THEN jobs[e] ELSE Disown(jobs[e])
Finished(e, i) == jobs' = [jobs EXCEPT ![e] = RemoveAt(AfterRecord(e, i), i)]
\* The job throws: the next attempt after its backoff, or none.
Retried(e, js, i) ==
  IF js[i].made + 1 < Attempts
    THEN jobs' = [jobs EXCEPT ![e] =
           [js EXCEPT ![i].state = "wait", ![i].made = @ + 1, ![i].left = Backoff[js[i].made + 1]]]
    ELSE jobs' = [jobs EXCEPT ![e] = RemoveAt(js, i)]

Answered(e, i) ==
  /\ jobs[e][i].state = "active"
  /\ Record(e, i)
  /\ IF url = "down" THEN Retried(e, AfterRecord(e, i), i) ELSE Finished(e, i)
  /\ won' = IF url = "up" THEN won \cup {e} ELSE won
  /\ byHand' = IF url = "blocked" THEN byHand \cup {e} ELSE byHand
  /\ UNCHANGED <<url, emit, fifo, tried, ahead, queued, faults>>

\* The attempt is not recorded, whatever came of it: that is thrown as well.
RecordFails(e, i) ==
  /\ jobs[e][i].state = "active" /\ Fault("record")
  /\ Retried(e, jobs[e], i)
  /\ UNCHANGED <<url, producer, tables, queued, reaper>>

\* The worker dies; the job is stalled and handed out again.
WorkerDies(e, i) ==
  /\ jobs[e][i].state = "active" /\ Fault("workerDies")
  /\ jobs' = [jobs EXCEPT ![e][i].state = "wait", ![e][i].left = 0]
  /\ UNCHANGED <<url, producer, tables, queued, reaper>>

-----------------------------------------------------------------------------
(* redeliverAbandonedWebhooks, each settle tick.                            *)

NeverTried(e) == ~row[e].told /\ row[e].age > Grace
GivenUp(e) == row[e].age > RetrySpan

\* Mutant: a row without an attempt is not looked for.
CandidateGivenUp(e) ==
  /\ e \in Followed \ won /\ row[e] # None /\ ~row[e].stamped /\ row[e].age < MaxAge
  /\ row[e].told /\ GivenUp(e)

Candidate(e) ==
  /\ e \in Followed \ won /\ row[e] # None /\ ~row[e].stamped /\ row[e].age < MaxAge
  /\ NeverTried(e) \/ GivenUp(e)

\* The row is claimed and stamped in one statement ...
Claim(e) ==
  /\ Candidate(e) /\ reaped[e] = "no"
  /\ row' = [row EXCEPT ![e].stamped = TRUE]
  /\ reaped' = [reaped EXCEPT ![e] = "own"]
  /\ UNCHANGED <<url, producer, won, queue, byHand, faults>>

\* ... and added after it.
Redeliver(e) ==
  /\ reaped[e] # "no"
  /\ \/ Add(e, reaped[e] = "own") /\ UNCHANGED byHand /\ NoFault
     \/ /\ Fault("reapAdd") \/ Fault("reapCrash")
        /\ byHand' = byHand \cup {e} /\ UNCHANGED queue
  /\ reaped' = [reaped EXCEPT ![e] = "no"]
  /\ UNCHANGED <<url, producer, tables>>

-----------------------------------------------------------------------------
(* Time and the merchant.                                                   *)

Endpoint ==
  /\ url' \in {"up", "down", "blocked"} \ {url}
  /\ UNCHANGED <<producer, tables, queue, reaper, faults>>

\* Nothing that is due is late, but for the fault "behind"; producers and the
\* settle tick are quicker than a unit of time, and so is the connection that
\* a parked command waits for.
Prompt ==
  /\ \A e \in Events : /\ emit[e] \notin {"insert", "add"} /\ parked[e] = "no"
                        /\ reaped[e] = "no" /\ ~Candidate(e)
  /\ \A e \in Events : \A i \in DOMAIN jobs[e] :
       jobs[e][i].state = "active" => jobs[e][i].left > 0
Due == \E e \in Events : \E i \in DOMAIN jobs[e] :
         jobs[e][i].state = "wait" /\ jobs[e][i].left = 0

Down(n) == Max({0, n - 1})
Tick ==
  /\ Prompt
  /\ IF Due THEN Fault("behind") ELSE NoFault
  /\ row' = [e \in Events |-> IF e \notin Followed \/ row[e] = None THEN row[e]
                              ELSE [row[e] EXCEPT !.age = Min({@ + 1, MaxAge + 1})]]
  /\ jobs' = [e \in Events |-> [i \in DOMAIN jobs[e] |-> [jobs[e][i] EXCEPT !.left = Down(@)]]]
  /\ UNCHANGED <<url, producer, won, queued, reaper>>

Produce(e) == InsertRow(e) \/ AddJob(e) \/ Land(e)
Deliver(e) == \E i \in DOMAIN jobs[e] : Take(e, i) \/ Answered(e, i)

Next ==
  /\ \/ \E e \in Events :
          \/ Emit(e) \/ Produce(e) \/ InsertFails(e) \/ AddFails(e)
          \/ Deliver(e)
          \/ \E i \in DOMAIN jobs[e] : RecordFails(e, i) \/ WorkerDies(e, i)
          \/ Claim(e) \/ Redeliver(e)
     \/ Drain
     \/ \E S \in {Held} \cup {{e} : e \in Events \ Held} : Crash(S)
     \/ Endpoint \/ Tick
  /\ UNCHANGED evm

Spec == Init /\ [][Next]_vars

\* Producers, the drainer of every pass, the worker, the settle tick and the
\* clock go on.
Fairness ==
  /\ \A e \in Events :
       /\ WF_vars(Produce(e) /\ UNCHANGED evm) /\ WF_vars(Deliver(e) /\ UNCHANGED evm)
       /\ WF_vars(Claim(e) /\ UNCHANGED evm) /\ WF_vars(Redeliver(e) /\ UNCHANGED evm)
  /\ WF_vars(Drain /\ UNCHANGED evm) /\ WF_vars(Tick /\ UNCHANGED evm)
FairSpec == Spec /\ Fairness

-----------------------------------------------------------------------------
(* Properties.                                                              *)

\* The reaper never claims by age a row whose event the queue is still trying,
\* however many attempts went unrecorded ("the reaper can never race a live job",
\* redeliverAbandonedWebhooks).
NeverRacesQueue ==
  [][\A e \in Events : Claim(e) /\ row[e].told => jobs[e] = <<>>]_vars

\* What was held when an event came is handed to the queue before that event,
\* unless it failed three times or died with the listener (enqueueOrDefer).
HeldInOrder ==
  \A e \in Held \cap queued : \A d \in ahead[e] :
    d \in queued \/ tried[d] >= 3 \/ emit[d] \in {"done", "lost"}


\* Once the merchant's endpoint answers for good, every event that has a row is
\* delivered: jobs never added, retries that ran out and blocked destinations
\* are found by the reaper.
LoggedIsDelivered ==
  <>[](url = "up") => \A e \in Followed : row[e] # None ~> e \in won \cup byHand
=============================================================================
