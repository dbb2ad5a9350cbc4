--------------------------- MODULE WebhooksProofs ---------------------------
(* TLAPS proofs about Webhooks, for any number of events and followed ones,  *)
(* any retry policy, any faults, and the listener's events and the others':  *)
(* the order of held enqueues, and the reaper against the queue.             *)
EXTENDS Webhooks, Sums, SequenceTheorems

-----------------------------------------------------------------------------
(* The inductive invariant.                                                  *)

Stages == {"none", "insert", "add", "held", "done", "lost"}

\* What the proof needs of the types.
Typed ==
  /\ evm \in BOOLEAN /\ emit \in [Events -> Stages]
  /\ fifo \in Seq(Held) /\ tried \in [Events -> Nat]
  /\ ahead \in [Events -> SUBSET Events] /\ queued \subseteq Events
  /\ DOMAIN row = Events /\ DOMAIN jobs = Events
  /\ DOMAIN parked = Events /\ DOMAIN reaped = Events

\* The queue holds an event once, and only its oldest is being sent.
FifoFits ==
  /\ \A i \in 1..Len(fifo) : /\ emit[fifo[i]] \in {"held", "insert", "add"}
                             /\ i > 1 => emit[fifo[i]] = "held"
  /\ \A i, j \in 1..Len(fifo) : fifo[i] = fifo[j] => i = j

JobIsQueued == \A e \in Events \ queued : DOMAIN jobs[e] = {}

\* Nothing was done for an event that could bring it to the queue.
Untouched(e) == e \notin queued /\ parked[e] = "no" /\ reaped[e] = "no" /\ row[e] = None

NewIsUntouched == \A e \in Events : emit[e] = "none" => Untouched(e)

Behind(e, d) == \E i, j \in 1..Len(fifo) : i < j /\ fifo[i] = d /\ fifo[j] = e

\* Where the order asks no more of an event.
Through(d) == d \in queued \/ tried[d] >= 3 \/ emit[d] \in {"done", "lost"}

\* What was held before an event is through, or the event still waits behind it.
Waits == \A e \in Held : \A d \in ahead[e] : Through(d) \/ (Behind(e, d) /\ Untouched(e))

OrderInv == Typed /\ FifoFits /\ JobIsQueued /\ NewIsUntouched /\ Waits

-----------------------------------------------------------------------------

LEMMA InitOrder == Init => OrderInv
BY DEF Init, OrderInv, Typed, Stages, FifoFits, JobIsQueued, Untouched, NewIsUntouched, Waits, Held

\* Steps that leave the producers alone touch only events the queue has had.
LEMMA Elsewhere ==
  ASSUME OrderInv, UNCHANGED <<evm, emit, fifo, tried, ahead, queued>>,
         DOMAIN row' = Events, DOMAIN jobs' = Events, DOMAIN parked' = Events, DOMAIN reaped' = Events,
         \A e \in Events \ queued :
           /\ DOMAIN jobs'[e] = {} /\ (parked[e] = "no" => parked'[e] = "no")
           /\ row[e] = None => row'[e] = None /\ (reaped[e] = "no" => reaped'[e] = "no")
  PROVE  OrderInv'
<1>1. Typed' /\ FifoFits' /\ JobIsQueued'
  BY DEF OrderInv, Typed, FifoFits, JobIsQueued, Held
<1>2. \A e \in Events : Untouched(e) => Untouched(e)'
  BY DEF Untouched
<1>3. NewIsUntouched'
  BY <1>2 DEF OrderInv, NewIsUntouched
<1>4. Waits'
  <2>1. \A e, d : (Behind(e, d)' <=> Behind(e, d)) /\ (Through(d)' <=> Through(d))
    BY DEF Behind, Through
  <2> QED  BY <1>2, <2>1 DEF OrderInv, Waits, Held
<1> QED  BY <1>1, <1>3, <1>4 DEF OrderInv

\* The order is kept while what is through stays so, and what waits stays behind
\* whatever is not.
LEMMA OrderKept ==
  ASSUME OrderInv, UNCHANGED <<evm, ahead>>,
         \A d \in Events : Through(d) => Through(d)',
         \A e \in Held, d \in Events : Behind(e, d) /\ Untouched(e) /\ ~Through(d)' =>
           Behind(e, d)' /\ Untouched(e)'
  PROVE  Waits'
<1>1. Held' = Held /\ Held \subseteq Events /\ ahead \in [Events -> SUBSET Events]
  BY DEF Held, OrderInv, Typed
<1> QED  BY <1>1 DEF OrderInv, Waits

\* One that is being sent is behind nobody.
LEMMA SentIsFirst ==
  ASSUME Typed, FifoFits, NEW e, emit[e] \in {"insert", "add"}
  PROVE  /\ \A d : ~Behind(e, d)
         /\ \A i \in 1..Len(fifo) : fifo[i] = e => i = 1 /\ e = Head(fifo)
BY DEF Typed, FifoFits, Behind

-----------------------------------------------------------------------------
(* What happens to the queue.                                                *)

LEMMA Appended ==
  ASSUME Typed, FifoFits, NEW e \in Held, \A i \in 1..Len(fifo) : fifo[i] # e,
         fifo' = Append(fifo, e), Held' = Held,
         emit' \in [Events -> Stages], emit'[e] = "held", \A d \in Events \ {e} : emit'[d] = emit[d]
  PROVE  /\ fifo' \in Seq(Held') /\ FifoFits'
         /\ \A x, d : Behind(x, d) => Behind(x, d)'
         /\ \A i \in 1..Len(fifo) : Behind(e, fifo[i])'
<1>1. /\ fifo \in Seq(Held) /\ Len(fifo) \in Nat /\ Len(fifo') = Len(fifo) + 1
      /\ \A i \in 1..Len(fifo) : fifo'[i] = fifo[i] /\ fifo[i] \in Events
      /\ fifo'[Len(fifo) + 1] = e
  BY DEF Typed, Held
<1>2. fifo' \in Seq(Held')
  BY DEF Typed
<1>3. FifoFits'
  BY <1>1 DEF FifoFits
<1>4. \A x, d : Behind(x, d) => Behind(x, d)'
  BY <1>1 DEF Behind
<1>5. \A i \in 1..Len(fifo) : Behind(e, fifo[i])'
  BY <1>1 DEF Behind
<1> QED  BY <1>2, <1>3, <1>4, <1>5

LEMMA Shifted ==
  ASSUME Typed, FifoFits, fifo # <<>>, fifo' = Tail(fifo), Held' = Held,
         emit' \in [Events -> Stages], \A d \in Events \ {Head(fifo)} : emit'[d] = emit[d]
  PROVE  /\ fifo' \in Seq(Held') /\ FifoFits'
         /\ \A x, d : Behind(x, d) /\ d # Head(fifo) => Behind(x, d)'
<1>1. /\ fifo \in Seq(Held) /\ Len(fifo) \in Nat \ {0} /\ Len(fifo') = Len(fifo) - 1
      /\ \A i \in 1..Len(fifo') : fifo'[i] = fifo[i + 1]
      /\ \A i \in 1..Len(fifo) : fifo[i] \in Events
      /\ Head(fifo) = fifo[1]
  BY DEF Typed, Held
<1>2. fifo' \in Seq(Held')
  BY DEF Typed
<1>3. FifoFits'
  <2>1. \A i \in 1..Len(fifo') : i + 1 \in 1..Len(fifo) /\ i + 1 > 1 /\ fifo[i + 1] # Head(fifo)
    BY <1>1 DEF FifoFits
  <2> QED  BY <1>1, <2>1 DEF FifoFits
<1>4. ASSUME NEW x, NEW d, Behind(x, d), d # Head(fifo)  PROVE Behind(x, d)'
  <2>1. PICK i, j \in 1..Len(fifo) : i < j /\ fifo[i] = d /\ fifo[j] = x
    BY <1>4 DEF Behind
  <2>2. i # 1
    BY <1>1, <1>4, <2>1
  <2>3. /\ i - 1 \in 1..Len(fifo') /\ j - 1 \in 1..Len(fifo')
        /\ fifo'[i - 1] = fifo[i] /\ fifo'[j - 1] = fifo[j] /\ i - 1 < j - 1
    BY <1>1, <2>1, <2>2
  <2> QED  BY <2>1, <2>3 DEF Behind
<1> QED  BY <1>2, <1>3, <1>4

LEMMA Rotated ==
  ASSUME Typed, FifoFits, fifo # <<>>, fifo' = Append(Tail(fifo), Head(fifo)), Held' = Held,
         emit' \in [Events -> Stages], emit'[Head(fifo)] = "held",
         \A d \in Events \ {Head(fifo)} : emit'[d] = emit[d]
  PROVE  /\ fifo' \in Seq(Held') /\ FifoFits'
         /\ \A x, d : Behind(x, d) /\ d # Head(fifo) => Behind(x, d)'
<1> DEFINE n == Len(fifo)
<1>1. /\ fifo \in Seq(Held) /\ n \in Nat \ {0} /\ Len(fifo') = n
      /\ \A i \in 1..(n - 1) : fifo'[i] = fifo[i + 1]
      /\ fifo'[n] = Head(fifo) /\ Head(fifo) = fifo[1]
      /\ \A i \in 1..n : fifo[i] \in Events
  BY DEF Typed, Held
<1>2. fifo' \in Seq(Held')
  BY DEF Typed
<1> HIDE DEF n
<1>3. FifoFits'
  <2>1. \A i \in 1..(n - 1) : /\ i + 1 \in 1..n /\ i + 1 > 1 /\ fifo[i + 1] # Head(fifo)
                              /\ emit'[fifo[i + 1]] = "held"
    BY <1>1 DEF FifoFits, n
  <2>2. \A i \in 1..n : i = n \/ i \in 1..(n - 1)
    BY <1>1
  <2>3. \A i \in 1..n : emit'[fifo'[i]] = "held"
    BY <1>1, <2>1, <2>2
  <2>4. \A i, j \in 1..n : fifo'[i] = fifo'[j] => i = j
    <3>1. \A i, j \in 1..(n - 1) : fifo[i + 1] = fifo[j + 1] => i = j
      BY <1>1, <2>1 DEF FifoFits, n
    <3> QED  BY <1>1, <2>1, <2>2, <3>1
  <2> QED  BY <1>1, <2>3, <2>4 DEF FifoFits
<1>4. ASSUME NEW x, NEW d, Behind(x, d), d # Head(fifo)  PROVE Behind(x, d)'
  <2>1. PICK i, j \in 1..n : i < j /\ fifo[i] = d /\ fifo[j] = x
    BY <1>4 DEF Behind, n
  <2>2. i # 1
    BY <1>1, <1>4, <2>1
  <2>3. /\ i - 1 \in 1..(n - 1) /\ j - 1 \in 1..(n - 1) /\ (i - 1) + 1 = i /\ (j - 1) + 1 = j
        /\ i - 1 < j - 1
    BY <1>1, <2>1, <2>2
  <2>4. /\ fifo'[i - 1] = fifo[i] /\ fifo'[j - 1] = fifo[j]
        /\ i - 1 \in 1..Len(fifo') /\ j - 1 \in 1..Len(fifo')
    BY <1>1, <2>3
  <2> QED  BY <2>1, <2>3, <2>4 DEF Behind
<1> QED  BY <1>2, <1>3, <1>4

-----------------------------------------------------------------------------
(* The producers.                                                            *)

\* What the rest of the state does in a step of the event e.
Aside(e) ==
  /\ DOMAIN row' = Events /\ DOMAIN jobs' = Events /\ DOMAIN parked' = Events /\ DOMAIN reaped' = Events
  /\ queued' \subseteq Events /\ queued \subseteq queued'
  /\ \A x \in Events \ {e} : Untouched(x) => Untouched(x)'
  /\ \A x \in Events \ queued' : DOMAIN jobs'[x] = {}

\* A step in which e is sent, fails or is sent for, at the head of the queue or
\* from outside of it.
LEMMA Progress ==
  ASSUME OrderInv, NEW e \in Events, Aside(e), UNCHANGED <<evm, ahead>>,
         emit[e] # "none", tried' \in [Events -> Nat], \A d \in Events : tried'[d] >= tried[d],
         emit' \in [Events -> Stages], \A d \in Events \ {e} : emit'[d] = emit[d],
         emit[e] \in {"done", "lost"} => emit'[e] = emit[e], emit'[e] # "none",
         fifo' \in Seq(Held)', FifoFits',
         \A x : Behind(x, e) /\ ~Through(e)' => Behind(x, e)',
         \A x, d : Behind(x, d) /\ d # e => Behind(x, d)',
         \A d : Behind(e, d) => Untouched(e)' \/ ~Untouched(e)
  PROVE  OrderInv'
<1>1. Typed'
  BY DEF OrderInv, Typed, Aside, Held
<1>2. JobIsQueued' /\ NewIsUntouched'
  BY DEF OrderInv, JobIsQueued, NewIsUntouched, Aside
<1>3. \A d \in Events : Through(d) => Through(d)'
  BY DEF Through, Aside, OrderInv, Typed
<1>4. Held \subseteq Events
  BY DEF Held
<1>5. \A x \in Held, d \in Events : Behind(x, d) /\ Untouched(x) /\ ~Through(d)' =>
        Behind(x, d)' /\ Untouched(x)'
  BY <1>4 DEF Aside
<1>6. Waits'
  BY <1>3, <1>5, OrderKept
<1> QED  BY <1>1, <1>2, <1>6 DEF OrderInv

\* The failure of an enqueue, of the one that is sent.
LEMMA FailsQueue ==
  ASSUME OrderInv, NEW e \in Events, emit[e] \in {"insert", "add"}, Fails(e), UNCHANGED evm
  PROVE  /\ emit' \in [Events -> Stages] /\ \A d \in Events \ {e} : emit'[d] = emit[d]
         /\ emit'[e] \in {"held", "lost"}
         /\ tried' \in [Events -> Nat] /\ \A d \in Events : tried'[d] >= tried[d]
         /\ fifo' \in Seq(Held)' /\ FifoFits'
         /\ \A x, d : Behind(x, d) /\ d # e => Behind(x, d)'
         /\ \A x : Behind(x, e) /\ ~Through(e)' => Behind(x, e)'
<1> USE DEF OrderInv
<1>1. Typed /\ FifoFits /\ Held' = Held
  BY DEF Held
<1>2. CASE e \notin Held
  <2>1. emit' = [emit EXCEPT ![e] = "lost"] /\ UNCHANGED <<fifo, tried>>
    BY <1>2 DEF Fails
  <2>2. \A i \in 1..Len(fifo) : fifo[i] # e
    BY <1>1, <1>2 DEF Typed
  <2>3. FifoFits'
    BY <1>1, <2>1, <2>2 DEF FifoFits, Typed
  <2>4. \A x, d : Behind(x, d)' <=> Behind(x, d)
    BY <2>1 DEF Behind
  <2>5. emit' \in [Events -> Stages] /\ emit'[e] = "lost" /\ \A d \in Events \ {e} : emit'[d] = emit[d]
    BY <1>1, <2>1 DEF Typed, Stages
  <2> QED  BY <1>1, <2>1, <2>3, <2>4, <2>5 DEF Typed
<1>3. CASE e \in Held
  <2>1. /\ emit' = [emit EXCEPT ![e] = "held"]
        /\ emit' \in [Events -> Stages] /\ emit'[e] = "held"
        /\ \A d \in Events \ {e} : emit'[d] = emit[d]
    BY <1>1, <1>3 DEF Fails, Typed, Stages
  <2>2. CASE ~(fifo # <<>> /\ Head(fifo) = e)
    <3>1. fifo' = Append(fifo, e) /\ UNCHANGED tried
      BY <1>3, <2>2 DEF Fails
    <3>2. \A i \in 1..Len(fifo) : fifo[i] # e
      BY <1>1, <2>2, SentIsFirst DEF Typed
    <3> QED  BY <1>1, <1>3, <2>1, <3>1, <3>2, Appended DEF Typed
  <2>3. CASE fifo # <<>> /\ Head(fifo) = e
    <3>1. /\ tried' = [tried EXCEPT ![e] = @ + 1]
          /\ fifo' = IF tried[e] + 1 >= 3 THEN Append(Tail(fifo), e) ELSE fifo
      BY <1>3, <2>3 DEF Fails
    <3>2. /\ tried' \in [Events -> Nat] /\ tried'[e] = tried[e] + 1
          /\ \A d \in Events : tried'[d] >= tried[d]
      BY <1>1, <3>1 DEF Typed
    <3>3. CASE tried[e] + 1 >= 3
      <4>1. fifo' = Append(Tail(fifo), Head(fifo)) /\ Through(e)'
        BY <2>3, <3>1, <3>2, <3>3 DEF Through
      <4> QED  BY <1>1, <2>1, <2>3, <3>2, <4>1, Rotated
    <3>4. CASE ~(tried[e] + 1 >= 3)
      <4>1. fifo' = fifo
        BY <3>1, <3>4
      <4>2. FifoFits'
        BY <1>1, <2>1, <4>1 DEF FifoFits, Typed, Held
      <4>3. \A x, d : Behind(x, d)' <=> Behind(x, d)
        BY <4>1 DEF Behind
      <4> QED  BY <1>1, <2>1, <3>2, <4>1, <4>2, <4>3 DEF Typed
    <3> QED  BY <3>3, <3>4
  <2> QED  BY <2>2, <2>3
<1> QED  BY <1>2, <1>3

\* The success of one.
LEMMA SentQueue ==
  ASSUME OrderInv, NEW e \in Events, emit[e] \in {"insert", "add"}, Sent(e), UNCHANGED evm
  PROVE  /\ emit' \in [Events -> Stages] /\ \A d \in Events \ {e} : emit'[d] = emit[d]
         /\ emit'[e] = "done"
         /\ fifo' \in Seq(Held)' /\ FifoFits'
         /\ \A x, d : Behind(x, d) /\ d # e => Behind(x, d)'
<1> USE DEF OrderInv
<1>1. Typed /\ FifoFits /\ Held' = Held
  BY DEF Held
<1>2. /\ emit' \in [Events -> Stages] /\ emit'[e] = "done"
      /\ \A d \in Events \ {e} : emit'[d] = emit[d]
  BY <1>1 DEF Sent, Typed, Stages
<1>3. CASE fifo # <<>> /\ Head(fifo) = e
  <2>1. fifo' = Tail(fifo)
    BY <1>3 DEF Sent
  <2> QED  BY <1>1, <1>2, <1>3, <2>1, Shifted
<1>4. CASE ~(fifo # <<>> /\ Head(fifo) = e)
  <2>1. fifo' = fifo
    BY <1>4 DEF Sent
  <2>2. \A i \in 1..Len(fifo) : fifo[i] # e
    BY <1>1, <1>4, SentIsFirst DEF Typed
  <2>3. FifoFits'
    BY <1>1, <1>2, <2>1, <2>2 DEF FifoFits, Typed, Held
  <2>4. \A x, d : Behind(x, d)' <=> Behind(x, d)
    BY <2>1 DEF Behind
  <2> QED  BY <1>1, <1>2, <2>1, <2>3, <2>4 DEF Typed
<1> QED  BY <1>3, <1>4

\* What a step of a followed event leaves of the others.
LEMMA AddAside ==
  ASSUME Typed, JobIsQueued, NEW e \in Events, NEW own, Add(e, own)
  PROVE  /\ DOMAIN jobs' = Events /\ queued' = queued \cup {e} /\ queued' \subseteq Events
         /\ \A x \in Events \ queued' : DOMAIN jobs'[x] = {}
BY DEF Typed, JobIsQueued, Add

LEMMA EmitOrder ==
  ASSUME OrderInv, NEW e \in Events, Emit(e), UNCHANGED evm  PROVE OrderInv'
<1> USE DEF OrderInv
<1>1. /\ emit[e] = "none" /\ Held' = Held /\ Held \subseteq Events /\ Typed /\ FifoFits
      /\ ahead' = [ahead EXCEPT ![e] = Range(fifo)]
      /\ UNCHANGED <<tried, row, jobs, parked, reaped, queued>>
  BY DEF Emit, Held, tables, queue, reaper
<1>2. Range(fifo) = {fifo[i] : i \in 1..Len(fifo)} /\ Range(fifo) \subseteq Events
  BY <1>1 DEF Typed, Range, Held
<1>3. ahead' \in [Events -> SUBSET Events] /\ ahead'[e] = Range(fifo)
      /\ \A x \in Events \ {e} : ahead'[x] = ahead[x]
  BY <1>1, <1>2 DEF Typed
<1>4. \A i \in 1..Len(fifo) : fifo[i] # e
  BY <1>1 DEF FifoFits
<1>5. \A x : Untouched(x)' <=> Untouched(x)
  BY <1>1 DEF Untouched
<1>6. /\ emit' \in [Events -> Stages] /\ emit'[e] \in {"held", "insert"}
      /\ \A d \in Events \ {e} : emit'[d] = emit[d]
      /\ fifo' \in Seq(Held') /\ FifoFits'
      /\ \A x, d : Behind(x, d) => Behind(x, d)'
      /\ e \in Held => \A d \in Range(fifo) : Behind(e, d)'
  <2>1. CASE e \in Held /\ fifo # <<>>
    <3>1. /\ emit' = [emit EXCEPT ![e] = "held"] /\ fifo' = Append(fifo, e)
          /\ emit' \in [Events -> Stages] /\ emit'[e] = "held"
          /\ \A d \in Events \ {e} : emit'[d] = emit[d]
      BY <1>1, <2>1 DEF Emit, Typed, Stages
    <3> QED  BY <1>1, <1>2, <1>4, <2>1, <3>1, Appended
  <2>2. CASE ~(e \in Held /\ fifo # <<>>)
    <3>1. /\ emit' = [emit EXCEPT ![e] = "insert"] /\ fifo' = fifo
          /\ emit' \in [Events -> Stages] /\ emit'[e] = "insert"
          /\ \A d \in Events \ {e} : emit'[d] = emit[d]
      BY <1>1, <2>2 DEF Emit, Typed, Stages
    <3>2. FifoFits'
      BY <1>1, <1>4, <3>1 DEF FifoFits, Typed, Held
    <3>3. \A x, d : Behind(x, d)' <=> Behind(x, d)
      BY <3>1 DEF Behind
    <3>4. e \in Held => Range(fifo) = {}
      BY <1>2, <2>2 DEF Typed
    <3> QED  BY <1>1, <3>1, <3>2, <3>3, <3>4 DEF Typed
  <2> QED  BY <2>1, <2>2
<1>7. Typed' /\ JobIsQueued' /\ NewIsUntouched'
  BY <1>1, <1>3, <1>5, <1>6 DEF Typed, JobIsQueued, NewIsUntouched
<1>8. Waits'
  <2>1. \A d \in Events : Through(d) => Through(d)'
    BY <1>1, <1>6 DEF Through
  <2>2. Untouched(e)'
    BY <1>1, <1>5 DEF NewIsUntouched
  <2> QED  BY <1>1, <1>2, <1>3, <1>5, <1>6, <2>1, <2>2 DEF Waits, Typed
<1> QED  BY <1>6, <1>7, <1>8

LEMMA DrainOrder ==
  ASSUME OrderInv, Drain, UNCHANGED evm  PROVE OrderInv'
<1> USE DEF OrderInv
<1> SUFFICES ASSUME NEW e \in Events, e = Head(fifo)  PROVE OrderInv'
  BY DEF Drain, Typed, Held
<1>1. /\ fifo # <<>> /\ emit[e] = "held" /\ emit' = [emit EXCEPT ![e] = "insert"]
      /\ UNCHANGED <<fifo, tried, parked, ahead, row, jobs, queued, reaped>> /\ Held' = Held
  BY DEF Drain, tables, queue, reaper, Held
<1>2. /\ emit' \in [Events -> Stages] /\ emit'[e] = "insert"
      /\ \A d \in Events \ {e} : emit'[d] = emit[d]
  BY <1>1 DEF Typed, Stages
<1>3. FifoFits'
  <2>1. \A i \in 1..Len(fifo) : fifo[i] = e => i = 1
    BY <1>1 DEF FifoFits, Typed
  <2> QED  BY <1>1, <1>2, <2>1 DEF FifoFits, Typed, Held
<1>4. \A x, d : (Behind(x, d)' <=> Behind(x, d)) /\ (Untouched(x)' <=> Untouched(x))
  BY <1>1 DEF Behind, Untouched
<1>5. Aside(e)
  BY <1>1, <1>4 DEF Aside, Typed, JobIsQueued
<1> QED  BY <1>1, <1>2, <1>3, <1>4, <1>5, Progress DEF Typed

LEMMA InsertRowOrder ==
  ASSUME OrderInv, NEW e \in Events, InsertRow(e), UNCHANGED evm  PROVE OrderInv'
<1> USE DEF OrderInv
<1>1. /\ emit[e] = "insert" /\ UNCHANGED <<tried, queued, ahead>> /\ Typed /\ FifoFits
      /\ row' = [row EXCEPT ![e] = Row(url = "blocked")] /\ jobs' = [jobs EXCEPT ![e] = Disown(jobs[e])]
      /\ parked' = [parked EXCEPT ![e] = Older(parked[e])]
      /\ reaped' = [reaped EXCEPT ![e] = Older(reaped[e])]
  BY DEF InsertRow
<1>2. Aside(e)
  BY <1>1 DEF Aside, Typed, JobIsQueued, Untouched, Disown
<1>3. \A d : ~Behind(e, d)
  BY <1>1, SentIsFirst
<1>4. tried' \in [Events -> Nat] /\ \A d \in Events : tried'[d] >= tried[d]
  BY <1>1 DEF Typed
<1>5. CASE url = "blocked"
  <2>1. Sent(e)
    BY <1>5 DEF InsertRow
  <2>2. Through(e)'
    BY <1>1, <2>1, SentQueue DEF Through
  <2> QED  BY <1>1, <1>2, <1>3, <1>4, <2>1, <2>2, SentQueue, Progress
<1>6. CASE emit' = [emit EXCEPT ![e] = "add"] /\ UNCHANGED fifo
  <2>1. /\ emit' \in [Events -> Stages] /\ emit'[e] = "add" /\ Held' = Held
        /\ \A d \in Events \ {e} : emit'[d] = emit[d]
    BY <1>1, <1>6 DEF Typed, Stages, Held
  <2>2. FifoFits'
    <3>1. \A i \in 1..Len(fifo) : fifo[i] = e => i = 1
      BY <1>1, SentIsFirst
    <3> QED  BY <1>1, <1>6, <2>1, <3>1 DEF FifoFits, Typed, Held
  <2>3. \A x, d : Behind(x, d)' <=> Behind(x, d)
    BY <1>6 DEF Behind
  <2>4. fifo' \in Seq(Held)'
    BY <1>1, <1>6, <2>1 DEF Typed
  <2> QED  BY <1>1, <1>2, <1>3, <1>4, <2>1, <2>2, <2>3, <2>4, Progress
<1> QED  BY <1>5, <1>6 DEF InsertRow

LEMMA FailsOrder ==
  ASSUME OrderInv, NEW e \in Events, InsertFails(e) \/ AddFails(e), UNCHANGED evm  PROVE OrderInv'
<1> USE DEF OrderInv
<1>1. /\ emit[e] \in {"insert", "add"} /\ Fails(e) /\ UNCHANGED <<ahead, row, jobs, queued, reaped>>
      /\ \/ UNCHANGED parked \/ parked' = [parked EXCEPT ![e] = "own"]
  BY DEF InsertFails, AddFails, tables, queue, reaper
<1>2. Aside(e)
  BY <1>1 DEF Aside, Typed, JobIsQueued, Untouched
<1>3. \A d : ~Behind(e, d)
  BY <1>1, SentIsFirst
<1> QED  BY <1>1, <1>2, <1>3, FailsQueue, Progress

LEMMA AddJobOrder ==
  ASSUME OrderInv, NEW e \in Events, AddJob(e), UNCHANGED evm  PROVE OrderInv'
<1> USE DEF OrderInv
<1>1. /\ emit[e] = "add" /\ Sent(e) /\ Add(e, TRUE)
      /\ UNCHANGED <<tried, parked, ahead, row, reaped>>
  BY DEF AddJob, tables, reaper
<1>2. Aside(e)
  BY <1>1, AddAside DEF Aside, Typed, Untouched
<1>3. \A d : ~Behind(e, d)
  BY <1>1, SentIsFirst
<1>4. tried' \in [Events -> Nat] /\ \A d \in Events : tried'[d] >= tried[d]
  BY <1>1 DEF Typed
<1>5. Through(e)'
  BY <1>1, SentQueue DEF Through
<1> QED  BY <1>1, <1>2, <1>3, <1>4, <1>5, SentQueue, Progress

\* A command that was parked, or a row that was stamped, is not of an event that
\* waits its turn.
LEMMA LandOrder ==
  ASSUME OrderInv, NEW e \in Events, Land(e) \/ Redeliver(e), UNCHANGED evm  PROVE OrderInv'
<1> USE DEF OrderInv
<1>1. /\ ~Untouched(e) /\ UNCHANGED <<emit, fifo, tried, ahead, row>>
      /\ \/ \E own : Add(e, own) \/ UNCHANGED <<jobs, queued>>
      /\ DOMAIN parked' = Events /\ DOMAIN reaped' = Events
      /\ \A x \in Events \ {e} : parked'[x] = parked[x] /\ reaped'[x] = reaped[x]
  BY DEF Land, Redeliver, Untouched, producer, tables, queue, reaper, Typed
<1>2. /\ DOMAIN jobs' = Events /\ queued' \subseteq Events /\ queued \subseteq queued'
      /\ queued' \subseteq queued \cup {e}
      /\ \A x \in Events \ queued' : DOMAIN jobs'[x] = {}
  <2>1. CASE \E own : Add(e, own)
    BY <2>1, AddAside
  <2>2. CASE UNCHANGED <<jobs, queued>>
    BY <2>2 DEF Typed, JobIsQueued
  <2> QED  BY <1>1, <2>1, <2>2
<1>3. Aside(e)
  BY <1>1, <1>2 DEF Aside, Untouched, Typed
<1>4. emit[e] # "none"
  BY <1>1 DEF NewIsUntouched
<1>5. /\ tried' \in [Events -> Nat] /\ \A d \in Events : tried'[d] >= tried[d]
      /\ emit' \in [Events -> Stages] /\ fifo' \in Seq(Held)' /\ FifoFits'
  BY <1>1 DEF Typed, FifoFits, Held
<1>6. \A x, d : Behind(x, d)' <=> Behind(x, d)
  BY <1>1 DEF Behind
<1> QED  BY <1>1, <1>3, <1>4, <1>5, <1>6, Progress

\* What dies with the listener is through.
LEMMA CrashOrder ==
  ASSUME OrderInv, NEW S, S = Held \/ (S \subseteq Events /\ S \cap Held = {}), Crash(S), UNCHANGED evm
  PROVE  OrderInv'
<1> USE DEF OrderInv
<1>1. /\ emit' = [e \in Events |-> IF e \in S /\ emit[e] \in {"insert", "add", "held"}
                                     THEN "lost" ELSE emit[e]]
      /\ fifo' = IF S = Held THEN <<>> ELSE fifo
      /\ UNCHANGED <<tried, parked, ahead, row, jobs, queued, reaped>>
      /\ Held' = Held /\ Held \subseteq Events
  BY DEF Crash, tables, queue, reaper, Held
<1>2. emit' \in [Events -> Stages] /\ \A e \in Events \ S : emit'[e] = emit[e]
  BY <1>1 DEF Typed, Stages
<1>3. fifo' \in Seq(Held)
  BY <1>1 DEF Typed
<1>4. \A x : Untouched(x)' <=> Untouched(x)
  BY <1>1 DEF Untouched
<1>5. FifoFits'
  BY <1>1, <1>2 DEF FifoFits, Typed
<1>6. Typed' /\ JobIsQueued' /\ NewIsUntouched'
  BY <1>1, <1>2, <1>3, <1>4 DEF Typed, JobIsQueued, NewIsUntouched
<1>7. \A d \in Events : Through(d) => Through(d)'
  BY <1>1 DEF Through
<1>8. \A e \in Held, d \in Events : Behind(e, d) /\ ~Through(d)' => Behind(e, d)'
  <2>1. CASE S = Held
    <3>1. \A e, d : Behind(e, d) => d \in Held /\ emit[d] \in {"held", "insert", "add"}
      BY DEF Behind, FifoFits, Typed
    <3> QED  BY <1>1, <2>1, <3>1 DEF Through
  <2>2. CASE S # Held
    BY <1>1, <2>2 DEF Behind
  <2> QED  BY <2>1, <2>2
<1>9. Waits'
  BY <1>1, <1>4, <1>7, <1>8, OrderKept
<1> QED  BY <1>5, <1>6, <1>9

-----------------------------------------------------------------------------
(* The others.                                                               *)

\* The worker is at events whose job was added.
LEMMA WorkerOrder ==
  ASSUME OrderInv, NEW e \in Events, UNCHANGED evm,
         Deliver(e) \/ \E i \in DOMAIN jobs[e] : RecordFails(e, i) \/ WorkerDies(e, i)
  PROVE  OrderInv'
<1>1. PICK i \in DOMAIN jobs[e] : Take(e, i) \/ Answered(e, i) \/ RecordFails(e, i) \/ WorkerDies(e, i)
  BY DEF Deliver
<1>2. e \in queued /\ Typed /\ JobIsQueued
  BY DEF OrderInv, JobIsQueued
<1>3. UNCHANGED <<emit, fifo, tried, ahead, queued>>
  BY <1>1 DEF Take, Answered, RecordFails, WorkerDies, producer
<1>4. DOMAIN jobs' = Events /\ \A x \in Events \ {e} : jobs'[x] = jobs[x]
  BY <1>1, <1>2 DEF Take, Answered, RecordFails, WorkerDies, Retried, Finished, Typed
<1>5. /\ DOMAIN row' = Events /\ DOMAIN parked' = Events /\ DOMAIN reaped' = Events
      /\ \A x \in Events \ {e} : row'[x] = row[x] /\ parked'[x] = parked[x] /\ reaped'[x] = reaped[x]
  BY <1>1, <1>2 DEF Take, Answered, RecordFails, WorkerDies, Record, Typed, producer, tables, reaper
<1> QED  BY <1>2, <1>3, <1>4, <1>5, Elsewhere DEF JobIsQueued

LEMMA ClaimOrder ==
  ASSUME OrderInv, NEW e \in Events, Claim(e), UNCHANGED evm  PROVE OrderInv'
<1>1. /\ row[e] # None /\ UNCHANGED <<emit, fifo, tried, ahead, queued, jobs, parked>>
      /\ DOMAIN row' = Events /\ DOMAIN reaped' = Events
      /\ \A x \in Events \ {e} : row'[x] = row[x] /\ reaped'[x] = reaped[x]
  BY DEF Claim, Candidate, producer, queue, OrderInv, Typed
<1> QED  BY <1>1, Elsewhere DEF OrderInv, Typed, JobIsQueued

LEMMA TickOrder ==
  ASSUME OrderInv, Tick, UNCHANGED evm  PROVE OrderInv'
<1>1. /\ UNCHANGED <<emit, fifo, tried, ahead, queued, parked, reaped>>
      /\ DOMAIN row' = Events /\ DOMAIN jobs' = Events
      /\ \A x \in Events : row[x] = None => row'[x] = None
      /\ \A x \in Events : DOMAIN jobs[x] = {} => DOMAIN jobs'[x] = {}
  BY DEF Tick, producer, reaper
<1> QED  BY <1>1, Elsewhere DEF OrderInv, Typed, JobIsQueued

LEMMA NextOrder ==
  ASSUME OrderInv, [Next]_vars  PROVE OrderInv'
<1>1. CASE UNCHANGED vars \/ (Endpoint /\ UNCHANGED evm)
  BY <1>1, Elsewhere DEF vars, Endpoint, producer, tables, queue, reaper, OrderInv, Typed, JobIsQueued
<1>2. ASSUME NEW S \in {Held} \cup {{e} : e \in Events \ Held}, Crash(S), UNCHANGED evm
      PROVE  OrderInv'
  BY <1>2, CrashOrder
<1>3. ASSUME NEW e \in Events, UNCHANGED evm,
             \/ Emit(e) \/ Produce(e) \/ InsertFails(e) \/ AddFails(e)
             \/ Deliver(e)
             \/ \E i \in DOMAIN jobs[e] : RecordFails(e, i) \/ WorkerDies(e, i)
             \/ Claim(e) \/ Redeliver(e)
      PROVE  OrderInv'
  BY <1>3, EmitOrder, InsertRowOrder, AddJobOrder, LandOrder, FailsOrder, WorkerOrder, ClaimOrder
  DEF Produce
<1> QED  BY <1>1, <1>2, <1>3, DrainOrder, TickOrder DEF Next

\* What the listener held when an event came is handed to the queue before that
\* event, unless it failed three times or died with the listener (HeldInOrder), for
\* any events and under any faults of Redis, the database, workers and the reaper.
THEOREM HeldInOrderHolds == Spec => []HeldInOrder
<1>1. OrderInv => HeldInOrder
  BY DEF OrderInv, Waits, Untouched, Through, HeldInOrder
<1> QED  BY <1>1, InitOrder, NextOrder, PTL DEF Spec

-----------------------------------------------------------------------------
(* The retry span, and what is left of it for a job.                         *)

\* The least of two numbers, of which one may be above the cap.
LEMMA BackoffType ==

  ASSUME WebhooksAssumption  PROVE Backoff \in [Nat \ {0} -> Nat]
<1> SUFFICES ASSUME NEW n \in Nat \ {0}  PROVE Backoff[n] \in Nat
  BY DEF Backoff
<1> DEFINE S == {Cap, Base * 2^(n - 1)} \cap (0 .. Cap)
<1>1. Cap \in Nat /\ Cap \in S /\ S \subseteq 0 .. Cap
  BY DEF WebhooksAssumption
<1>2. \A a, b \in S : a = b \/ a = Cap \/ b = Cap
  OBVIOUS
<1>3. \E a \in S : \A b \in S : a =< b
  <2> HIDE DEF S
  <2> QED  BY <1>1, <1>2
<1> HIDE DEF S
<1>4. Min(S) \in S
  BY <1>3 DEF Min
<1>5. Backoff[n] \in {Cap, Min(S)}
  BY DEF Backoff, S
<1>6. S \subseteq Nat
  BY <1>1
<1> QED  BY <1>1, <1>4, <1>5, <1>6

LEMMA GapSpanType ==
  ASSUME WebhooksAssumption
  PROVE  /\ \A a \in Nat \ {0} : GapSpan(a) \in Nat /\ GapSpan(a + 1) = GapSpan(a) + Backoff[a]
         /\ GapSpan(1) = 0
         /\ \A a, b \in Nat \ {0} : a <= b => GapSpan(a) <= GapSpan(b)
<1>1. \A a : GapSpan(a) = SumOf(Backoff, 1 .. a - 1)
  BY DEF GapSpan, SumOf
<1>2. ASSUME NEW a \in Nat \ {0}
      PROVE  IsFiniteSet(1 .. a - 1) /\ \A n \in 1 .. a - 1 : Backoff[n] \in Nat
  <2>1. IsFiniteSet(1 .. a - 1)
    <3>1. 1 \in Int /\ a - 1 \in Int
      OBVIOUS
    <3> QED  BY <3>1, FS_Interval
  <2>2. \A n \in 1 .. a - 1 : n \in Nat \ {0}
    OBVIOUS
  <2> QED  BY <2>1, <2>2, BackoffType
<1>3. \A a \in Nat \ {0} : GapSpan(a) \in Nat
  BY <1>1, <1>2, SumType
<1>4. ASSUME NEW a \in Nat \ {0}  PROVE GapSpan(a + 1) = GapSpan(a) + Backoff[a]
  <2>1. 1 .. (a + 1) - 1 = (1 .. a - 1) \cup {a} /\ a \notin 1 .. a - 1
    OBVIOUS
  <2>2. \A n \in (1 .. a - 1) \cup {a} : Backoff[n] \in Int
    BY BackoffType
  <2>3. SumOf(Backoff, (1 .. a - 1) \cup {a}) = Backoff[a] + SumOf(Backoff, 1 .. a - 1)
    BY <1>2, <2>1, <2>2, SumAdd
  <2>4. GapSpan(a) \in Nat /\ Backoff[a] \in Nat
    BY <1>3, BackoffType
  <2>5. GapSpan(a + 1) = Backoff[a] + GapSpan(a)
    BY <1>1, <2>1, <2>3
  <2> QED  BY <2>4, <2>5
<1>5. GapSpan(1) = 0
  <2>1. 1 .. 1 - 1 = {}
    OBVIOUS
  <2> QED  BY <1>1, <2>1, SumEmpty
<1>6. ASSUME NEW a \in Nat \ {0}, NEW b \in Nat \ {0}, a <= b  PROVE GapSpan(a) <= GapSpan(b)
  <2>1. 1 .. a - 1 \subseteq 1 .. b - 1
    BY <1>6
  <2> QED  BY <1>1, <1>2, <2>1, SumSubset
<1> QED  BY <1>3, <1>4, <1>5, <1>6

\* A set of small numbers has a least one: the smallest of their intervals.
LEMMA Least ==
  ASSUME NEW n \in Nat, NEW G \in SUBSET (1 .. n), G # {}
  PROVE  \E a \in G : \A b \in 1 .. a - 1 : b \notin G
<1> DEFINE E == 1 .. n
           B == {T \in SUBSET E : \E a \in G : T = 1 .. a}
<1>1. IsFiniteSet(E)
  <2>1. 1 \in Int /\ n \in Int
    OBVIOUS
  <2> QED  BY <2>1, FS_Interval
<1>2. PICK m \in G : TRUE
  OBVIOUS
<1>3. \A a \in G : 1 .. a \in SUBSET E
  OBVIOUS
<1>4. B # {} /\ B \in SUBSET SUBSET E
  <2>1. 1 .. m \in B
    BY <1>2, <1>3
  <2> QED  BY <2>1
<1>5. PICK T \in B : \A U \in B : U \subseteq T => U = T
  <2> HIDE DEF B, E
  <2> QED  BY <1>1, <1>4, Smallest
<1>6. PICK a \in G : T = 1 .. a
  BY <1>5
<1>7. ASSUME NEW b \in 1 .. a - 1, b \in G  PROVE FALSE
  <2>1. a \notin 1 .. b /\ 1 .. b \subseteq 1 .. a /\ a \in 1 .. a
    BY <1>6, <1>7
  <2> DEFINE U == 1 .. b
  <2>2. U \in B
    BY <1>3, <1>7
  <2>3. U \subseteq T /\ U # T
    BY <1>6, <2>1
  <2> HIDE DEF U, B
  <2> QED  BY <1>5, <2>2, <2>3
<1> QED  BY <1>6, <1>7

\* attemptsCovering ends.
LEMMA CoveringType ==
  ASSUME WebhooksAssumption  PROVE Covering \in 1 .. 500
<1> DEFINE G == {a \in 1 .. 500 : GapSpan(a) >= Target \/ a = 500}
<1>1. 500 \in G
  OBVIOUS
<1>2. PICK a \in G : \A b \in 1 .. a - 1 : b \notin G
  <2>1. G \in SUBSET (1 .. 500) /\ G # {}
    BY <1>1
  <2> HIDE DEF G
  <2> DEFINE n == 500
  <2>2. n \in Nat /\ G \in SUBSET (1 .. n) /\ G # {}
    BY <2>1
  <2> HIDE DEF n
  <2> QED  BY <2>2, Least
<1>3. ASSUME NEW b \in 1 .. a - 1  PROVE GapSpan(b) < Target
  <2>1. b \in 1 .. 500 /\ b \in Nat \ {0} /\ ~(GapSpan(b) >= Target)
    BY <1>2
  <2>2. Target \in Nat
    BY DEF WebhooksAssumption
  <2>3. GapSpan(b) \in Nat
    BY <2>1, GapSpanType
  <2> QED  BY <2>1, <2>2, <2>3
<1>4. /\ a \in 1 .. 500 /\ (GapSpan(a) >= Target \/ a = 500)
      /\ \A b \in 1 .. a - 1 : GapSpan(b) < Target
  BY <1>2, <1>3
<1> HIDE DEF G
<1> QED  BY <1>4 DEF Covering

LEMMA AttemptsType ==
  ASSUME WebhooksAssumption  PROVE Attempts \in Nat \ {0} /\ RetrySpan \in Nat
<1>1. MaxRetries \in Nat /\ Covering \in Nat /\ Timeout \in Nat
  BY CoveringType DEF WebhooksAssumption
<1> DEFINE S == {1, MaxRetries, Covering}
<1>2. \E x \in S : \A y \in S : x >= y
  BY <1>1
<1>3. Max(S) \in S /\ \A y \in S : Max(S) >= y
  <2> HIDE DEF S
  <2> QED  BY <1>2 DEF Max
<1>4. Attempts \in Nat \ {0}
  BY <1>1, <1>3 DEF Attempts
<1> QED  BY <1>1, <1>4, GapSpanType DEF RetrySpan

\* The time that the attempts after m + 1 of them may take.
Later(m) == GapSpan(Attempts) - GapSpan(m + 1) + (Attempts - 1 - m) * Timeout

\* The time that a job may still take, when nothing that is due is late.
TimeLeft(j) == j.left + (IF j.state = "wait" THEN Timeout ELSE 0) + Later(j.made)

LEMMA LaterStep ==
  ASSUME WebhooksAssumption
  PROVE  /\ \A m \in 0 .. Attempts - 1 : Later(m) \in Nat
         /\ \A m \in 0 .. Attempts - 2 : Later(m) = Backoff[m + 1] + Timeout + Later(m + 1)
         /\ Timeout + Later(0) = RetrySpan
<1>1. Attempts \in Nat \ {0} /\ Timeout \in Nat
  BY AttemptsType DEF WebhooksAssumption
<1>2. \A k \in Nat : k * Timeout \in Nat /\ (k + 1) * Timeout = k * Timeout + Timeout
  BY <1>1
<1>3. ASSUME NEW m \in 0 .. Attempts - 1  PROVE Later(m) \in Nat
  <2>1. m + 1 \in Nat \ {0} /\ m + 1 <= Attempts /\ Attempts - 1 - m \in Nat
    BY <1>1
  <2>2. GapSpan(m + 1) \in Nat /\ GapSpan(Attempts) \in Nat /\ GapSpan(m + 1) <= GapSpan(Attempts)
    BY <1>1, <2>1, GapSpanType
  <2>3. (Attempts - 1 - m) * Timeout \in Nat
    BY <1>2, <2>1
  <2> QED  BY <2>2, <2>3 DEF Later
<1>4. ASSUME NEW m \in 0 .. Attempts - 2
      PROVE  Later(m) = Backoff[m + 1] + Timeout + Later(m + 1)
  <2>1. /\ m + 1 \in Nat \ {0} /\ m + 2 \in Nat \ {0} /\ (m + 1) + 1 = m + 2
        /\ Attempts - 1 - (m + 1) \in Nat /\ Attempts - 1 - m = (Attempts - 1 - (m + 1)) + 1
    BY <1>1
  <2>2. /\ GapSpan(m + 2) = GapSpan(m + 1) + Backoff[m + 1] /\ Backoff[m + 1] \in Nat
        /\ GapSpan(m + 1) \in Nat /\ GapSpan(m + 2) \in Nat /\ GapSpan(Attempts) \in Nat
    BY <1>1, <2>1, GapSpanType, BackoffType
  <2>3. /\ (Attempts - 1 - m) * Timeout = (Attempts - 1 - (m + 1)) * Timeout + Timeout
        /\ (Attempts - 1 - (m + 1)) * Timeout \in Nat
    BY <1>2, <2>1
  <2> DEFINE x == (Attempts - 1 - m) * Timeout
             y == (Attempts - 1 - (m + 1)) * Timeout
  <2>4. Later(m) = GapSpan(Attempts) - GapSpan(m + 1) + x
        /\ Later(m + 1) = GapSpan(Attempts) - GapSpan(m + 2) + y
    BY <2>1 DEF Later
  <2>5. x = y + Timeout /\ y \in Nat
    BY <2>3
  <2> HIDE DEF x, y
  <2> QED  BY <1>1, <2>2, <2>4, <2>5
<1>5. Timeout + Later(0) = RetrySpan
  <2>1. Attempts - 1 \in Nat /\ (Attempts - 1) + 1 = Attempts /\ Attempts - 1 - 0 = Attempts - 1 /\ 0 + 1 = 1
    BY <1>1
  <2>2. Attempts * Timeout = (Attempts - 1) * Timeout + Timeout /\ (Attempts - 1) * Timeout \in Nat
    BY <1>2, <2>1
  <2>3. Later(0) = GapSpan(Attempts) - 0 + (Attempts - 1) * Timeout
    BY <2>1, GapSpanType DEF Later
  <2>4. GapSpan(Attempts) \in Nat
    BY <1>1, GapSpanType
  <2> QED  BY <1>1, <2>2, <2>3, <2>4 DEF RetrySpan
<1> QED  BY <1>3, <1>4, <1>5

-----------------------------------------------------------------------------
(* The reaper and the queue: the inductive invariant.                        *)

Job == [state : {"wait", "active"}, made : 0 .. Attempts - 1, left : Nat, own : BOOLEAN]
LogRow == [age : Nat, told : BOOLEAN, stamped : BOOLEAN]

\* What is about to be added is of a row that is new, or that the reaper has
\* stamped: the clock waits for it.
InHand(e) ==
  /\ (emit[e] = "add" \/ parked[e] # "no" \/ reaped[e] \notin {"no", "own"}) =>
       row[e] \in LogRow /\ row[e].age = 0
  /\ reaped[e] = "own" => row[e] \in LogRow /\ row[e].stamped

\* A job is done before its row is as old as the retry span, unless it is the
\* reaper's own.
Spans(r, j) ==
  /\ r \in LogRow /\ TimeLeft(j) <= RetrySpan
  /\ r.stamped \/ r.age + TimeLeft(j) <= RetrySpan

JobsInTime(e) == \A i \in DOMAIN jobs[e] : Spans(row[e], jobs[e][i])

EventInv(e) ==
  /\ row[e] = None \/ row[e] \in LogRow
  /\ jobs[e] \in Seq(Job)
  /\ InHand(e) /\ JobsInTime(e)

RaceInv == OrderInv /\ \A e \in Events : EventInv(e)

LEMMA InitRace == Init => RaceInv
<1> SUFFICES ASSUME Init  PROVE RaceInv
  OBVIOUS
<1>1. ASSUME NEW e \in Events  PROVE EventInv(e)
  BY DEF Init, EventInv, InHand, JobsInTime
<1> QED  BY <1>1, InitOrder DEF RaceInv

-----------------------------------------------------------------------------
(* The time that one job has left.                                           *)

LEMMA TimeLeftType ==
  ASSUME WebhooksAssumption, NEW j \in Job  PROVE TimeLeft(j) \in Nat
<1>1. Later(j.made) \in Nat /\ j.left \in Nat /\ Timeout \in Nat
  BY LaterStep DEF Job, WebhooksAssumption
<1> QED  BY <1>1 DEF TimeLeft

LEMMA NewJobSpans ==
  ASSUME WebhooksAssumption, NEW own \in BOOLEAN
  PROVE  NewJob(own) \in Job /\ TimeLeft(NewJob(own)) = RetrySpan
<1>1. Attempts \in Nat \ {0}
  BY AttemptsType
<1>2. NewJob(own) \in Job
  BY <1>1 DEF NewJob, Job
<1>3. TimeLeft(NewJob(own)) = 0 + Timeout + Later(0) /\ Timeout \in Nat /\ Later(0) \in Nat
  BY <1>1, LaterStep DEF TimeLeft, NewJob, WebhooksAssumption
<1> QED  BY <1>2, <1>3, LaterStep

LEMMA TakenSpans ==
  ASSUME WebhooksAssumption, NEW j \in Job, j.state = "wait", j.left = 0, NEW k,
         k = [j EXCEPT !.state = "active", !.left = Timeout]
  PROVE  k \in Job /\ TimeLeft(k) = TimeLeft(j)
<1>1. /\ k \in Job /\ k.state = "active" /\ k.left = Timeout /\ k.made = j.made
      /\ Timeout \in Nat /\ Later(j.made) \in Nat
  BY LaterStep DEF Job, WebhooksAssumption
<1> QED  BY <1>1 DEF TimeLeft

LEMMA RetriedSpans ==
  ASSUME WebhooksAssumption, NEW j \in Job, j.state = "active", j.made + 1 < Attempts, NEW k,
         k = [j EXCEPT !.state = "wait", !.made = j.made + 1, !.left = Backoff[j.made + 1]]
  PROVE  k \in Job /\ TimeLeft(k) <= TimeLeft(j)
<1>1. /\ Attempts \in Nat \ {0} /\ j.made \in 0 .. Attempts - 2 /\ j.made + 1 \in 0 .. Attempts - 1
      /\ j.left \in Nat /\ Timeout \in Nat /\ j.made + 1 \in Nat \ {0}
  BY AttemptsType DEF Job, WebhooksAssumption
<1>2. Backoff[j.made + 1] \in Nat
  BY <1>1, BackoffType
<1>3. /\ k \in Job /\ k.state = "wait" /\ k.left = Backoff[j.made + 1] /\ k.made = j.made + 1
  BY <1>1, <1>2 DEF Job
<1>4. /\ Later(j.made) = Backoff[j.made + 1] + Timeout + Later(j.made + 1)
      /\ Later(j.made + 1) \in Nat
  BY <1>1, LaterStep
<1>5. TimeLeft(k) = Backoff[j.made + 1] + Timeout + Later(j.made + 1)
      /\ TimeLeft(j) = j.left + 0 + Later(j.made)
  BY <1>3 DEF TimeLeft
<1> QED  BY <1>1, <1>2, <1>3, <1>4, <1>5

LEMMA Disowned ==
  ASSUME NEW js \in Seq(Job)
  PROVE  /\ Disown(js) \in Seq(Job) /\ DOMAIN Disown(js) = DOMAIN js
         /\ \A i \in DOMAIN js : TimeLeft(Disown(js)[i]) = TimeLeft(js[i])
                                 /\ Disown(js)[i].made = js[i].made
                                 /\ Disown(js)[i].state = js[i].state
                                 /\ Disown(js)[i].left = js[i].left
<1>1. \A i \in DOMAIN js : js[i] \in Job /\ [js[i] EXCEPT !.own = FALSE] \in Job
  <2>1. \A i \in DOMAIN js : js[i] \in Job
    OBVIOUS
  <2>2. \A j \in Job : [j EXCEPT !.own = FALSE] \in Job
    BY DEF Job
  <2> QED  BY <2>1, <2>2
<1>2. Len(js) \in Nat /\ DOMAIN js = 1 .. Len(js)
  OBVIOUS
<1>3. Disown(js) \in [1 .. Len(js) -> Job]
  BY <1>1, <1>2 DEF Disown
<1>4. Disown(js) \in Seq(Job)
  BY <1>2, <1>3, IsASeq
<1> QED  BY <1>1, <1>4 DEF Disown, TimeLeft, Job

\* One job leaves the queue.
LEMMA Removed ==
  ASSUME NEW js \in Seq(Job), NEW i \in DOMAIN js
  PROVE  /\ RemoveAt(js, i) \in Seq(Job)
         /\ \A k \in DOMAIN RemoveAt(js, i) : \E l \in DOMAIN js : RemoveAt(js, i)[k] = js[l]
<1>1. Len(js) \in Nat /\ i \in 1 .. Len(js) /\ i - 1 \in 0 .. Len(js)
  OBVIOUS
<1> DEFINE a == SubSeq(js, 1, i - 1)
           b == SubSeq(js, i + 1, Len(js))
<1>2. /\ a \in Seq(Job) /\ Len(a) = i - 1
      /\ \A k \in 1 .. i - 1 : a[k] = js[k]
  BY <1>1
<1>3. /\ b \in Seq(Job) /\ Len(b) = Len(js) - i
      /\ \A k \in 1 .. Len(js) - i : b[k] = js[i + k]
  BY <1>1
<1> HIDE DEF a, b
<1>4. /\ a \o b \in Seq(Job) /\ Len(a \o b) = Len(js) - 1
      /\ \A k \in 1 .. Len(js) - 1 : (a \o b)[k] = IF k <= i - 1 THEN a[k] ELSE b[k - (i - 1)]
  BY <1>1, <1>2, <1>3
<1>5. ASSUME NEW k \in 1 .. Len(js) - 1  PROVE \E l \in DOMAIN js : (a \o b)[k] = js[l]
  <2>1. CASE k <= i - 1
    <3>1. k \in 1 .. i - 1 /\ k \in DOMAIN js
      BY <1>1, <1>5, <2>1
    <3>2. (a \o b)[k] = a[k]
      BY <1>4, <1>5, <2>1
    <3> QED  BY <1>2, <3>1, <3>2
  <2>2. CASE ~(k <= i - 1)
    <3>1. k - (i - 1) \in 1 .. Len(js) - i /\ i + (k - (i - 1)) = k + 1 /\ k + 1 \in DOMAIN js
      BY <1>1, <1>5, <2>2
    <3>2. (a \o b)[k] = b[k - (i - 1)]
      BY <1>4, <1>5, <2>2
    <3>3. b[k - (i - 1)] = js[i + (k - (i - 1))]
      BY <1>3, <3>1
    <3> QED  BY <3>1, <3>2, <3>3
  <2> QED  BY <2>1, <2>2
<1>6. DOMAIN (a \o b) = 1 .. Len(js) - 1
  BY <1>4
<1>7. RemoveAt(js, i) = a \o b
  BY DEF RemoveAt, a, b
<1> DEFINE c == a \o b
<1>8. c \in Seq(Job) /\ \A k \in DOMAIN c : \E l \in DOMAIN js : c[k] = js[l]
  BY <1>4, <1>5, <1>6
<1> HIDE DEF c
<1> QED  BY <1>7, <1>8 DEF c

-----------------------------------------------------------------------------
(* The steps.                                                                *)

\* An event that a step leaves alone.
LEMMA EventKept ==
  ASSUME NEW e, EventInv(e), row'[e] = row[e], jobs'[e] = jobs[e],
         parked'[e] = parked[e], reaped'[e] = reaped[e], emit'[e] = "add" => emit[e] = "add"
  PROVE  EventInv(e)'
BY DEF EventInv, InHand, JobsInTime

\* A job takes no longer than one that was there, and its row is new or no older.
LEMMA JobsCarried ==
  ASSUME WebhooksAssumption, NEW e, EventInv(e), jobs'[e] \in Seq(Job),
         \A k \in DOMAIN jobs'[e] : \E i \in DOMAIN jobs[e] :
           TimeLeft(jobs'[e][k]) <= TimeLeft(jobs[e][i]),
         row[e] \in LogRow => row'[e] \in LogRow,
         \/ row'[e].age = 0
         \/ row'[e].age = row[e].age /\ (row[e].stamped => row'[e].stamped)
  PROVE  JobsInTime(e)'
<1> SUFFICES ASSUME NEW k \in DOMAIN jobs'[e]  PROVE Spans(row'[e], jobs'[e][k])
  BY DEF JobsInTime
<1>1. PICK i \in DOMAIN jobs[e] : TimeLeft(jobs'[e][k]) <= TimeLeft(jobs[e][i])
  OBVIOUS
<1>2. jobs[e][i] \in Job /\ jobs'[e][k] \in Job /\ Spans(row[e], jobs[e][i])
  BY <1>1 DEF EventInv, JobsInTime
<1> DEFINE x == TimeLeft(jobs[e][i])
           y == TimeLeft(jobs'[e][k])
<1>3. x \in Nat /\ y \in Nat /\ y <= x /\ RetrySpan \in Nat
  BY <1>1, <1>2, TimeLeftType, AttemptsType
<1>4. row[e] \in LogRow /\ row'[e] \in LogRow /\ x <= RetrySpan /\ (row[e].stamped \/ row[e].age + x <= RetrySpan)
  BY <1>2 DEF Spans
<1>5. row[e].age \in Nat /\ row'[e].age \in Nat
  BY <1>4 DEF LogRow
<1> HIDE DEF x, y
<1>6. y <= RetrySpan /\ (row'[e].stamped \/ row'[e].age + y <= RetrySpan)
  BY <1>3, <1>4, <1>5
<1> QED  BY <1>4, <1>6 DEF Spans, y

\* What is in hand is added.
LEMMA JobAdded ==
  ASSUME WebhooksAssumption, RaceInv, NEW e \in Events, NEW own \in BOOLEAN, Add(e, own),
         row' = row, row[e] \in LogRow, row[e].age = 0 \/ row[e].stamped
  PROVE  /\ jobs'[e] \in Seq(Job) /\ JobsInTime(e)'
         /\ \A x \in Events \ {e} : jobs'[x] = jobs[x]
<1>1. EventInv(e) /\ DOMAIN jobs = Events /\ jobs[e] \in Seq(Job)
  BY DEF RaceInv, OrderInv, Typed, EventInv
<1>2. CASE e \notin Followed
  BY <1>1, <1>2 DEF Add, EventInv, JobsInTime
<1>3. CASE e \in Followed
  <2>1. jobs'[e] = Append(jobs[e], NewJob(own)) /\ \A x \in Events \ {e} : jobs'[x] = jobs[x]
    BY <1>1, <1>3 DEF Add
  <2>2. NewJob(own) \in Job /\ TimeLeft(NewJob(own)) = RetrySpan /\ RetrySpan \in Nat
    BY NewJobSpans, AttemptsType
  <2>3. Spans(row[e], NewJob(own))
    BY <2>2 DEF Spans
  <2>4. \A k \in DOMAIN Append(jobs[e], NewJob(own)) :
          \/ k \in DOMAIN jobs[e] /\ Append(jobs[e], NewJob(own))[k] = jobs[e][k]
          \/ Append(jobs[e], NewJob(own))[k] = NewJob(own)
    BY <1>1, <2>2
  <2>5. Append(jobs[e], NewJob(own)) \in Seq(Job)
    BY <1>1, <2>2
  <2> QED  BY <1>1, <2>1, <2>3, <2>4, <2>5 DEF EventInv, JobsInTime
<1> QED  BY <1>2, <1>3

\* The producers' steps that add nothing to the queue.
LEMMA ProducerRace ==
  ASSUME RaceInv, UNCHANGED <<row, jobs, reaped>>,
         \A e \in Events : /\ emit'[e] = "add" => emit[e] = "add"
                           /\ parked'[e] = parked[e] \/ emit[e] = "add"
  PROVE  \A e \in Events : EventInv(e)'
BY DEF RaceInv, EventInv, InHand, JobsInTime

LEMMA FailsEmit ==
  ASSUME OrderInv, NEW e \in Events, Fails(e)
  PROVE  \A x \in Events : emit'[x] = "add" => emit[x] = "add"
BY DEF Fails, OrderInv, Typed

LEMMA InsertRowRace ==
  ASSUME WebhooksAssumption, RaceInv, NEW e \in Events, InsertRow(e)
  PROVE  \A x \in Events : EventInv(x)'
<1>1. /\ emit[e] = "insert" /\ OrderInv /\ EventInv(e)
      /\ row' = [row EXCEPT ![e] = Row(url = "blocked")] /\ jobs' = [jobs EXCEPT ![e] = Disown(jobs[e])]
      /\ parked' = [parked EXCEPT ![e] = Older(parked[e])]
      /\ reaped' = [reaped EXCEPT ![e] = Older(reaped[e])]
  BY DEF InsertRow, RaceInv
<1>2. \A x \in Events \ {e} : emit'[x] = "add" => emit[x] = "add"
  BY <1>1 DEF InsertRow, Sent, OrderInv, Typed
<1>3. \A x \in Events \ {e} : EventInv(x)'
  <2>1. \A x \in Events \ {e} : /\ row'[x] = row[x] /\ jobs'[x] = jobs[x]
                                /\ parked'[x] = parked[x] /\ reaped'[x] = reaped[x]
    BY <1>1 DEF OrderInv, Typed
  <2> QED  BY <1>2, <2>1, EventKept DEF RaceInv
<1>4. row'[e] \in LogRow /\ row'[e].age = 0
  BY <1>1 DEF OrderInv, Typed, Row, LogRow
<1>5. /\ jobs'[e] \in Seq(Job)
      /\ \A k \in DOMAIN jobs'[e] : k \in DOMAIN jobs[e] /\ TimeLeft(jobs'[e][k]) = TimeLeft(jobs[e][k])
  <2>1. jobs'[e] = Disown(jobs[e]) /\ jobs[e] \in Seq(Job)
    BY <1>1 DEF OrderInv, Typed, EventInv
  <2> QED  BY <2>1, Disowned
<1>6. JobsInTime(e)'
  <2>1. \A k \in DOMAIN jobs'[e] : jobs[e][k] \in Job
    BY <1>1, <1>5 DEF EventInv
  <2>2. \A k \in DOMAIN jobs'[e] : TimeLeft(jobs'[e][k]) <= TimeLeft(jobs[e][k])
    BY <1>5, <2>1, TimeLeftType
  <2> QED  BY <1>1, <1>4, <1>5, <2>2, JobsCarried
<1>7. InHand(e)'
  BY <1>1, <1>4 DEF InHand, Older, OrderInv, Typed
<1>8. EventInv(e)'
  BY <1>4, <1>5, <1>6, <1>7 DEF EventInv
<1> QED  BY <1>3, <1>8

\* An enqueue, a parked command or the reaper adds a job.
LEMMA AddRace ==
  ASSUME WebhooksAssumption, RaceInv, NEW e \in Events, AddJob(e) \/ Land(e) \/ Redeliver(e)
  PROVE  \A x \in Events : EventInv(x)'
<1>1. EventInv(e) /\ InHand(e) /\ row' = row /\ OrderInv
  BY DEF AddJob, Land, Redeliver, RaceInv, EventInv, tables
<1>2. \A x \in Events : emit'[x] = "add" => emit[x] = "add"
  BY <1>1 DEF AddJob, Land, Redeliver, Sent, OrderInv, Typed, producer
<1>3. /\ \A x \in Events : /\ parked'[x] = parked[x] \/ parked'[x] = "no"
                           /\ reaped'[x] = reaped[x] \/ reaped'[x] = "no"
      /\ \A x \in Events \ {e} : parked'[x] = parked[x] /\ reaped'[x] = reaped[x]
  BY <1>1 DEF AddJob, Land, Redeliver, OrderInv, Typed, producer, reaper
<1>4. CASE \E own \in BOOLEAN : Add(e, own)
  <2>1. PICK own \in BOOLEAN : Add(e, own)
    BY <1>4
  <2>2. row[e] \in LogRow /\ (row[e].age = 0 \/ row[e].stamped)
    BY <1>1 DEF AddJob, Land, Redeliver, InHand
  <2>3. /\ jobs'[e] \in Seq(Job) /\ JobsInTime(e)'
        /\ \A x \in Events \ {e} : jobs'[x] = jobs[x]
    BY <1>1, <2>1, <2>2, JobAdded
  <2>4. EventInv(e)'
    BY <1>1, <1>2, <1>3, <2>3 DEF EventInv, InHand
  <2>5. \A x \in Events \ {e} : EventInv(x)'
    BY <1>1, <1>2, <1>3, <2>3, EventKept DEF RaceInv
  <2> QED  BY <2>4, <2>5
<1>5. CASE jobs' = jobs
  BY <1>1, <1>2, <1>3, <1>5 DEF RaceInv, EventInv, InHand, JobsInTime
<1>6. (\E own \in BOOLEAN : Add(e, own)) \/ jobs' = jobs
  BY DEF AddJob, Land, Redeliver, queue
<1> QED  BY <1>4, <1>5, <1>6

\* An attempt is written: to the job's own row, or as a new one.
LEMMA RecordRace ==
  ASSUME WebhooksAssumption, OrderInv, NEW e \in Events, EventInv(e), NEW i \in DOMAIN jobs[e], Record(e, i)
  PROVE  /\ row'[e] \in LogRow
         /\ row'[e].age = 0 \/ (row'[e].age = row[e].age /\ row'[e].stamped = row[e].stamped)
         /\ \A x \in Events \ {e} : row'[x] = row[x] /\ parked'[x] = parked[x] /\ reaped'[x] = reaped[x]
         /\ emit'[e] = emit[e] => InHand(e)'
<1>1. row[e] \in LogRow /\ DOMAIN row = Events /\ DOMAIN parked = Events /\ DOMAIN reaped = Events
  BY DEF EventInv, JobsInTime, Spans, OrderInv, Typed
<1>2. CASE jobs[e][i].made = 0
  <2>1. /\ row' = row \/ row' = [row EXCEPT ![e].told = TRUE]
        /\ parked' = parked /\ reaped' = reaped
    BY <1>2 DEF Record
  <2>2. row'[e] \in LogRow /\ row'[e].age = row[e].age /\ row'[e].stamped = row[e].stamped
    BY <1>1, <2>1 DEF LogRow
  <2> QED  BY <1>1, <2>1, <2>2 DEF EventInv, InHand
<1>3. CASE jobs[e][i].made # 0
  <2>1. /\ row' = [row EXCEPT ![e] = Row(TRUE)]
        /\ parked' = [parked EXCEPT ![e] = Older(parked[e])]
        /\ reaped' = [reaped EXCEPT ![e] = Older(reaped[e])]
    BY <1>3 DEF Record
  <2>2. row'[e] \in LogRow /\ row'[e].age = 0
    BY <1>1, <2>1 DEF Row, LogRow
  <2> QED  BY <1>1, <2>1, <2>2 DEF EventInv, InHand, Older
<1> QED  BY <1>2, <1>3

\* What the worker leaves of the queue of e: its job taken, retried or gone, and
\* the others as they were.
Worked(e, js, i) ==
  \/ jobs[e][i].state = "wait" /\ jobs[e][i].left = 0
     /\ jobs' = [jobs EXCEPT ![e] = [js EXCEPT ![i] = [@ EXCEPT !.state = "active", !.left = Timeout]]]
  \/ jobs[e][i].state = "active" /\ (Retried(e, js, i) \/ jobs' = [jobs EXCEPT ![e] = RemoveAt(js, i)])

LEMMA WorkedInTime ==
  ASSUME WebhooksAssumption, OrderInv, NEW e \in Events, EventInv(e), NEW i \in DOMAIN jobs[e],
         NEW js \in {jobs[e], Disown(jobs[e])}, Worked(e, js, i)
  PROVE  /\ jobs'[e] \in Seq(Job) /\ \A x \in Events \ {e} : jobs'[x] = jobs[x]
         /\ \A k \in DOMAIN jobs'[e] : \E l \in DOMAIN jobs[e] :
              TimeLeft(jobs'[e][k]) <= TimeLeft(jobs[e][l])
<1>1. DOMAIN jobs = Events /\ jobs[e] \in Seq(Job)
  BY DEF OrderInv, Typed, EventInv
<1>2. /\ js \in Seq(Job) /\ DOMAIN js = DOMAIN jobs[e]
      /\ \A l \in DOMAIN js : /\ TimeLeft(js[l]) = TimeLeft(jobs[e][l])
                              /\ js[l].made = jobs[e][l].made /\ js[l].state = jobs[e][l].state
                              /\ js[l].left = jobs[e][l].left
  <2>1. CASE js = jobs[e]
    BY <1>1, <2>1
  <2>2. CASE js = Disown(jobs[e])
    BY <1>1, <2>2, Disowned
  <2> QED  BY <2>1, <2>2
<1>3. js[i] \in Job
  BY <1>2
<1>4. \A l \in DOMAIN js : js[l] \in Job /\ TimeLeft(js[l]) \in Nat
  BY <1>2, TimeLeftType
\* The job is another one, that takes no longer.
<1>5. ASSUME NEW j \in Job, TimeLeft(j) <= TimeLeft(js[i]), jobs'[e] = [js EXCEPT ![i] = j]
      PROVE  /\ jobs'[e] \in Seq(Job)
             /\ \A k \in DOMAIN jobs'[e] : \E l \in DOMAIN jobs[e] :
                  TimeLeft(jobs'[e][k]) <= TimeLeft(jobs[e][l])
  <2>1. jobs'[e] \in Seq(Job) /\ DOMAIN jobs'[e] = DOMAIN js
    BY <1>2, <1>5
  <2>2. \A k \in DOMAIN js : jobs'[e][k] = IF k = i THEN j ELSE js[k]
    BY <1>2, <1>5
  <2> QED  BY <1>2, <1>4, <1>5, <2>1, <2>2
<1>6. ASSUME jobs'[e] = RemoveAt(js, i)
      PROVE  /\ jobs'[e] \in Seq(Job)
             /\ \A k \in DOMAIN jobs'[e] : \E l \in DOMAIN jobs[e] :
                  TimeLeft(jobs'[e][k]) <= TimeLeft(jobs[e][l])
  <2>1. /\ jobs'[e] \in Seq(Job)
        /\ \A k \in DOMAIN jobs'[e] : \E l \in DOMAIN js : jobs'[e][k] = js[l]
    BY <1>2, <1>6, Removed
  <2> QED  BY <1>2, <1>4, <2>1
<1>7. CASE /\ js[i].state = "wait" /\ js[i].left = 0
           /\ jobs' = [jobs EXCEPT ![e] = [js EXCEPT ![i] = [@ EXCEPT !.state = "active", !.left = Timeout]]]
  <2> DEFINE j == [js[i] EXCEPT !.state = "active", !.left = Timeout]
  <2>1. j \in Job /\ TimeLeft(j) = TimeLeft(js[i])
    BY <1>3, <1>7, TakenSpans
  <2>2. jobs'[e] = [js EXCEPT ![i] = j] /\ \A x \in Events \ {e} : jobs'[x] = jobs[x]
    BY <1>1, <1>7
  <2>3. TimeLeft(j) <= TimeLeft(js[i])
    BY <1>2, <1>4, <2>1
  <2> HIDE DEF j
  <2> QED  BY <1>5, <2>1, <2>2, <2>3
<1>8. CASE js[i].state = "active" /\ Retried(e, js, i) /\ js[i].made + 1 < Attempts
  <2> DEFINE j == [js[i] EXCEPT !.state = "wait", !.made = js[i].made + 1,
                                !.left = Backoff[js[i].made + 1]]
  <2>1. j \in Job /\ TimeLeft(j) <= TimeLeft(js[i])
    BY <1>3, <1>8, RetriedSpans
  <2> DEFINE ks == [js EXCEPT ![i].state = "wait", ![i].made = @ + 1,
                              ![i].left = Backoff[js[i].made + 1]]
  <2>2. ks = [js EXCEPT ![i] = j]
    BY <1>2, <1>3 DEF Job
  <2>3. jobs' = [jobs EXCEPT ![e] = ks]
    BY <1>8 DEF Retried
  <2> HIDE DEF ks
  <2>4. jobs'[e] = ks /\ \A x \in Events \ {e} : jobs'[x] = jobs[x]
    BY <1>1, <2>3
  <2> HIDE DEF j
  <2> QED  BY <1>5, <2>1, <2>2, <2>4
<1>9. CASE jobs' = [jobs EXCEPT ![e] = RemoveAt(js, i)]
  <2>1. jobs'[e] = RemoveAt(js, i) /\ \A x \in Events \ {e} : jobs'[x] = jobs[x]
    BY <1>1, <1>9
  <2> QED  BY <1>6, <2>1
<1> QED  BY <1>2, <1>7, <1>8, <1>9 DEF Worked, Retried

LEMMA WorkerRace ==
  ASSUME WebhooksAssumption, RaceInv, NEW e \in Events, NEW i \in DOMAIN jobs[e],
         Take(e, i) \/ Answered(e, i) \/ RecordFails(e, i)
  PROVE  \A x \in Events : EventInv(x)'
<1>1. OrderInv /\ EventInv(e) /\ emit' = emit /\ InHand(e)
  BY DEF RaceInv, EventInv, Take, Answered, RecordFails, producer
<1>2. DOMAIN jobs[e] # {} /\ row[e] \in LogRow /\ DOMAIN jobs = Events
  BY <1>1 DEF EventInv, JobsInTime, Spans, OrderInv, Typed
<1>3. CASE Take(e, i)
  <2>1. Worked(e, jobs[e], i)
    BY <1>2, <1>3 DEF Take, Worked
  <2>2. UNCHANGED <<row, parked, reaped>>
    BY <1>3 DEF Take, tables, reaper, producer
  <2>3. /\ jobs'[e] \in Seq(Job) /\ \A x \in Events \ {e} : jobs'[x] = jobs[x]
        /\ JobsInTime(e)'
    BY <1>1, <1>2, <2>1, <2>2, WorkedInTime, JobsCarried
  <2>4. EventInv(e)'
    BY <1>1, <1>2, <2>2, <2>3 DEF EventInv, InHand
  <2> QED  BY <1>1, <2>2, <2>3, <2>4, EventKept DEF RaceInv
<1>4. CASE RecordFails(e, i)
  <2>1. Worked(e, jobs[e], i)
    BY <1>4 DEF RecordFails, Worked
  <2>2. UNCHANGED <<row, parked, reaped>>
    BY <1>4 DEF RecordFails, tables, reaper, producer
  <2>3. /\ jobs'[e] \in Seq(Job) /\ \A x \in Events \ {e} : jobs'[x] = jobs[x]
        /\ JobsInTime(e)'
    BY <1>1, <1>2, <2>1, <2>2, WorkedInTime, JobsCarried
  <2>4. EventInv(e)'
    BY <1>1, <1>2, <2>2, <2>3 DEF EventInv, InHand
  <2> QED  BY <1>1, <2>2, <2>3, <2>4, EventKept DEF RaceInv
<1>5. CASE Answered(e, i)
  <2> DEFINE js == AfterRecord(e, i)
  <2>1. js \in {jobs[e], Disown(jobs[e])} /\ Worked(e, js, i)
    BY <1>5 DEF Answered, Worked, AfterRecord, Finished
  <2>2. /\ row'[e] \in LogRow
        /\ row'[e].age = 0 \/ (row'[e].age = row[e].age /\ row'[e].stamped = row[e].stamped)
        /\ \A x \in Events \ {e} : row'[x] = row[x] /\ parked'[x] = parked[x] /\ reaped'[x] = reaped[x]
        /\ InHand(e)'
    BY <1>1, <1>5, RecordRace DEF Answered
  <2> HIDE DEF js
  <2>3. /\ jobs'[e] \in Seq(Job) /\ \A x \in Events \ {e} : jobs'[x] = jobs[x]
        /\ \A k \in DOMAIN jobs'[e] : \E l \in DOMAIN jobs[e] :
             TimeLeft(jobs'[e][k]) <= TimeLeft(jobs[e][l])
    BY <1>1, <2>1, WorkedInTime
  <2>4. JobsInTime(e)'
    BY <1>1, <1>2, <2>2, <2>3, JobsCarried
  <2>5. EventInv(e)'
    BY <2>2, <2>3, <2>4 DEF EventInv
  <2> QED  BY <1>1, <2>2, <2>3, <2>5, EventKept DEF RaceInv
<1> QED  BY <1>3, <1>4, <1>5

LEMMA ClaimRace ==
  ASSUME RaceInv, NEW e \in Events, Claim(e)
  PROVE  \A x \in Events : EventInv(x)'
<1>1. /\ row[e] \in LogRow /\ row' = [row EXCEPT ![e].stamped = TRUE]
      /\ reaped' = [reaped EXCEPT ![e] = "own"] /\ UNCHANGED <<emit, parked, jobs>>
      /\ DOMAIN row = Events /\ DOMAIN reaped = Events /\ EventInv(e)
  BY DEF Claim, Candidate, RaceInv, EventInv, OrderInv, Typed, producer, queue
<1>2. row'[e] \in LogRow /\ row'[e].age = row[e].age /\ row'[e].stamped /\ reaped'[e] = "own"
  BY <1>1 DEF LogRow
<1>3. EventInv(e)'
  BY <1>1, <1>2 DEF EventInv, InHand, JobsInTime, Spans
<1>4. \A x \in Events \ {e} : row'[x] = row[x] /\ reaped'[x] = reaped[x]
  BY <1>1
<1> QED  BY <1>1, <1>3, <1>4, EventKept DEF RaceInv

\* While nothing is late, every job is nearer its end when its row is older.
LEMMA TickRace ==
  ASSUME WebhooksAssumption, "behind" \notin Faults, RaceInv, Tick
  PROVE  \A e \in Events : EventInv(e)'
<1> SUFFICES ASSUME NEW e \in Events  PROVE EventInv(e)'
  OBVIOUS
<1>1. /\ EventInv(e) /\ ~Due /\ Prompt
      /\ row' = [x \in Events |-> IF x \notin Followed \/ row[x] = None THEN row[x]
                                  ELSE [row[x] EXCEPT !.age = Min({row[x].age + 1, MaxAge + 1})]]
      /\ jobs' = [x \in Events |-> [i \in DOMAIN jobs[x] |-> [jobs[x][i] EXCEPT !.left = Down(jobs[x][i].left)]]]
      /\ UNCHANGED <<emit, parked, reaped>>
  BY DEF Tick, Fault, RaceInv, producer, reaper
<1>2. InHand(e)'
  BY <1>1 DEF Prompt, InHand
<1>3. row[e] \in LogRow =>
        row'[e] \in LogRow /\ row'[e].age <= row[e].age + 1 /\ row'[e].stamped = row[e].stamped
  <2> SUFFICES ASSUME row[e] \in LogRow
               PROVE  /\ row'[e] \in LogRow /\ row'[e].age <= row[e].age + 1
                      /\ row'[e].stamped = row[e].stamped
    OBVIOUS
  <2> DEFINE S == {row[e].age + 1, MaxAge + 1}
  <2>1. row[e].age \in Nat /\ MaxAge \in Nat
    BY DEF LogRow, WebhooksAssumption
  <2>2. \E a \in S : \A b \in S : a =< b
    BY <2>1
  <2>3. Min(S) \in S /\ \A b \in S : Min(S) <= b
    <3> HIDE DEF S
    <3> QED  BY <2>2 DEF Min
  <2>4. Min(S) \in Nat /\ Min(S) <= row[e].age + 1
    BY <2>1, <2>3
  <2>5. row'[e] = row[e] \/ row'[e] = [row[e] EXCEPT !.age = Min(S)]
    BY <1>1
  <2> HIDE DEF S
  <2> QED  BY <2>1, <2>4, <2>5 DEF LogRow
<1>4. row'[e] = None \/ row'[e] \in LogRow
  BY <1>1, <1>3 DEF EventInv
<1>5. ASSUME NEW i \in DOMAIN jobs[e]
      PROVE  /\ jobs'[e][i] \in Job /\ TimeLeft(jobs'[e][i]) = TimeLeft(jobs[e][i]) - 1
             /\ TimeLeft(jobs[e][i]) \in Nat
  <2> DEFINE j == jobs[e][i]
             k == [j EXCEPT !.left = Down(j.left)]
  <2>1. j \in Job /\ j.left \in Nat /\ TimeLeft(j) \in Nat
    <3>1. j \in Job
      BY <1>1 DEF EventInv
    <3> HIDE DEF j
    <3> QED  BY <3>1, TimeLeftType DEF Job
  <2>2. j.left > 0
    BY <1>1, <2>1 DEF Prompt, Due, Job
  <2>3. Down(j.left) = j.left - 1
    <3> DEFINE S == {0, j.left - 1}
    <3>1. j.left - 1 \in Nat /\ j.left - 1 \in S /\ \A y \in S : j.left - 1 >= y
      BY <2>1, <2>2
    <3>2. \A x \in S : (\A y \in S : x >= y) => x = j.left - 1
      BY <2>1, <2>2
    <3>3. Max(S) = j.left - 1
      <4> HIDE DEF S
      <4> QED  BY <3>1, <3>2 DEF Max
    <3> QED  BY <3>3 DEF Down
  <2>4. jobs'[e][i] = k
    BY <1>1
  <2>5. k \in Job /\ k.left = j.left - 1 /\ k.made = j.made /\ k.state = j.state
    BY <2>1, <2>2, <2>3 DEF Job
  <2>6. Later(j.made) \in Nat /\ Timeout \in Nat
    BY <2>1, LaterStep DEF Job, WebhooksAssumption
  <2>7. TimeLeft(k) = TimeLeft(j) - 1
    <3> HIDE DEF k
    <3> QED  BY <2>1, <2>5, <2>6 DEF TimeLeft
  <2> QED  BY <2>1, <2>4, <2>5, <2>7
<1>6. jobs[e] \in Seq(Job) /\ DOMAIN jobs'[e] = DOMAIN jobs[e]
  BY <1>1 DEF EventInv
<1>7. jobs'[e] \in Seq(Job)
  <2>1. Len(jobs[e]) \in Nat /\ DOMAIN jobs[e] = 1 .. Len(jobs[e])
    BY <1>6
  <2>2. jobs'[e] = [i \in 1 .. Len(jobs[e]) |-> [jobs[e][i] EXCEPT !.left = Down(jobs[e][i].left)]]
    BY <1>1, <2>1
  <2>3. jobs'[e] \in [1 .. Len(jobs[e]) -> Job]
    BY <1>5, <2>1, <2>2
  <2> QED  BY <2>1, <2>3, IsASeq
<1>8. JobsInTime(e)'
  <2> SUFFICES ASSUME NEW i \in DOMAIN jobs[e]  PROVE Spans(row'[e], jobs'[e][i])
    BY <1>6 DEF JobsInTime
  <2> DEFINE x == TimeLeft(jobs[e][i])
             y == TimeLeft(jobs'[e][i])
  <2>1. x \in Nat /\ y = x - 1 /\ RetrySpan \in Nat
    BY <1>5, AttemptsType
  <2>2. row[e] \in LogRow /\ x <= RetrySpan /\ (row[e].stamped \/ row[e].age + x <= RetrySpan)
    BY <1>1 DEF EventInv, JobsInTime, Spans
  <2>3. row[e].age \in Nat /\ row'[e].age \in Nat
    BY <1>3, <2>2 DEF LogRow
  <2> HIDE DEF x, y
  <2>4. y <= RetrySpan /\ (row'[e].stamped \/ row'[e].age + y <= RetrySpan)
    BY <1>3, <2>1, <2>2, <2>3
  <2> QED  BY <1>3, <2>2, <2>4 DEF Spans, y
<1> QED  BY <1>2, <1>4, <1>7, <1>8 DEF EventInv

LEMMA NextRace ==
  ASSUME WebhooksAssumption, {"behind", "workerDies"} \cap Faults = {}, RaceInv, [Next]_vars
  PROVE  RaceInv'
<1>1. OrderInv /\ OrderInv'
  BY NextOrder DEF RaceInv
<1>2. CASE UNCHANGED vars \/ Endpoint
  BY <1>2, ProducerRace, <1>1 DEF vars, Endpoint, producer, tables, queue, reaper, RaceInv
<1>3. CASE \E e \in Events : Emit(e) \/ InsertFails(e) \/ AddFails(e)
  <2>1. PICK e \in Events : Emit(e) \/ InsertFails(e) \/ AddFails(e)
    BY <1>3
  <2>2. UNCHANGED <<row, jobs, reaped>> /\ \A x \in Events : emit'[x] = "add" => emit[x] = "add"
    BY <1>1, <2>1, FailsEmit DEF Emit, InsertFails, AddFails, tables, queue, reaper, OrderInv, Typed
  <2>3. \A x \in Events : parked'[x] = parked[x] \/ emit[x] = "add"
    BY <1>1, <2>1 DEF Emit, InsertFails, AddFails, OrderInv, Typed
  <2> QED  BY <1>1, <2>2, <2>3, ProducerRace DEF RaceInv
<1>4. CASE Drain
  <2>1. UNCHANGED <<row, jobs, reaped, parked>> /\ \A x \in Events : emit'[x] = "add" => emit[x] = "add"
    BY <1>1, <1>4 DEF Drain, tables, queue, reaper, OrderInv, Typed
  <2> QED  BY <1>1, <2>1, ProducerRace DEF RaceInv
<1>5. CASE \E S : Crash(S)
  <2>1. UNCHANGED <<row, jobs, reaped, parked>> /\ \A x \in Events : emit'[x] = "add" => emit[x] = "add"
    BY <1>5 DEF Crash, tables, queue, reaper
  <2> QED  BY <1>1, <2>1, ProducerRace DEF RaceInv
<1>6. ASSUME NEW e \in Events, Produce(e) \/ Redeliver(e)  PROVE RaceInv'
  BY <1>1, <1>6, InsertRowRace, AddRace DEF Produce, RaceInv
<1>7. ASSUME NEW e \in Events, Claim(e)  PROVE RaceInv'
  BY <1>1, <1>7, ClaimRace DEF RaceInv
<1>8. ASSUME NEW e \in Events, Deliver(e) \/ \E i \in DOMAIN jobs[e] : RecordFails(e, i) \/ WorkerDies(e, i)
      PROVE  RaceInv'
  <2>1. PICK i \in DOMAIN jobs[e] : Take(e, i) \/ Answered(e, i) \/ RecordFails(e, i)
    BY <1>8 DEF Deliver, WorkerDies, Fault
  <2> QED  BY <1>1, <2>1, WorkerRace DEF RaceInv
<1>9. CASE Tick
  BY <1>1, <1>9, TickRace DEF RaceInv
<1> QED  BY <1>2, <1>3, <1>4, <1>5, <1>6, <1>7, <1>8, <1>9 DEF Next

\* The reaper claims no row by age whose event the queue is still trying, as long as
\* what is due is done and no worker dies over it, and however many attempts go
\* unrecorded, commands land late, or enqueues, adds of the reaper and processes fail
\* ("the reaper can never race a live job", redeliverAbandonedWebhooks).
THEOREM ReaperNeverRaces ==
  ASSUME WebhooksAssumption, {"behind", "workerDies"} \cap Faults = {}
  PROVE  Spec => NeverRacesQueue
<1>1. ASSUME RaceInv, NEW e \in Events, Claim(e), row[e].told  PROVE jobs[e] = <<>>
  <2>1. row[e].age > RetrySpan /\ ~row[e].stamped
    BY <1>1 DEF Claim, Candidate, NeverTried, GivenUp
  <2>2. jobs[e] \in Seq(Job) /\ JobsInTime(e)
    BY <1>1 DEF RaceInv, EventInv
  <2>3. ASSUME NEW i \in DOMAIN jobs[e]  PROVE FALSE
    <3> DEFINE x == TimeLeft(jobs[e][i])
    <3>1. jobs[e][i] \in Job /\ row[e] \in LogRow /\ row[e].age + x <= RetrySpan
      BY <2>1, <2>2 DEF JobsInTime, Spans
    <3>2. x \in Nat /\ RetrySpan \in Nat /\ row[e].age \in Nat
      BY <3>1, TimeLeftType, AttemptsType DEF LogRow
    <3> HIDE DEF x
    <3> QED  BY <2>1, <3>1, <3>2
  <2>4. Len(jobs[e]) = 0
    <3>1. Len(jobs[e]) \in Nat /\ DOMAIN jobs[e] = 1 .. Len(jobs[e])
      BY <2>2
    <3>2. 1 \notin DOMAIN jobs[e]
      BY <2>3
    <3> QED  BY <3>1, <3>2
  <2> QED  BY <2>2, <2>4, EmptySeq
<1>2. RaceInv => \A e \in Events : Claim(e) /\ row[e].told => jobs[e] = <<>>
  BY <1>1
<1>3. RaceInv /\ [Next]_vars => [\A e \in Events : Claim(e) /\ row[e].told => jobs[e] = <<>>]_vars
  BY <1>2
<1> QED  BY <1>3, InitRace, NextRace, PTL DEF Spec, NeverRacesQueue
=============================================================================
