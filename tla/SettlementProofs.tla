-------------------------- MODULE SettlementProofs --------------------------
(* TLAPS proofs about Settlement, for any payments and amounts, any number   *)
(* of workers, and any faults but those that tear a direct settlement.       *)
EXTENDS Settlement, Sums, TLAPS

-----------------------------------------------------------------------------
(* Types, and the bound on what is ever counted.                             *)

Placed == \A w \in Workers : pc[w] = "idle" <=> on[w] = None

Bounded ==
  /\ \A x \in Payments : Arrived(x) <= MaxUnits /\ credited[x] <= MaxUnits
  /\ \A w \in Workers : mem[w].moved <= MaxUnits

TypeInv == TypeOK /\ Placed /\ Bounded

LEMMA InitType == Init => TypeInv
<1> SUFFICES ASSUME Init  PROVE TypeInv
  OBVIOUS
<1>1. NoRow \in Rows /\ NoJob \in Jobs /\ NoMem \in Mems
  BY DEF NoRow, Rows, NoJob, Jobs, NoMem, Mems, Legs
<1>2. TypeOK
  BY <1>1, SettlementAssumption DEF Init, TypeOK, PCs
<1>3. Placed /\ Bounded
  BY SettlementAssumption DEF Init, Placed, Bounded, Arrived, NoMem
<1> QED  BY <1>2, <1>3 DEF TypeInv

\* What Completed and Threw leave in the queue are jobs.
LEMMA JobsTyped ==
  ASSUME TypeOK, NEW w \in Workers, NEW x \in Payments
  PROVE  Completed(w, x) \in [Payments -> Jobs] /\ Threw(w, x) \in [Payments -> Jobs]
<1>1. job \in [Payments -> Jobs] /\ job[x] \in Jobs
  BY DEF TypeOK
<1>2. [[job[x] EXCEPT !.state = "done"] EXCEPT !.owner = None] \in Jobs
  BY <1>1 DEF Jobs
<1>3. Completed(w, x) \in [Payments -> Jobs]
  BY <1>1, <1>2 DEF Completed
<1>4. Threw(w, x) \in [Payments -> Jobs]
  <2>1. job[x].tries + 1 \in Nat /\ job[x].stalls \in Nat
    BY <1>1 DEF Jobs
  <2>2. [state |-> IF job[x].tries + 1 < MaxAttempts THEN "wait" ELSE "dead",
         owner |-> None, tries |-> job[x].tries + 1, stalls |-> job[x].stalls] \in Jobs
    BY <2>1 DEF Jobs
  <2> QED  BY <1>1, <2>2 DEF Threw
<1> QED  BY <1>3, <1>4

\* A worker that leaves is idle, and keeps nothing.
LEMMA LeaveTyped ==
  ASSUME TypeInv, NEW w \in Workers, Leave(w)
  PROVE  /\ pc' \in [Workers -> PCs] /\ on' \in [Workers -> Payments \cup {None}]
         /\ mem' \in [Workers -> Mems] /\ Placed'
         /\ \A v \in Workers : mem'[v].moved <= MaxUnits
<1>1. NoMem \in Mems /\ NoMem.moved = 0
  BY DEF NoMem, Mems, Legs
<1>2. mem' = [mem EXCEPT ![w] = NoMem] /\ mem \in [Workers -> Mems]
  BY DEF Leave, TypeInv, TypeOK
<1>3. mem' \in [Workers -> Mems] /\ \A v \in Workers : mem'[v] = IF v = w THEN NoMem ELSE mem[v]
  BY <1>1, <1>2
<1>4. \A v \in Workers : mem'[v].moved <= MaxUnits
  <2>1. 0 <= MaxUnits /\ \A v \in Workers : mem[v].moved <= MaxUnits
    BY SettlementAssumption DEF TypeInv, Bounded
  <2> QED  BY <1>1, <1>3, <2>1
<1>5. /\ pc' \in [Workers -> PCs] /\ on' \in [Workers -> Payments \cup {None}]
      /\ Placed'
  BY SettlementAssumption DEF Leave, TypeInv, TypeOK, Placed, PCs
<1> QED  BY <1>3, <1>4, <1>5

\* The numbers of a worker and of the payment it is at.
LEMMA AtPayment ==
  ASSUME TypeInv, NEW w \in Workers, pc[w] # "idle"
  PROVE  /\ on[w] \in Payments /\ mem[w] \in Mems /\ mem[w].moved \in 0..MaxUnits
         /\ mem[w].net \in Nat /\ mem[w].fee \in Nat /\ mem[w].gross \in Nat
         /\ mem[w].credited \in Nat /\ mem[w].todo \subseteq Legs
         /\ deposit[on[w]] \in 0..MaxUnits /\ middle[on[w]] \in 0..MaxUnits
         /\ central[on[w]] \in 0..MaxUnits /\ merchant[on[w]] \in 0..MaxUnits
         /\ credited[on[w]] \in 0..MaxUnits
<1>1. on[w] \in Payments
  BY DEF TypeInv, TypeOK, Placed
<1>2. mem[w] \in Mems
  BY DEF TypeInv, TypeOK
<1>3. /\ mem[w].net \in Nat /\ mem[w].fee \in Nat /\ mem[w].gross \in Nat
      /\ mem[w].credited \in Nat /\ mem[w].moved \in Nat /\ mem[w].todo \subseteq Legs
  BY <1>2 DEF Mems
<1>4. mem[w].moved <= MaxUnits
  BY DEF TypeInv, Bounded
<1>5. /\ deposit[on[w]] \in Nat /\ middle[on[w]] \in Nat /\ central[on[w]] \in Nat
      /\ merchant[on[w]] \in Nat /\ credited[on[w]] \in Nat
  BY <1>1 DEF TypeInv, TypeOK
<1>6. /\ deposit[on[w]] + middle[on[w]] + central[on[w]] + merchant[on[w]] <= MaxUnits
      /\ credited[on[w]] <= MaxUnits
  BY <1>1 DEF TypeInv, Bounded, Arrived
<1>7. MaxUnits \in Nat
  BY SettlementAssumption
<1> QED  BY <1>1, <1>2, <1>3, <1>4, <1>5, <1>6, <1>7

LEMMA RowTyped ==
  ASSUME TypeInv, NEW x \in Payments, NEW a \in 0..MaxUnits, Fee[a] < a, AutoRow(x, a)
  PROVE  row' \in [Payments -> Rows]
<1>1. a \in Nat /\ Fee[a] \in Nat /\ a - Fee[a] \in Nat
  BY SettlementAssumption
<1>2. [type |-> "auto", gross |-> a, net |-> a - Fee[a]] \in Rows
  BY <1>1 DEF Rows
<1> QED  BY <1>2 DEF AutoRow, TypeInv, TypeOK

\* A step of worker w that stays at its payment keeps the types when what it
\* writes has its type.
LEMMA StayTyped ==
  ASSUME TypeInv, NEW w \in Workers, pc[w] # "idle", NEW l \in PCs \ {"idle"},
         Goto(w, l), on' = on, mem' \in [Workers -> Mems],
         \A v \in Workers : mem'[v].moved <= MaxUnits
  PROVE  /\ pc' \in [Workers -> PCs] /\ on' \in [Workers -> Payments \cup {None}]
         /\ Placed' /\ \A v \in Workers : mem'[v].moved <= MaxUnits
BY DEF Goto, TypeInv, TypeOK, Placed

LEMMA FaultTyped ==
  ASSUME TypeInv, NEW k, Fault(k)  PROVE faults' \in Nat /\ k \in Faults
BY DEF Fault, TypeInv, TypeOK

-----------------------------------------------------------------------------
(* Types of each step.                                                       *)

\* What neither moves money nor writes a row.
LEMMA WorkTyped ==
  ASSUME TypeInv, UNCHANGED <<mode, bookVars, moneyVars>>,
         job' \in [Payments -> Jobs], pc' \in [Workers -> PCs],
         on' \in [Workers -> Payments \cup {None}], mem' \in [Workers -> Mems],
         faults' \in Nat, Placed', \A v \in Workers : mem'[v].moved <= MaxUnits
  PROVE  TypeInv'
BY DEF TypeInv, TypeOK, Bounded, Arrived, bookVars, moneyVars

LEMMA EnqueueSweepTyped ==
  ASSUME TypeInv, NEW x \in Payments, EnqueueSweep(x)  PROVE TypeInv'
<1>1. [NoJob EXCEPT !.state = "wait"] \in Jobs
  BY DEF NoJob, Jobs
<1>2. job' \in [Payments -> Jobs]
  BY <1>1 DEF EnqueueSweep, TypeInv, TypeOK
<1> QED  BY <1>2, WorkTyped DEF EnqueueSweep, TypeInv, TypeOK, Placed, Bounded

LEMMA ArriveLateTyped ==
  ASSUME TypeInv, NEW x \in Payments, ArriveLate(x)  PROVE TypeInv'
<1>1. PICK a \in LateAmounts : /\ Arrived(x) + a <= MaxUnits
                               /\ deposit' = [deposit EXCEPT ![x] = @ + a]
  BY DEF ArriveLate
<1>2. a \in Nat
  BY SettlementAssumption
<1>3. UNCHANGED <<mode, bookVars, middle, central, merchant, workVars, faults>>
  BY DEF ArriveLate
<1> QED
  BY <1>1, <1>2, <1>3 DEF TypeInv, TypeOK, Placed, Bounded, Arrived, bookVars, workVars

LEMMA RedrivePayoutTyped ==
  ASSUME TypeInv, NEW x \in Payments, RedrivePayout(x)  PROVE TypeInv'
<1>1. credited[x] \in 0..MaxUnits /\ Fee[credited[x]] < credited[x] /\ AutoRow(x, credited[x])
  BY SettlementAssumption DEF TypeInv, TypeOK, Bounded, RedrivePayout, Requestable
<1>2. row' \in [Payments -> Rows]
  BY <1>1, RowTyped
<1> QED
  BY <1>2 DEF RedrivePayout, TypeInv, TypeOK, Placed, Bounded, Arrived, moneyVars, workVars

LEMMA RedeliverTyped ==
  ASSUME TypeInv, NEW x \in Payments, Redeliver(x)  PROVE TypeInv'
<1>1. job[x] \in Jobs /\ job[x].tries \in Nat /\ job[x].stalls \in Nat /\ job[x].stalls + 1 \in Nat
  BY DEF TypeInv, TypeOK, Jobs
<1>2. /\ [state |-> "wait", owner |-> None, tries |-> job[x].tries,
          stalls |-> job[x].stalls + 1] \in Jobs
      /\ [state |-> "dead", owner |-> None, tries |-> job[x].tries,
          stalls |-> job[x].stalls] \in Jobs
  BY <1>1 DEF Jobs
<1>3. job' \in [Payments -> Jobs]
  <2>1. job' = [job EXCEPT ![x] =
          IF job[x].stalls < MaxStalls
            THEN [state |-> "wait", owner |-> None, tries |-> job[x].tries,
                  stalls |-> job[x].stalls + 1]
            ELSE [state |-> "dead", owner |-> None, tries |-> job[x].tries,
                  stalls |-> job[x].stalls]]
    BY DEF Redeliver
  <2> QED  BY <1>2, <2>1 DEF TypeInv, TypeOK
<1>4. faults' \in Nat
  BY FaultTyped DEF Redeliver, TypeInv, TypeOK
<1> QED  BY <1>3, <1>4, WorkTyped DEF Redeliver, TypeInv, TypeOK, Placed, Bounded

LEMMA ManualPayoutTyped ==
  ASSUME TypeInv, ManualPayout  PROVE TypeInv'
<1>1. manual' \in Nat
  BY SettlementAssumption DEF ManualPayout, TypeInv, TypeOK
<1> QED
  BY <1>1 DEF ManualPayout, TypeInv, TypeOK, Placed, Bounded, Arrived, moneyVars, workVars

LEMMA StartSweepTyped ==
  ASSUME TypeInv, NEW w \in Workers, NEW x \in Payments, StartSweep(w, x)  PROVE TypeInv'
<1>1. job[x] \in Jobs /\ job \in [Payments -> Jobs]
  BY DEF TypeInv, TypeOK
<1>2. /\ [job[x] EXCEPT !.state = "done"] \in Jobs
      /\ [[job[x] EXCEPT !.state = "active"] EXCEPT !.owner = w] \in Jobs
  BY <1>1 DEF Jobs
<1>3. job' \in [Payments -> Jobs]
  BY <1>1, <1>2 DEF StartSweep
<1>4. [mem[w] EXCEPT !.credited = credited[x]] \in Mems
  BY DEF TypeInv, TypeOK, Mems
<1>5. mem' \in [Workers -> Mems] /\ \A v \in Workers : mem'[v].moved <= MaxUnits
  <2>1. mem \in [Workers -> Mems] /\ \A v \in Workers : mem[v].moved <= MaxUnits
    BY DEF TypeInv, TypeOK, Bounded
  <2>2. [mem[w] EXCEPT !.credited = credited[x]].moved = mem[w].moved
    BY <2>1 DEF Mems
  <2>3. mem' = mem \/ mem' = [mem EXCEPT ![w] = [mem[w] EXCEPT !.credited = credited[x]]]
    BY DEF StartSweep
  <2> QED  BY <1>4, <2>1, <2>2, <2>3
<1>6. /\ pc' \in [Workers -> PCs] /\ on' \in [Workers -> Payments \cup {None}] /\ Placed'
  <2>1. CASE UNCHANGED <<pc, on, mem>>
    BY <2>1 DEF TypeInv, TypeOK, Placed
  <2>2. CASE /\ pc' = [pc EXCEPT ![w] = IF mode = "twoHop" THEN "sweep" ELSE "split"]
             /\ on' = [on EXCEPT ![w] = x]
    <3>1. x # None /\ {"sweep", "split"} \subseteq PCs \ {"idle"}
      BY SettlementAssumption DEF PCs
    <3> QED  BY <2>2, <3>1 DEF TypeInv, TypeOK, Placed
  <2> QED  BY <2>1, <2>2 DEF StartSweep, Goto
<1>7. UNCHANGED <<mode, bookVars, moneyVars, faults>>
  BY DEF StartSweep
<1> QED  BY <1>3, <1>5, <1>6, <1>7, WorkTyped DEF TypeInv, TypeOK

\* A worker that keeps its place in memory but for one number.
LEMMA SplitTyped ==
  ASSUME TypeInv, NEW w \in Workers, Split(w)  PROVE TypeInv'
<1> DEFINE g == deposit[on[w]]
<1>1. pc[w] # "idle" /\ mem[w] \in Mems /\ g \in 0..MaxUnits /\ Fee[g] \in Nat
  <2>1. pc[w] # "idle"
    BY DEF Split
  <2> QED  BY <2>1, AtPayment, SettlementAssumption
<1>2. mem' \in [Workers -> Mems] /\ \A v \in Workers : mem'[v].moved <= MaxUnits
  <2>1. CASE UNCHANGED mem
    BY <2>1 DEF TypeInv, TypeOK, Bounded
  <2>2. CASE Fee[g] < g /\ mem' = [mem EXCEPT ![w].gross = g, ![w].net = g - Fee[g], ![w].fee = Fee[g]]
    <3> DEFINE m == [[[mem[w] EXCEPT !.gross = g] EXCEPT !.net = g - Fee[g]] EXCEPT !.fee = Fee[g]]
    <3>0. g \in Nat /\ g - Fee[g] \in Nat
      BY <1>1, <2>2, SettlementAssumption
    <3>1. m \in Mems /\ m.moved = mem[w].moved
      BY <1>1, <3>0 DEF Mems
    <3>2. mem' = [mem EXCEPT ![w] = m] /\ mem \in [Workers -> Mems]
      BY <2>2 DEF TypeInv, TypeOK
    <3> QED  BY <3>1, <3>2 DEF TypeInv, Bounded
  <2> QED  BY <2>1, <2>2 DEF Split
<1>3. /\ UNCHANGED <<mode, bookVars, moneyVars, job, on, faults>>
      /\ Goto(w, "plan") \/ Goto(w, "sweep")
  BY DEF Split
<1>4. {"plan", "sweep"} \subseteq PCs \ {"idle"}
  BY DEF PCs
<1>5. /\ pc' \in [Workers -> PCs] /\ on' \in [Workers -> Payments \cup {None}] /\ Placed'
  BY <1>1, <1>2, <1>3, <1>4, StayTyped
<1> QED  BY <1>2, <1>3, <1>5, WorkTyped DEF TypeInv, TypeOK

\* A step that declines, defers or only decides where to go.
LEMMA GoTyped ==
  ASSUME TypeInv, NEW w \in Workers, pc[w] # "idle", NEW l \in PCs \ {"idle"}, Goto(w, l),
         UNCHANGED <<mode, bookVars, moneyVars, job, on>>,
         mem' = mem \/ (\E a \in 0..MaxUnits : mem' = [mem EXCEPT ![w].moved = a])
                    \/ (\E s \in SUBSET Legs : mem' = [mem EXCEPT ![w].todo = s]),
         faults' = faults \/ \E k \in FaultKinds : Fault(k)
  PROVE  TypeInv'
<1>1. mem[w] \in Mems /\ mem \in [Workers -> Mems] /\ MaxUnits \in Nat
  BY SettlementAssumption DEF TypeInv, TypeOK
<1>2. mem' \in [Workers -> Mems] /\ \A v \in Workers : mem'[v].moved <= MaxUnits
  <2>1. CASE UNCHANGED mem
    BY <2>1 DEF TypeInv, TypeOK, Bounded
  <2>2. ASSUME NEW a \in 0..MaxUnits, mem' = [mem EXCEPT ![w].moved = a]
        PROVE  mem' \in [Workers -> Mems] /\ \A v \in Workers : mem'[v].moved <= MaxUnits
    <3>1. [mem[w] EXCEPT !.moved = a] \in Mems /\ [mem[w] EXCEPT !.moved = a].moved = a
      BY <1>1 DEF Mems
    <3>2. mem' = [mem EXCEPT ![w] = [mem[w] EXCEPT !.moved = a]] /\ a <= MaxUnits
      BY <1>1, <2>2
    <3> QED  BY <1>1, <3>1, <3>2 DEF TypeInv, Bounded
  <2>3. ASSUME NEW s \in SUBSET Legs, mem' = [mem EXCEPT ![w].todo = s]
        PROVE  mem' \in [Workers -> Mems] /\ \A v \in Workers : mem'[v].moved <= MaxUnits
    <3>1. /\ [mem[w] EXCEPT !.todo = s] \in Mems
          /\ [mem[w] EXCEPT !.todo = s].moved = mem[w].moved
      BY <1>1 DEF Mems
    <3>2. mem' = [mem EXCEPT ![w] = [mem[w] EXCEPT !.todo = s]]
      BY <1>1, <2>3
    <3> QED  BY <1>1, <3>1, <3>2 DEF TypeInv, Bounded
  <2> QED  BY <2>1, <2>2, <2>3
<1>3. faults' \in Nat
  BY FaultTyped DEF TypeInv, TypeOK
<1>4. /\ pc' \in [Workers -> PCs] /\ on' \in [Workers -> Payments \cup {None}] /\ Placed'
  BY <1>2, StayTyped
<1> QED  BY <1>2, <1>3, <1>4, WorkTyped DEF TypeInv, TypeOK

LEMMA PlanTyped ==
  ASSUME TypeInv, NEW w \in Workers,
         Decline(w) \/ Plan(w) \/ CheckBalance(w) \/ DeferGas(w) \/ ReadBalance(w)
  PROVE  TypeInv'
<1>1. pc[w] # "idle"
  BY DEF Decline, Plan, CheckBalance, DeferGas, ReadBalance
<1>2. /\ {"sweep", "book", "check", "transfer", "move", "adopt"} \subseteq PCs \ {"idle"}
      /\ {"torn", "decline", "defer"} \subseteq FaultKinds
  BY DEF PCs, FaultKinds
<1>3. CASE Decline(w)
  BY <1>1, <1>2, <1>3, GoTyped DEF Decline
<1>4. CASE Plan(w)
  <2> DEFINE s == (({"net"} \cup (IF mem[w].fee > 0 THEN {"fee"} ELSE {})
                      \cup (IF mode = "intermediate" THEN {"hop"} ELSE {})) \ ledger[on[w]])
  <2>1. s \in SUBSET Legs
    BY DEF Legs
  <2>2. /\ mem' = [mem EXCEPT ![w].todo = s]
        /\ Goto(w, "book") \/ Goto(w, "check")
        /\ UNCHANGED <<mode, bookVars, moneyVars, job, on, faults>>
    BY <1>4 DEF Plan
  <2> HIDE DEF s
  <2> QED  BY <1>1, <1>2, <2>1, <2>2, GoTyped
<1>5. CASE CheckBalance(w)
  <2>1. Source(w) \in 0..MaxUnits
    BY <1>1, AtPayment DEF Source
  <2>2. /\ mem' = mem \/ mem' = [mem EXCEPT ![w].moved = Source(w)]
        /\ Goto(w, "transfer") \/ Goto(w, "sweep")
        /\ UNCHANGED <<mode, bookVars, moneyVars, job, on, faults>>
    BY <1>5 DEF CheckBalance
  <2> QED  BY <1>1, <1>2, <2>1, <2>2, GoTyped
<1>6. CASE DeferGas(w)
  BY <1>1, <1>2, <1>6, GoTyped DEF DeferGas
<1>7. CASE ReadBalance(w)
  <2>1. deposit[on[w]] \in 0..MaxUnits
    BY <1>1, AtPayment
  <2>2. /\ mem' = mem \/ mem' = [mem EXCEPT ![w].moved = deposit[on[w]]]
        /\ Goto(w, "move") \/ Goto(w, "adopt")
        /\ UNCHANGED <<mode, bookVars, moneyVars, job, on>>
        /\ faults' = faults \/ Fault("defer")
    BY <1>7 DEF ReadBalance
  <2> QED  BY <1>1, <1>2, <2>1, <2>2, GoTyped
<1> QED  BY <1>3, <1>4, <1>5, <1>6, <1>7

\* Money that moves is still the money that arrived.
LEMMA MoneyTyped ==
  ASSUME TypeInv, NEW w \in Workers, pc[w] # "idle", NEW l \in PCs \ {"idle"}, Goto(w, l),
         UNCHANGED <<mode, bookVars, job, on, mem, faults>>,
         deposit' \in [Payments -> Nat], middle' \in [Payments -> Nat],
         central' \in [Payments -> Nat], merchant' \in [Payments -> Nat],
         \A x \in Payments : Arrived(x)' = Arrived(x)
  PROVE  TypeInv'
<1>1. mem' \in [Workers -> Mems] /\ \A v \in Workers : mem'[v].moved <= MaxUnits
  BY DEF TypeInv, TypeOK, Bounded
<1>2. /\ pc' \in [Workers -> PCs] /\ on' \in [Workers -> Payments \cup {None}] /\ Placed'
  BY <1>1, StayTyped
<1> QED  BY <1>1, <1>2 DEF TypeInv, TypeOK, Bounded, bookVars

LEMMA AmountTyped ==
  ASSUME TypeInv, NEW w \in Workers, pc[w] # "idle"
  PROVE  NextLeg(w) \in Legs /\ Amount(w, NextLeg(w)) \in Nat
<1>1. mem[w].moved \in Nat /\ mem[w].net \in Nat /\ mem[w].fee \in Nat
  BY AtPayment
<1>2. NextLeg(w) \in {"hop", "net", "fee"}
  BY DEF NextLeg
<1> QED  BY <1>1, <1>2 DEF Legs, Amount

\* A transfer takes from one balance what it adds to another.
LEMMA TransferMoves ==
  ASSUME TypeInv, NEW w \in Workers, TransferLeg(w)
  PROVE  /\ deposit' \in [Payments -> Nat] /\ middle' \in [Payments -> Nat]
         /\ central' \in [Payments -> Nat] /\ merchant' \in [Payments -> Nat]
         /\ \A y \in Payments : Arrived(y)' = Arrived(y) /\ central[y] <= central'[y]
<1> DEFINE x == on[w]
           l == NextLeg(w)
           a == Amount(w, l)
<1>1. x \in Payments /\ a \in Nat
  <2>1. pc[w] # "idle"
    BY DEF TransferLeg
  <2> QED  BY <2>1, AtPayment, AmountTyped
<1>2. /\ Source(w) >= a
      /\ IF mode = "intermediate" /\ l # "hop"
           THEN middle' = [middle EXCEPT ![x] = @ - a] /\ UNCHANGED deposit
           ELSE /\ deposit' = [deposit EXCEPT ![x] = @ - a]
                /\ middle' = IF l = "hop" THEN [middle EXCEPT ![x] = @ + a] ELSE middle
      /\ merchant' = IF l = "net" THEN [merchant EXCEPT ![x] = @ + a] ELSE merchant
      /\ central' = IF l = "fee" THEN [central EXCEPT ![x] = @ + a] ELSE central
  BY DEF TransferLeg
<1>3. /\ deposit \in [Payments -> Nat] /\ middle \in [Payments -> Nat]
      /\ merchant \in [Payments -> Nat] /\ central \in [Payments -> Nat]
  BY DEF TypeInv, TypeOK
<1>4. Source(w) = (IF mode = "intermediate" /\ l # "hop" THEN middle[x] ELSE deposit[x])
        /\ l \in {"hop", "net", "fee"}
  BY DEF Source, NextLeg
<1> HIDE DEF x, l, a
<1>5. /\ deposit' \in [Payments -> Nat] /\ middle' \in [Payments -> Nat]
      /\ central' \in [Payments -> Nat] /\ merchant' \in [Payments -> Nat]
  BY <1>1, <1>2, <1>3, <1>4
<1>6. \A y \in Payments : Arrived(y)' = Arrived(y)
  BY <1>1, <1>2, <1>3, <1>4 DEF Arrived
<1>7. \A y \in Payments : central[y] <= central'[y]
  BY <1>1, <1>2, <1>3
<1> QED  BY <1>5, <1>6, <1>7

LEMMA BalanceMoves ==
  ASSUME TypeInv, NEW w \in Workers, MoveBalance(w)
  PROVE  /\ deposit' \in [Payments -> Nat] /\ middle' \in [Payments -> Nat]
         /\ central' \in [Payments -> Nat] /\ merchant' \in [Payments -> Nat]
         /\ \A y \in Payments : Arrived(y)' = Arrived(y) /\ central[y] <= central'[y]
<1>1. on[w] \in Payments /\ mem[w].moved \in Nat
  <2>1. pc[w] # "idle"
    BY DEF MoveBalance
  <2> QED  BY <2>1, AtPayment
<1>2. /\ deposit[on[w]] >= mem[w].moved
      /\ deposit' = [deposit EXCEPT ![on[w]] = @ - mem[w].moved]
      /\ central' = [central EXCEPT ![on[w]] = @ + mem[w].moved]
      /\ UNCHANGED <<middle, merchant>>
  BY DEF MoveBalance
<1>3. /\ deposit \in [Payments -> Nat] /\ middle \in [Payments -> Nat]
      /\ merchant \in [Payments -> Nat] /\ central \in [Payments -> Nat]
  BY DEF TypeInv, TypeOK
<1>4. /\ deposit' \in [Payments -> Nat] /\ middle' \in [Payments -> Nat]
      /\ central' \in [Payments -> Nat] /\ merchant' \in [Payments -> Nat]
  BY <1>1, <1>2, <1>3
<1>5. \A y \in Payments : Arrived(y)' = Arrived(y)
  BY <1>1, <1>2, <1>3 DEF Arrived
<1>6. \A y \in Payments : central[y] <= central'[y]
  BY <1>1, <1>2, <1>3
<1> QED  BY <1>4, <1>5, <1>6

LEMMA MovingTyped ==
  ASSUME TypeInv, NEW w \in Workers, TransferLeg(w) \/ MoveBalance(w)  PROVE TypeInv'
<1>1. /\ pc[w] # "idle" /\ (Goto(w, "record") \/ Goto(w, "receipt"))
      /\ UNCHANGED <<mode, bookVars, job, on, mem, faults>>
  BY DEF TransferLeg, MoveBalance
<1>2. {"record", "receipt"} \subseteq PCs \ {"idle"}
  BY DEF PCs
<1> QED  BY <1>1, <1>2, TransferMoves, BalanceMoves, MoneyTyped

\* What writes rows and moves no money.
LEMMA BookTyped ==
  ASSUME TypeInv, UNCHANGED <<mode, manual, moneyVars>>,
         state' \in [Payments -> {"confirmed", "swept"}],
         credited' \in [Payments -> Nat], \A x \in Payments : credited'[x] <= MaxUnits,
         settled' \subseteq Payments, row' \in [Payments -> Rows],
         ledger' \in [Payments -> SUBSET (Legs \cup {"sweep"})], job' \in [Payments -> Jobs],
         pc' \in [Workers -> PCs], on' \in [Workers -> Payments \cup {None}],
         mem' \in [Workers -> Mems], faults' \in Nat, Placed',
         \A v \in Workers : mem'[v].moved <= MaxUnits
  PROVE  TypeInv'
BY DEF TypeInv, TypeOK, Bounded, Arrived, moneyVars

LEMMA RecordTyped ==
  ASSUME TypeInv, NEW w \in Workers,
         RecordLeg(w) \/ BookDirect(w) \/ RecordSweep(w) \/ CreditExcess(w) \/ CloseSweep(w)
  PROVE  TypeInv'
<1>1. pc[w] # "idle"
  BY DEF RecordLeg, BookDirect, RecordSweep, CreditExcess, CloseSweep
<1>2. /\ on[w] \in Payments /\ mem[w] \in Mems /\ mem[w].gross \in Nat /\ mem[w].net \in Nat
      /\ mem[w].moved \in 0..MaxUnits /\ mem[w].todo \subseteq Legs /\ NextLeg(w) \in Legs
  BY <1>1, AtPayment, AmountTyped
<1>3. {"book", "check", "transfer", "mark", "credit", "close", "pay"} \subseteq PCs \ {"idle"}
  BY DEF PCs
<1>4. /\ TypeOK /\ mem \in [Workers -> Mems] /\ \A v \in Workers : mem[v].moved <= MaxUnits
      /\ \A y \in Payments : credited[y] <= MaxUnits
  BY DEF TypeInv, TypeOK, Bounded
<1>5. ASSUME UNCHANGED mem
      PROVE  mem' \in [Workers -> Mems] /\ \A v \in Workers : mem'[v].moved <= MaxUnits
  BY <1>4, <1>5
<1>6. CASE RecordLeg(w)
  <2> DEFINE rest == mem[w].todo \ {NextLeg(w)}
  <2>1. [mem[w] EXCEPT !.todo = rest] \in Mems /\ [mem[w] EXCEPT !.todo = rest].moved = mem[w].moved
    BY <1>2 DEF Mems
  <2>2. mem' = [mem EXCEPT ![w] = [mem[w] EXCEPT !.todo = rest]]
    BY <1>4, <1>6 DEF RecordLeg
  <2>3. mem' \in [Workers -> Mems] /\ \A v \in Workers : mem'[v].moved <= MaxUnits
    BY <1>4, <2>1, <2>2
  <2>4. \E l \in PCs \ {"idle"} : Goto(w, l)
    BY <1>3, <1>6 DEF RecordLeg
  <2>5. UNCHANGED <<mode, state, credited, settled, row, manual, moneyVars, job, on, faults>>
    BY <1>6 DEF RecordLeg
  <2>6. ledger' \in [Payments -> SUBSET (Legs \cup {"sweep"})]
    BY <1>2, <1>4, <1>6 DEF RecordLeg, TypeOK
  <2>7. /\ pc' \in [Workers -> PCs] /\ on' \in [Workers -> Payments \cup {None}] /\ Placed'
    BY <1>1, <2>3, <2>4, <2>5, StayTyped
  <2> QED  BY <1>4, <2>3, <2>5, <2>6, <2>7, BookTyped DEF TypeOK
<1>7. CASE BookDirect(w)
  <2>1. [type |-> "direct", gross |-> mem[w].gross, net |-> mem[w].net] \in Rows
    BY <1>2 DEF Rows
  <2>2. row' \in [Payments -> Rows]
    BY <1>4, <1>7, <2>1 DEF BookDirect, TypeOK
  <2>3. UNCHANGED <<mode, state, credited, settled, manual, ledger, moneyVars, job, on, mem, faults>>
    BY <1>7 DEF BookDirect
  <2>4. Goto(w, "mark")
    BY <1>7 DEF BookDirect
  <2>5. /\ pc' \in [Workers -> PCs] /\ on' \in [Workers -> Payments \cup {None}] /\ Placed'
    BY <1>1, <1>3, <1>5, <2>3, <2>4, StayTyped
  <2> QED  BY <1>4, <1>5, <2>2, <2>3, <2>5, BookTyped DEF TypeOK
<1>8. CASE RecordSweep(w)
  <2>1. ledger' \in [Payments -> SUBSET (Legs \cup {"sweep"})]
    BY <1>2, <1>4, <1>8 DEF RecordSweep, TypeOK
  <2>2. UNCHANGED <<mode, state, credited, settled, row, manual, moneyVars, job, on, mem, faults>>
    BY <1>8 DEF RecordSweep
  <2>3. Goto(w, "credit")
    BY <1>8 DEF RecordSweep
  <2>4. /\ pc' \in [Workers -> PCs] /\ on' \in [Workers -> Payments \cup {None}] /\ Placed'
    BY <1>1, <1>3, <1>5, <2>2, <2>3, StayTyped
  <2> QED  BY <1>4, <1>5, <2>1, <2>2, <2>4, BookTyped DEF TypeOK
<1>9. CASE CreditExcess(w)
  <2>1. /\ credited' = credited \/ credited' = [credited EXCEPT ![on[w]] = mem[w].moved]
        /\ faults' = faults \/ Fault("credit")
        /\ UNCHANGED <<mode, state, settled, row, manual, ledger, moneyVars, job, on, mem>>
        /\ Goto(w, "close")
    BY <1>9 DEF CreditExcess
  <2>2. credited' \in [Payments -> Nat] /\ \A y \in Payments : credited'[y] <= MaxUnits
    <3>1. mem[w].moved \in Nat /\ mem[w].moved <= MaxUnits
      BY <1>2, SettlementAssumption
    <3>2. credited \in [Payments -> Nat]
      BY <1>4 DEF TypeOK
    <3> QED  BY <1>2, <1>4, <2>1, <3>1, <3>2
  <2>3. faults' \in Nat
    BY <1>4, <2>1, FaultTyped DEF TypeOK
  <2>4. /\ pc' \in [Workers -> PCs] /\ on' \in [Workers -> Payments \cup {None}] /\ Placed'
    BY <1>1, <1>3, <1>5, <2>1, StayTyped
  <2> QED  BY <1>4, <1>5, <2>1, <2>2, <2>3, <2>4, BookTyped DEF TypeOK
<1>10. CASE CloseSweep(w)
  <2>1. state' \in [Payments -> {"confirmed", "swept"}]
    BY <1>2, <1>4, <1>10 DEF CloseSweep, TypeOK
  <2>2. UNCHANGED <<mode, credited, settled, row, manual, ledger, moneyVars, job, on, mem, faults>>
    BY <1>10 DEF CloseSweep
  <2>3. Goto(w, "pay")
    BY <1>10 DEF CloseSweep
  <2>4. /\ pc' \in [Workers -> PCs] /\ on' \in [Workers -> Payments \cup {None}] /\ Placed'
    BY <1>1, <1>3, <1>5, <2>2, <2>3, StayTyped
  <2> QED  BY <1>4, <1>5, <2>1, <2>2, <2>4, BookTyped DEF TypeOK
<1> QED  BY <1>6, <1>7, <1>8, <1>9, <1>10

LEMMA LeavingTyped ==
  ASSUME TypeInv, NEW w \in Workers,
         MarkSettled(w) \/ AutoPayout(w) \/ AdoptSweep(w) \/ TransferReverts(w) \/ Abort(w)
  PROVE  TypeInv'
<1>1. pc[w] # "idle" /\ Leave(w)
  BY DEF MarkSettled, AutoPayout, AdoptSweep, TransferReverts, Abort
<1>2. on[w] \in Payments /\ mem[w].moved \in 0..MaxUnits
  BY <1>1, AtPayment
<1>3. /\ pc' \in [Workers -> PCs] /\ on' \in [Workers -> Payments \cup {None}]
      /\ mem' \in [Workers -> Mems] /\ Placed'
      /\ \A v \in Workers : mem'[v].moved <= MaxUnits
  BY <1>1, LeaveTyped
<1>4. TypeOK /\ \A y \in Payments : credited[y] <= MaxUnits
  BY DEF TypeInv, Bounded
<1>5. job' \in [Payments -> Jobs]
  <2>1. job' \in {job, Completed(w, on[w]), Threw(w, on[w])}
    BY DEF MarkSettled, AutoPayout, AdoptSweep, TransferReverts, Abort
  <2> QED  BY <1>2, <1>4, <2>1, JobsTyped DEF TypeOK
<1>6. faults' \in Nat
  <2>1. faults' = faults \/ \E k : Fault(k)
    BY DEF MarkSettled, AutoPayout, AdoptSweep, TransferReverts, Abort
  <2> QED  BY <1>4, <2>1, FaultTyped DEF TypeOK
<1>7. row' \in [Payments -> Rows]
  <2>1. CASE row' = row
    BY <1>4, <2>1 DEF TypeOK
  <2>2. CASE Requestable(on[w], mem[w].moved) /\ AutoRow(on[w], mem[w].moved)
    BY <1>2, <2>2, RowTyped DEF Requestable
  <2>3. row' = row \/ (Requestable(on[w], mem[w].moved) /\ AutoRow(on[w], mem[w].moved))
    BY DEF MarkSettled, AutoPayout, AdoptSweep, TransferReverts, Abort, bookVars
  <2> QED  BY <2>1, <2>2, <2>3
<1>8. state' \in [Payments -> {"confirmed", "swept"}] /\ settled' \subseteq Payments
  <2>1. /\ state' = state \/ state' = [state EXCEPT ![on[w]] = "swept"]
        /\ settled' = settled \/ settled' = settled \cup {on[w]}
    BY DEF MarkSettled, AutoPayout, AdoptSweep, TransferReverts, Abort, bookVars
  <2> QED  BY <1>2, <1>4, <2>1 DEF TypeOK
<1>9. UNCHANGED <<mode, manual, moneyVars, credited, ledger>>
  BY DEF MarkSettled, AutoPayout, AdoptSweep, TransferReverts, Abort, bookVars
<1> QED  BY <1>3, <1>4, <1>5, <1>6, <1>7, <1>8, <1>9, BookTyped DEF TypeOK

LEMMA NextType == TypeInv /\ [Next]_vars => TypeInv'
<1> SUFFICES ASSUME TypeInv, [Next]_vars  PROVE TypeInv'
  OBVIOUS
<1>1. CASE UNCHANGED vars
  BY <1>1 DEF vars, bookVars, moneyVars, workVars, TypeInv, TypeOK, Placed, Bounded, Arrived
<1>2. ASSUME NEW x \in Payments,
             EnqueueSweep(x) \/ ArriveLate(x) \/ RedrivePayout(x) \/ Redeliver(x)
      PROVE  TypeInv'
  BY <1>2, EnqueueSweepTyped, ArriveLateTyped, RedrivePayoutTyped, RedeliverTyped
<1>3. CASE ManualPayout
  BY <1>3, ManualPayoutTyped
<1>4. ASSUME NEW w \in Workers, Work(w)  PROVE TypeInv'
  BY <1>4, StartSweepTyped, SplitTyped, PlanTyped, MovingTyped, RecordTyped,
     LeavingTyped DEF Work
<1> QED  BY <1>1, <1>2, <1>3, <1>4 DEF Next

\* No address holds more than it received, and every variable keeps its type.
THEOREM SettlementTyped == Spec => []TypeInv
<1>1. Init => TypeInv
  BY InitType
<1>2. TypeInv /\ [Next]_vars => TypeInv'
  BY NextType
<1> QED  BY <1>1, <1>2, PTL DEF Spec

-----------------------------------------------------------------------------
(* The balance of a deployment that sweeps in two hops.                      *)

Direct  == {"split", "plan", "check", "transfer", "record", "book", "mark"}

TwoHopInv ==
  /\ TypeInv
  /\ mode = "twoHop" => \A w \in Workers : pc[w] \notin Direct
  /\ TwoHopWithinBalance

Grosses == [x \in Payments |-> row[x].gross]

LEMMA AvailableIs ==
  /\ Available = SumOf(credited, Payments) - SumOf(Grosses, Payments) - manual
  /\ Available' = SumOf(credited', Payments) - SumOf(Grosses', Payments) - manual'
BY DEF Available, Total, Grosses, SumOf, MapThenSumSet, MapThenFoldSet

LEMMA GrossesTyped ==
  ASSUME TypeOK
  PROVE  /\ Grosses \in [Payments -> Nat]
         /\ SumOf(credited, Payments) \in Int /\ SumOf(Grosses, Payments) \in Int
         /\ manual \in Int /\ Available \in Int
<1>1. Grosses \in [Payments -> Nat] /\ credited \in [Payments -> Nat] /\ manual \in Nat
  BY DEF TypeOK, Rows, Grosses
<1>2. IsFiniteSet(Payments)
  BY SettlementAssumption
<1>3. SumOf(credited, Payments) \in Int /\ SumOf(Grosses, Payments) \in Int
  BY <1>1, <1>2, SumType
<1> QED  BY <1>1, <1>3, AvailableIs

\* A credit that only grows leaves the balance no smaller.
LEMMA BalanceGrows ==
  ASSUME TypeOK, TypeOK', UNCHANGED <<row, manual>>,
         \A x \in Payments : credited[x] <= credited'[x], Available >= 0
  PROVE  Available' >= 0
<1>1. credited \in [Payments -> Nat] /\ credited' \in [Payments -> Nat]
  BY DEF TypeOK
<1>2. IsFiniteSet(Payments)
  BY SettlementAssumption
<1>3. SumOf(credited, Payments) <= SumOf(credited', Payments)
  BY <1>1, <1>2, SumLess
<1>4. Grosses' = Grosses
  BY DEF Grosses
<1>5. SumOf(credited', Payments) \in Int
  BY <1>1, <1>2, SumType
<1> QED  BY <1>3, <1>4, <1>5, AvailableIs, GrossesTyped

\* A payout of what is available leaves nothing owed.
LEMMA BalanceDrawn ==
  ASSUME TypeOK, TypeOK', UNCHANGED <<credited, manual>>, NEW x \in Payments, NEW a \in Int,
         Requestable(x, a), AutoRow(x, a)
  PROVE  Available' >= 0
<1>1. Grosses \in [Payments -> Nat] /\ Grosses' \in [Payments -> Nat]
  <2>1. Grosses' \in [Payments -> Nat]
    BY DEF TypeOK, Rows, Grosses
  <2> QED  BY <2>1, GrossesTyped
<1>2. Grosses[x] = 0 /\ Grosses'[x] = a /\ \A y \in Payments \ {x} : Grosses'[y] = Grosses[y]
  <2>1. row[x].gross = 0 /\ row'[x].gross = a /\ \A y \in Payments \ {x} : row'[y] = row[y]
    BY DEF Requestable, AutoRow, NoRow, TypeOK
  <2> QED  BY <2>1 DEF Grosses
<1>3. SumOf(Grosses', Payments) = SumOf(Grosses, Payments) - Grosses[x] + Grosses'[x]
  <2>1. IsFiniteSet(Payments)
    BY SettlementAssumption
  <2> QED  BY <1>1, <1>2, <2>1, SumChange
<1>4. a <= Available
  BY DEF Requestable
<1> QED  BY <1>2, <1>3, <1>4, AvailableIs, GrossesTyped

LEMMA WorkTwoHop ==
  ASSUME TwoHopInv, TypeInv', NEW w \in Workers, Work(w)  PROVE TwoHopInv'
<1>1. mode' = mode /\ manual' = manual
  BY DEF Work, StartSweep, Split, Decline, Plan, CheckBalance, DeferGas, TransferLeg, RecordLeg,
         BookDirect, MarkSettled, ReadBalance, MoveBalance, RecordSweep, CreditExcess, CloseSweep,
         AutoPayout, AdoptSweep, TransferReverts, Abort, bookVars
<1>2. SUFFICES ASSUME mode = "twoHop"
               PROVE  /\ \A v \in Workers : pc'[v] \notin Direct
                      /\ Available' >= 0
  BY <1>1 DEF TwoHopInv, TwoHopWithinBalance
<1>3. pc[w] \notin Direct /\ Available >= 0
  BY <1>2 DEF TwoHopInv, TwoHopWithinBalance
<1>4. \A v \in Workers : pc'[v] \notin Direct
  <2>1. \A v \in Workers : pc[v] \notin Direct
    BY <1>2 DEF TwoHopInv
  <2>2. pc \in [Workers -> PCs]
    BY DEF TwoHopInv, TypeInv, TypeOK
  <2>3. \/ UNCHANGED pc
        \/ \E l \in {"idle", "sweep", "move", "adopt", "receipt", "credit", "close", "pay"} :
             pc' = [pc EXCEPT ![w] = l]
    BY <1>2, <1>3 DEF Work, StartSweep, Split, Decline, Plan, CheckBalance, DeferGas, TransferLeg,
         RecordLeg, BookDirect, MarkSettled, ReadBalance, MoveBalance, RecordSweep, CreditExcess,
         CloseSweep, AutoPayout, AdoptSweep, TransferReverts, Abort, Goto, Leave, Direct
  <2> QED  BY <2>1, <2>2, <2>3 DEF Direct
<1>5. Available' >= 0
  <2>1. TypeOK /\ TypeOK'
    BY DEF TwoHopInv, TypeInv
  <2>2. CASE UNCHANGED row
    <3>1. \A x \in Payments : credited[x] <= credited'[x]
      <4>1. CASE credited' = credited
        BY <2>1, <4>1 DEF TypeOK
      <4>2. CASE CreditExcess(w) /\ credited' # credited
        <5>1. /\ credited[on[w]] < mem[w].moved
              /\ credited' = [credited EXCEPT ![on[w]] = mem[w].moved]
          BY <4>2 DEF CreditExcess
        <5>2. credited \in [Payments -> Nat] /\ mem[w].moved \in Nat
          BY <2>1 DEF TypeOK, Mems
        <5> QED  BY <5>1, <5>2
      <4>3. credited' = credited \/ CreditExcess(w)
        BY DEF Work, StartSweep, Split, Decline, Plan, CheckBalance, DeferGas, TransferLeg,
               RecordLeg, BookDirect, MarkSettled, ReadBalance, MoveBalance, RecordSweep,
               CloseSweep, AutoPayout, AdoptSweep, TransferReverts, Abort, bookVars
      <4> QED  BY <4>1, <4>2, <4>3
    <3> QED  BY <1>1, <1>3, <2>1, <2>2, <3>1, BalanceGrows
  <2>3. CASE ~ UNCHANGED row
    <3>1. /\ pc[w] # "idle" /\ UNCHANGED credited
          /\ Requestable(on[w], mem[w].moved) /\ AutoRow(on[w], mem[w].moved)
      BY <1>3, <2>3 DEF Work, StartSweep, Split, Decline, Plan, CheckBalance, DeferGas, TransferLeg,
         RecordLeg, BookDirect, MarkSettled, ReadBalance, MoveBalance, RecordSweep, CreditExcess,
         CloseSweep, AutoPayout, AdoptSweep, TransferReverts, Abort, Direct, bookVars
    <3>2. on[w] \in Payments /\ mem[w].moved \in Int
      BY <3>1, AtPayment DEF TwoHopInv
    <3> QED  BY <1>1, <2>1, <3>1, <3>2, BalanceDrawn
  <2> QED  BY <2>2, <2>3
<1> QED  BY <1>4, <1>5

LEMMA NextTwoHop == TwoHopInv /\ [Next]_vars => TwoHopInv'
<1> SUFFICES ASSUME TwoHopInv, [Next]_vars  PROVE TwoHopInv'
  OBVIOUS
<1>1. TypeInv' /\ TypeOK /\ TypeOK'
  BY NextType DEF TwoHopInv, TypeInv
<1>2. ASSUME UNCHANGED <<mode, pc, row, credited, manual>>  PROVE TwoHopInv'
  <2>1. Grosses' = Grosses /\ Available' = Available
    BY <1>2, AvailableIs DEF Grosses
  <2> QED  BY <1>1, <1>2, <2>1 DEF TwoHopInv, TwoHopWithinBalance
<1>3. ASSUME UNCHANGED <<mode, pc>>, mode = "twoHop" => Available' >= 0  PROVE TwoHopInv'
  BY <1>1, <1>3 DEF TwoHopInv, TwoHopWithinBalance
<1>4. CASE UNCHANGED vars
  BY <1>2, <1>4 DEF vars, bookVars, workVars
<1>5. ASSUME NEW x \in Payments,
             EnqueueSweep(x) \/ ArriveLate(x) \/ RedrivePayout(x) \/ Redeliver(x)
      PROVE  TwoHopInv'
  <2>1. CASE EnqueueSweep(x) \/ ArriveLate(x) \/ Redeliver(x)
    BY <1>2, <2>1 DEF EnqueueSweep, ArriveLate, Redeliver, bookVars, workVars
  <2>2. CASE RedrivePayout(x)
    <3>1. /\ Requestable(x, credited[x]) /\ AutoRow(x, credited[x])
          /\ UNCHANGED <<mode, pc, credited, manual>>
      BY <2>2 DEF RedrivePayout, workVars
    <3>2. credited[x] \in Int
      BY <1>1 DEF TypeOK
    <3> QED  BY <1>1, <1>3, <3>1, <3>2, BalanceDrawn
  <2> QED  BY <1>5, <2>1, <2>2
<1>6. CASE ManualPayout
  <2>1. PICK a \in 1..MaxUnits : a <= Available /\ manual' = manual + a
    BY <1>6 DEF ManualPayout
  <2>2. UNCHANGED <<mode, pc, credited, row>> /\ Grosses' = Grosses
    BY <1>6 DEF ManualPayout, workVars, Grosses
  <2>3. a \in Nat
    BY SettlementAssumption
  <2>4. Available' = SumOf(credited, Payments) - SumOf(Grosses, Payments) - (manual + a)
    BY <2>1, <2>2, AvailableIs
  <2>5. Available' = Available - a
    BY <1>1, <2>3, <2>4, AvailableIs, GrossesTyped
  <2> QED  BY <1>1, <1>3, <2>1, <2>2, <2>3, <2>5, GrossesTyped
<1>7. ASSUME NEW w \in Workers, Work(w)  PROVE TwoHopInv'
  BY <1>1, <1>7, WorkTwoHop
<1> QED  BY <1>4, <1>5, <1>6, <1>7 DEF Next

LEMMA InitTwoHop == Init => TwoHopInv
<1> SUFFICES ASSUME Init  PROVE TwoHopInv
  OBVIOUS
<1>1. TypeInv
  BY InitType
<1>2. \A w \in Workers : pc[w] \notin Direct
  BY DEF Init, Direct
<1>3. Available >= 0
  <2>1. /\ Grosses = [x \in Payments |-> 0] /\ manual = 0 /\ credited \in [Payments -> Nat]
    BY <1>1 DEF Init, Grosses, NoRow, TypeInv, TypeOK
  <2>2. SumOf(Grosses, Payments) <= SumOf(credited, Payments)
    <3>1. IsFiniteSet(Payments)
      BY SettlementAssumption
    <3>2. \A x \in Payments : Grosses[x] \in Int /\ credited[x] \in Int /\ Grosses[x] <= credited[x]
      BY <2>1
    <3> QED  BY <3>1, <3>2, SumLess
  <2> QED  BY <1>1, <2>1, <2>2, AvailableIs, GrossesTyped DEF TypeInv
<1> QED  BY <1>1, <1>2, <1>3 DEF TwoHopInv, TwoHopWithinBalance

\* Through the central wallet, what is reserved for payouts never exceeds what
\* the merchant was credited, whatever fails and however many workers sweep.
THEOREM TwoHopStaysWithinBalance == Spec => []TwoHopWithinBalance
<1>1. Init => TwoHopInv
  BY InitTwoHop
<1>2. TwoHopInv /\ [Next]_vars => TwoHopInv'
  BY NextTwoHop
<1>3. TwoHopInv => TwoHopWithinBalance
  BY DEF TwoHopInv
<1> QED  BY <1>1, <1>2, <1>3, PTL DEF Spec

-----------------------------------------------------------------------------
(* The invariant of the sweep.  A fault between the legs of a direct          *)
(* settlement, or a second worker on its job, is what it does not survive.    *)

NoTear == {"torn", "directStall"} \cap Faults = {}

Sending == {"check", "transfer", "record", "book", "mark"}

\* All that was paid is at the central wallet or with the merchant.
Cleared(x) == Paid[x] <= central[x] + merchant[x]

\* No leg of a direct settlement has been sent, and a sweep took nothing or
\* all of what was paid.
Quiet(x) ==
  /\ merchant[x] = 0 /\ middle[x] = 0
  /\ ledger[x] \cap Legs = {}
  /\ central[x] = 0 \/ Paid[x] <= central[x]

\* A payment that is still confirmed is quiet, or a worker is sending its legs.
PaymentInv(x) ==
  /\ Paid[x] <= Arrived(x)
  /\ credited[x] <= Paid[x] \/ credited[x] <= central[x]
  /\ "sweep" \in ledger[x] => Cleared(x)
  /\ state[x] = "swept" => Cleared(x)
  /\ state[x] = "confirmed" =>
       Quiet(x) \/ \E w \in Workers : on[w] = x /\ pc[w] \in Sending

\* The legs a worker has not sent, and what they need.
Unsent(w) == IF pc[w] = "record" THEN mem[w].todo \ {NextLeg(w)} ELSE mem[w].todo
Owed(w) == (IF "net" \in Unsent(w) THEN mem[w].net ELSE 0)
             + (IF "fee" \in Unsent(w) THEN mem[w].fee ELSE 0)
Hopped(w) == mode = "intermediate" /\ "hop" \notin Unsent(w)

\* The split a worker works from covers the payment, unless a sweep has.
SplitInv(w) ==
  LET m == mem[w] IN
  /\ m.gross <= Arrived(on[w])
  /\ m.net > 0 /\ m.net + m.fee = m.gross /\ m.fee = Fee[m.gross]
  /\ Paid[on[w]] <= m.gross \/ Paid[on[w]] <= central[on[w]]

\* The legs go out in order, and a leg that is left needs the one after it.
TodoInv(w) ==
  LET todo == mem[w].todo IN
  /\ "hop" \in todo => mode = "intermediate" /\ "net" \in todo
  /\ "net" \in todo /\ mem[w].fee > 0 => "fee" \in todo
  /\ pc[w] = "check" => "net" \in todo
  /\ pc[w] \in {"transfer", "record"} => todo # {}
  /\ pc[w] \in {"book", "mark"} => todo = {}

\* What has been sent is where it was sent to, and the address it leaves
\* covers the rest.
LegsInv(w) ==
  LET x == on[w] IN
  /\ merchant[x] = IF "net" \in Unsent(w) THEN 0 ELSE mem[w].net
  /\ "fee" \notin Unsent(w) => mem[w].fee <= central[x]
  /\ IF Hopped(w) THEN Owed(w) <= middle[x] ELSE middle[x] = 0
  /\ "net" \in Unsent(w) /\ ~Hopped(w) => Quiet(x)
  /\ pc[w] = "transfer" /\ "hop" \in mem[w].todo =>
       Owed(w) <= mem[w].moved /\ mem[w].moved <= deposit[x]
  /\ pc[w] \in {"transfer", "record"} /\ mode = "direct" => Owed(w) <= deposit[x]

SweepInv(w) ==
  LET x == on[w] IN
  /\ pc[w] = "move" => Paid[x] <= mem[w].moved \/ Cleared(x)
  /\ pc[w] \in {"receipt", "credit", "close", "pay"} =>
       mem[w].moved <= central[x] /\ Cleared(x)
  /\ pc[w] = "pay" => state[x] = "swept"

DirectInv(w) ==
  /\ pc[w] \in Direct => mode # "twoHop" /\ state[on[w]] = "confirmed"
  /\ pc[w] \in Sending \cup {"plan"} => SplitInv(w)
  /\ pc[w] \in Sending => TodoInv(w) /\ LegsInv(w)

WorkerInv(w) == pc[w] # "idle" => SweepInv(w) /\ DirectInv(w)

\* Without a stall, the worker of a direct settlement is alone with its job.
Alone == mode # "twoHop" => \A w \in Workers : pc[w] # "idle" => Owns(w, on[w])

BackInv ==
  /\ TypeInv
  /\ Alone
  /\ \A x \in Payments : PaymentInv(x)
  /\ \A w \in Workers : WorkerInv(w)

LEMMA InitBack == Init => BackInv
<1> SUFFICES ASSUME Init  PROVE BackInv
  OBVIOUS
<1>1. TypeInv
  BY InitType
<1>2. \A w \in Workers : pc[w] = "idle"
  BY DEF Init
<1>3. ASSUME NEW x \in Payments  PROVE PaymentInv(x)
  <2>1. /\ deposit[x] = Paid[x] /\ credited[x] = Paid[x] /\ Paid[x] \in Nat
        /\ middle[x] = 0 /\ central[x] = 0 /\ merchant[x] = 0
        /\ state[x] = "confirmed" /\ ledger[x] = {}
    BY SettlementAssumption DEF Init
  <2> QED  BY <2>1 DEF PaymentInv, Arrived, Quiet
<1> QED  BY <1>1, <1>2, <1>3 DEF BackInv, Alone, WorkerInv

-----------------------------------------------------------------------------
(* What a step leaves alone.                                                 *)

LEMMA NumbersTyped ==
  ASSUME TypeInv, NEW x \in Payments
  PROVE  /\ deposit[x] \in Nat /\ middle[x] \in Nat /\ central[x] \in Nat /\ merchant[x] \in Nat
         /\ credited[x] \in Nat /\ Paid[x] \in Nat /\ state[x] \in {"confirmed", "swept"}
         /\ Arrived(x) \in 0..MaxUnits
BY SettlementAssumption DEF TypeInv, TypeOK, Bounded, Arrived

LEMMA WorkerKept ==
  ASSUME NEW v \in Workers, NEW x \in Payments, on[v] = x, TypeInv, TypeInv', WorkerInv(v),
         UNCHANGED mode, pc'[v] = pc[v], on'[v] = on[v], mem'[v] = mem[v],
         state'[x] = state[x], ledger'[x] = ledger[x], central'[x] = central[x],
         merchant'[x] = merchant[x], middle'[x] = middle[x], deposit[x] <= deposit'[x]
  PROVE  WorkerInv(v)'
<1>1. CASE pc[v] = "idle"
  BY <1>1 DEF WorkerInv
<1>2. CASE pc[v] # "idle"
  <2>1. SweepInv(v)' /\ (Cleared(x)' <=> Cleared(x)) /\ (Quiet(x)' <=> Quiet(x))
    BY <1>2 DEF WorkerInv, SweepInv, Cleared, Quiet
  <2>2. NextLeg(v)' = NextLeg(v) /\ Unsent(v)' = Unsent(v)
    BY DEF NextLeg, Unsent
  <2>3. Owed(v)' = Owed(v) /\ Hopped(v)' = Hopped(v)
    BY <2>2 DEF Owed, Hopped
  <2>4. SplitInv(v) => SplitInv(v)'
    <3>1. Arrived(x) <= Arrived(x)'
      <4>1. /\ deposit[x] \in Nat /\ deposit'[x] \in Nat /\ middle[x] \in Nat
            /\ central[x] \in Nat /\ merchant[x] \in Nat
        BY DEF TypeInv, TypeOK
      <4> QED  BY <4>1 DEF Arrived
    <3>2. Arrived(x) \in Int /\ Arrived(x)' \in Int /\ mem[v].gross \in Int
      BY NumbersTyped, AtPayment, <1>2 DEF TypeInv, TypeOK, Bounded, Arrived
    <3> QED  BY <3>1, <3>2 DEF SplitInv
  <2>5. TodoInv(v) => TodoInv(v)'
    BY DEF TodoInv
  <2>6. LegsInv(v) => LegsInv(v)'
    <3>1. /\ Owed(v) \in Int /\ deposit[x] \in Int /\ deposit'[x] \in Int /\ mem[v].moved \in Int
      BY <1>2, AtPayment DEF Owed, TypeInv, TypeOK
    <3> QED  BY <2>1, <2>2, <2>3, <3>1 DEF LegsInv
  <2> QED  BY <1>2, <2>1, <2>4, <2>5, <2>6 DEF WorkerInv, DirectInv
<1> QED  BY <1>1, <1>2

\* A worker on the two-hop path holds, whatever is moved out of the address by
\* another one.
LEMMA SweeperKept ==
  ASSUME NEW v \in Workers, NEW x \in Payments, on[v] = x, TypeInv, TypeInv', WorkerInv(v),
         pc[v] \notin Direct, pc'[v] = pc[v], on'[v] = on[v], mem'[v] = mem[v],
         central[x] <= central'[x], merchant[x] <= merchant'[x],
         state[x] = "swept" => state'[x] = "swept"
  PROVE  WorkerInv(v)'
<1>1. CASE pc[v] = "idle"
  BY <1>1 DEF WorkerInv
<1>2. CASE pc[v] # "idle"
  <2>1. /\ central[x] \in Int /\ central'[x] \in Int /\ merchant[x] \in Int /\ merchant'[x] \in Int
        /\ mem[v].moved \in Int /\ Paid[x] \in Int
    <3>1. central'[x] \in Nat /\ merchant'[x] \in Nat
      BY DEF TypeInv, TypeOK
    <3>2. mem[v].moved \in Nat
      BY <1>2, AtPayment
    <3> QED  BY <3>1, <3>2, NumbersTyped
  <2>2. Cleared(x) => Cleared(x)'
    BY <2>1 DEF Cleared
  <2> QED  BY <1>2, <2>1, <2>2 DEF WorkerInv, SweepInv, DirectInv, Direct, Sending
<1> QED  BY <1>1, <1>2

\* In the direct modes, no two workers are at one payment.
LEMMA OneWorker ==
  ASSUME BackInv, mode # "twoHop", NEW v \in Workers, NEW w \in Workers,
         pc[v] # "idle", pc[w] # "idle", on[v] = on[w]
  PROVE  v = w
BY DEF BackInv, Alone, Owns

\* What is confirmed, and not being sent by the worker at it, is quiet.
LEMMA QuietHere ==
  ASSUME BackInv, NEW w \in Workers, NEW x \in Payments, on[w] = x, pc[w] # "idle",
         pc[w] \notin Sending, state[x] = "confirmed"
  PROVE  Quiet(x)
<1> SUFFICES ASSUME NEW v \in Workers, on[v] = x, pc[v] \in Sending  PROVE FALSE
  BY DEF BackInv, PaymentInv
<1>1. pc[v] # "idle" /\ pc[v] \in Direct
  BY DEF Sending, Direct
<1>2. mode # "twoHop"
  BY <1>1 DEF BackInv, WorkerInv, DirectInv
<1> QED  BY <1>1, <1>2, OneWorker

Same(y) ==
  /\ deposit'[y] = deposit[y] /\ middle'[y] = middle[y] /\ central'[y] = central[y]
  /\ merchant'[y] = merchant[y] /\ state'[y] = state[y] /\ credited'[y] = credited[y]
  /\ ledger'[y] = ledger[y]

\* Worker w takes a step at payment x: everyone and everything else is as it was.
OnlyAt(w, x) ==
  /\ UNCHANGED mode
  /\ \A v \in Workers \ {w} : pc'[v] = pc[v] /\ on'[v] = on[v] /\ mem'[v] = mem[v]
  /\ \A y \in Payments \ {x} : Same(y) /\ job'[y] = job[y]

LEMMA OthersKept ==
  ASSUME BackInv, TypeInv', NEW w \in Workers, NEW x \in Payments, OnlyAt(w, x),
         on[w] \in {x, None}, mode # "twoHop" => \A v \in Workers \ {w} : on[v] # x,
         central[x] <= central'[x], merchant[x] <= merchant'[x],
         state[x] = "swept" => state'[x] = "swept"
  PROVE  /\ \A v \in Workers \ {w} : WorkerInv(v)'
         /\ \A y \in Payments \ {x} : PaymentInv(y)'
<1>1. ASSUME NEW v \in Workers \ {w}  PROVE WorkerInv(v)'
  <2>1. /\ pc'[v] = pc[v] /\ on'[v] = on[v] /\ mem'[v] = mem[v] /\ WorkerInv(v) /\ TypeInv
        /\ UNCHANGED mode
    BY DEF OnlyAt, BackInv
  <2>2. CASE on[v] = None
    BY <2>1, <2>2 DEF WorkerInv, TypeInv, Placed
  <2>3. CASE on[v] = x
    <3>1. pc[v] \notin Direct
      BY <2>1, <2>3 DEF WorkerInv, DirectInv, Direct
    <3> QED  BY <2>1, <2>3, <3>1, SweeperKept
  <2>4. CASE on[v] \in Payments \ {x}
    <3>1. PICK y \in Payments : y = on[v]
      BY <2>4
    <3>2. Same(y) /\ deposit[y] <= deposit'[y]
      BY <2>1, <2>4, <3>1, NumbersTyped DEF OnlyAt, Same
    <3> QED  BY <2>1, <3>1, <3>2, WorkerKept DEF Same
  <2>5. on[v] \in Payments \cup {None}
    BY DEF BackInv, TypeInv, TypeOK
  <2> QED  BY <2>2, <2>3, <2>4, <2>5
<1>2. ASSUME NEW y \in Payments \ {x}  PROVE PaymentInv(y)'
  <2>1. PaymentInv(y) /\ Same(y)
    BY DEF BackInv, OnlyAt
  <2>2. \A v \in Workers : on[v] = y => v # w
    BY SettlementAssumption
  <2>3. (\E v \in Workers : on[v] = y /\ pc[v] \in Sending)
           => \E v \in Workers : on'[v] = y /\ pc'[v] \in Sending
    BY <2>2 DEF OnlyAt
  <2>4. Arrived(y)' = Arrived(y) /\ Cleared(y)' = Cleared(y) /\ Quiet(y)' = Quiet(y)
    BY <2>1 DEF Same, Arrived, Cleared, Quiet
  <2> QED  BY <2>1, <2>3, <2>4 DEF PaymentInv, Same
<1> QED  BY <1>1, <1>2

\* So a step of a worker is about its own payment and its own place.
LEMMA OwnStep ==
  ASSUME BackInv, TypeInv', NEW w \in Workers, NEW x \in Payments, OnlyAt(w, x),
         pc[w] # "idle", on[w] = x,
         central[x] <= central'[x], merchant[x] <= merchant'[x],
         state[x] = "swept" => state'[x] = "swept",
         pc'[w] = "idle" \/ (on'[w] = x /\ job' = job /\ WorkerInv(w)'),
         PaymentInv(x)'
  PROVE  BackInv'
<1>1. mode # "twoHop" => \A v \in Workers \ {w} : on[v] # x
  <2>1. \A v \in Workers : on[v] = x => pc[v] # "idle"
    BY SettlementAssumption DEF BackInv, TypeInv, Placed
  <2> QED  BY <2>1, OneWorker
<1>2. /\ \A v \in Workers \ {w} : WorkerInv(v)'
      /\ \A y \in Payments \ {x} : PaymentInv(y)'
  BY <1>1, OthersKept
<1>3. WorkerInv(w)'
  BY DEF WorkerInv
<1>4. Alone'
  <2> SUFFICES ASSUME mode # "twoHop", NEW v \in Workers, pc'[v] # "idle"
               PROVE  Owns(v, on[v])'
    BY DEF Alone, OnlyAt
  <2>1. CASE v = w
    BY <2>1 DEF Owns, BackInv, Alone
  <2>2. CASE v # w
    <3>1. pc[v] # "idle" /\ on'[v] = on[v] /\ on[v] # x
      BY <1>1, <2>2 DEF OnlyAt
    <3>2. on[v] \in Payments /\ Owns(v, on[v])
      BY <3>1, AtPayment DEF BackInv, Alone
    <3> QED  BY <3>1, <3>2 DEF Owns, OnlyAt
  <2> QED  BY <2>1, <2>2
<1> QED  BY <1>2, <1>3, <1>4 DEF BackInv

\* A step that leaves a payment's money and rows alone, and it quiet, settled
\* or being sent.
LEMMA PaymentKept ==
  ASSUME TypeInv, NEW x \in Payments, PaymentInv(x), Same(x),
         state[x] = "confirmed" =>
           Quiet(x) \/ \E w \in Workers : on'[w] = x /\ pc'[w] \in Sending
  PROVE  PaymentInv(x)'
<1>1. Arrived(x)' = Arrived(x) /\ Cleared(x)' = Cleared(x) /\ Quiet(x)' = Quiet(x)
  BY DEF Same, Arrived, Cleared, Quiet
<1> QED  BY <1>1 DEF PaymentInv, Same

-----------------------------------------------------------------------------
(* The queue, the customer and the merchant.                                 *)

LEMMA QueueStep ==
  ASSUME BackInv, TypeInv', NoTear, NEW x \in Payments,
         EnqueueSweep(x) \/ ArriveLate(x) \/ RedrivePayout(x) \/ Redeliver(x)
  PROVE  BackInv'
<1>1. /\ UNCHANGED <<mode, pc, on, mem, state, credited, ledger, middle, central, merchant>>
      /\ \A y \in Payments : deposit[y] <= deposit'[y] /\ Arrived(y) <= Arrived(y)'
      /\ \A y \in Payments \ {x} : job'[y] = job[y]
  <2>1. CASE ArriveLate(x)
    <3>1. PICK a \in LateAmounts : deposit' = [deposit EXCEPT ![x] = @ + a]
      BY <2>1 DEF ArriveLate
    <3>2. a \in Nat /\ \A y \in Payments : deposit[y] \in Nat /\ middle[y] \in Nat
                          /\ central[y] \in Nat /\ merchant[y] \in Nat
      BY SettlementAssumption, NumbersTyped DEF BackInv
    <3>3. UNCHANGED <<mode, pc, on, mem, state, credited, ledger, middle, central, merchant, job>>
      BY <2>1 DEF ArriveLate, bookVars, workVars
    <3> QED  BY <3>1, <3>2, <3>3 DEF BackInv, TypeInv, TypeOK, Arrived
  <2>2. CASE EnqueueSweep(x) \/ RedrivePayout(x) \/ Redeliver(x)
    <3>1. UNCHANGED <<mode, pc, on, mem, state, credited, ledger, moneyVars>>
      BY <2>2 DEF EnqueueSweep, RedrivePayout, Redeliver, bookVars, workVars
    <3>2. \A y \in Payments \ {x} : job'[y] = job[y]
      BY <2>2 DEF EnqueueSweep, RedrivePayout, Redeliver, workVars, BackInv, TypeInv, TypeOK
    <3>3. \A y \in Payments : deposit[y] \in Nat /\ Arrived(y) \in Int
      BY NumbersTyped DEF BackInv
    <3>4. \A y \in Payments : Arrived(y)' = Arrived(y) /\ deposit'[y] = deposit[y]
      BY <3>1 DEF moneyVars, Arrived
    <3> QED  BY <3>1, <3>2, <3>3, <3>4 DEF moneyVars
  <2> QED  BY <2>1, <2>2
<1>2. ASSUME NEW v \in Workers  PROVE WorkerInv(v)'
  <2>1. WorkerInv(v) /\ TypeInv
    BY DEF BackInv
  <2>2. CASE on[v] \in Payments
    BY <1>1, <2>1, <2>2, WorkerKept
  <2>3. CASE on[v] = None
    BY <1>1, <2>1, <2>3 DEF WorkerInv, TypeInv, Placed
  <2> QED  BY <2>1, <2>2, <2>3 DEF TypeInv, TypeOK
<1>3. ASSUME NEW y \in Payments  PROVE PaymentInv(y)'
  <2>1. PaymentInv(y) /\ Cleared(y)' = Cleared(y) /\ Quiet(y)' = Quiet(y)
    BY <1>1 DEF BackInv, Cleared, Quiet
  <2>2. Paid[y] \in Nat /\ Arrived(y) \in Int /\ Arrived(y)' \in Int
    <3>1. Arrived(y)' \in Int
      BY DEF TypeInv, TypeOK, Arrived
    <3> QED  BY <3>1, NumbersTyped DEF BackInv
  <2> QED  BY <1>1, <2>1, <2>2 DEF PaymentInv
<1>4. Alone'
  <2> SUFFICES ASSUME mode # "twoHop", NEW v \in Workers, pc[v] # "idle"  PROVE Owns(v, on[v])'
    BY <1>1 DEF Alone
  <2>1. Owns(v, on[v]) /\ on'[v] = on[v] /\ on[v] \in Payments
    BY <1>1, AtPayment DEF BackInv, Alone
  <2>2. CASE on[v] # x
    BY <1>1, <2>1, <2>2 DEF Owns
  <2>3. CASE on[v] = x
    <3>1. ~ EnqueueSweep(x)
      BY <2>1, <2>3 DEF EnqueueSweep, Owns
    <3>2. ~ Redeliver(x)
      <4>1. ~ Orphaned(x)
        BY <2>1, <2>3 DEF Orphaned, Owns
      <4> QED  BY <4>1 DEF Redeliver, Fault, NoTear
    <3> QED  BY <1>1, <2>1, <3>1, <3>2 DEF ArriveLate, RedrivePayout, workVars, Owns
  <2> QED  BY <2>2, <2>3
<1> QED  BY <1>2, <1>3, <1>4 DEF BackInv

LEMMA ManualPayoutStep ==
  ASSUME BackInv, TypeInv', ManualPayout  PROVE BackInv'
<1>1. UNCHANGED <<mode, state, credited, ledger, moneyVars, workVars>>
  BY DEF ManualPayout
<1>2. ASSUME NEW v \in Workers  PROVE WorkerInv(v)'
  <2>1. WorkerInv(v) /\ TypeInv
    BY DEF BackInv
  <2>2. CASE on[v] \in Payments
    <3>1. PICK y \in Payments : y = on[v]
      BY <2>2
    <3>2. deposit[y] <= deposit'[y]
      BY <1>1, NumbersTyped DEF BackInv, moneyVars
    <3> QED  BY <1>1, <2>1, <3>1, <3>2, WorkerKept DEF moneyVars, workVars
  <2>3. CASE on[v] = None
    BY <1>1, <2>1, <2>3 DEF WorkerInv, TypeInv, Placed, workVars
  <2> QED  BY <2>1, <2>2, <2>3 DEF TypeInv, TypeOK
<1>3. ASSUME NEW y \in Payments  PROVE PaymentInv(y)'
  <2>1. PaymentInv(y) /\ Same(y) /\ TypeInv
    BY <1>1 DEF BackInv, Same, moneyVars
  <2>2. UNCHANGED <<on, pc>>
    BY <1>1 DEF workVars
  <2>3. state[y] = "confirmed" => Quiet(y) \/ \E w \in Workers : on'[w] = y /\ pc'[w] \in Sending
    BY <2>1, <2>2 DEF PaymentInv
  <2> QED  BY <2>1, <2>3, PaymentKept
<1>4. Alone'
  BY <1>1 DEF BackInv, Alone, Owns, workVars
<1> QED  BY <1>2, <1>3, <1>4 DEF BackInv

\* The worker that takes the job is the only one at its payment.
LEMMA StartSweepStep ==
  ASSUME BackInv, TypeInv', NEW w \in Workers, NEW x \in Payments, StartSweep(w, x)
  PROVE  BackInv'
<1>1. /\ pc[w] = "idle" /\ on[w] = None /\ job[x].state = "wait"
      /\ UNCHANGED <<mode, bookVars, moneyVars, faults>>
  BY DEF StartSweep, BackInv, TypeInv, Placed
<1>2. mode # "twoHop" => \A v \in Workers \ {w} : on[v] # x
  <2>1. \A v \in Workers : on[v] = x => pc[v] # "idle"
    BY SettlementAssumption DEF BackInv, TypeInv, Placed
  <2> QED  BY <1>1, <2>1 DEF BackInv, Alone, Owns
<1>3. \A y \in Payments : Same(y)
  BY <1>1 DEF Same, bookVars, moneyVars
<1>4. /\ pc \in [Workers -> PCs] /\ on \in [Workers -> Payments \cup {None}]
      /\ mem \in [Workers -> Mems] /\ job \in [Payments -> Jobs]
  BY DEF BackInv, TypeInv, TypeOK
<1>5. OnlyAt(w, x)
  BY <1>1, <1>3, <1>4 DEF StartSweep, OnlyAt, Goto
<1>6. /\ \A v \in Workers \ {w} : WorkerInv(v)'
      /\ \A y \in Payments \ {x} : PaymentInv(y)'
  <2>1. /\ central[x] <= central'[x] /\ merchant[x] <= merchant'[x]
        /\ state[x] = "swept" => state'[x] = "swept"
    BY <1>3, NumbersTyped DEF Same, BackInv
  <2> QED  BY <1>1, <1>2, <1>5, <2>1, OthersKept
<1>7. PaymentInv(x)'
  <2>1. PaymentInv(x) /\ Same(x) /\ TypeInv
    BY <1>3 DEF BackInv
  <2>2. ASSUME NEW v \in Workers, on[v] = x, pc[v] \in Sending
        PROVE  on'[v] = x /\ pc'[v] \in Sending
    BY <1>1, <1>5, <2>2, SettlementAssumption DEF OnlyAt
  <2>3. state[x] = "confirmed" => Quiet(x) \/ \E v \in Workers : on'[v] = x /\ pc'[v] \in Sending
    BY <2>1, <2>2 DEF PaymentInv
  <2> QED  BY <2>1, <2>3, PaymentKept
<1>8. CASE UNCHANGED <<pc, on, mem>> /\ job' = [job EXCEPT ![x].state = "done"]
  <2>1. WorkerInv(w)'
    BY <1>1, <1>8 DEF WorkerInv
  <2>2. Alone'
    <3> SUFFICES ASSUME mode # "twoHop", NEW v \in Workers, pc[v] # "idle"
                 PROVE  on[v] \in Payments \ {x} /\ Owns(v, on[v])
      BY <1>1, <1>8, <1>5 DEF Alone, OnlyAt, Owns
    <3> QED  BY <1>1, <1>2, AtPayment DEF BackInv, Alone
  <2> QED  BY <1>6, <1>7, <2>1, <2>2 DEF BackInv
<1>9. CASE /\ state[x] = "confirmed"
           /\ job' = [job EXCEPT ![x].state = "active", ![x].owner = w]
           /\ pc' = [pc EXCEPT ![w] = IF mode = "twoHop" THEN "sweep" ELSE "split"]
           /\ on' = [on EXCEPT ![w] = x]
  <2>1. /\ pc'[w] = (IF mode = "twoHop" THEN "sweep" ELSE "split") /\ on'[w] = x
        /\ state'[x] = "confirmed" /\ mode' = mode
    BY <1>1, <1>4, <1>9 DEF bookVars
  <2>2. WorkerInv(w)'
    BY <2>1 DEF WorkerInv, SweepInv, DirectInv, Direct, Sending
  <2>3. job'[x].state = "active" /\ job'[x].owner = w
    <3>1. job[x] \in Jobs
      BY <1>4
    <3> QED  BY <1>4, <1>9, <3>1 DEF Jobs
  <2>4. Alone'
    <3> SUFFICES ASSUME mode # "twoHop", NEW v \in Workers, pc'[v] # "idle"
                 PROVE  Owns(v, on[v])'
      BY <1>1 DEF Alone
    <3>1. CASE v = w
      BY <2>1, <2>3, <3>1 DEF Owns
    <3>2. CASE v # w
      <4>1. pc[v] # "idle" /\ on'[v] = on[v] /\ on[v] # x
        BY <1>2, <1>5, <3>2 DEF OnlyAt
      <4>2. on[v] \in Payments /\ Owns(v, on[v])
        BY <4>1, AtPayment DEF BackInv, Alone
      <4> QED  BY <1>5, <4>1, <4>2 DEF Owns, OnlyAt
    <3> QED  BY <3>1, <3>2
  <2> QED  BY <1>6, <1>7, <2>2, <2>4 DEF BackInv
<1> QED  BY <1>8, <1>9 DEF StartSweep, Goto

-----------------------------------------------------------------------------
(* The steps of a worker.                                                    *)

\* Each is at the payment of the worker, and at the worker.
LEMMA LocalStep ==
  ASSUME BackInv, NEW w \in Workers, NEW x \in Payments, on[w] = x, pc[w] # "idle", Work(w)
  PROVE  OnlyAt(w, x)
<1>1. /\ pc \in [Workers -> PCs] /\ on \in [Workers -> Payments \cup {None}]
      /\ mem \in [Workers -> Mems] /\ job \in [Payments -> Jobs]
      /\ state \in [Payments -> {"confirmed", "swept"}] /\ credited \in [Payments -> Nat]
      /\ deposit \in [Payments -> Nat] /\ middle \in [Payments -> Nat]
      /\ central \in [Payments -> Nat] /\ merchant \in [Payments -> Nat]
      /\ ledger \in [Payments -> SUBSET (Legs \cup {"sweep"})]
  BY DEF BackInv, TypeInv, TypeOK
<1>2. ASSUME NEW y \in Payments \ {x}
      PROVE  Completed(w, x)[y] = job[y] /\ Threw(w, x)[y] = job[y]
  BY <1>1 DEF Completed, Threw
<1>3. CASE \/ Split(w) \/ Decline(w) \/ Plan(w) \/ CheckBalance(w) \/ DeferGas(w)
  BY <1>1, <1>3 DEF Split, Decline, Plan, CheckBalance, DeferGas, Goto, OnlyAt, Same, bookVars,
                    moneyVars
<1>4. CASE ReadBalance(w) \/ BookDirect(w)
  BY <1>1, <1>4 DEF ReadBalance, BookDirect, Goto, OnlyAt, Same, bookVars, moneyVars
<1>5. CASE TransferLeg(w)
  BY <1>1, <1>5 DEF TransferLeg, Goto, OnlyAt, Same, bookVars
<1>6. CASE MoveBalance(w)
  BY <1>1, <1>6 DEF MoveBalance, Goto, OnlyAt, Same, bookVars
<1>7. CASE RecordLeg(w) \/ RecordSweep(w)
  BY <1>1, <1>7 DEF RecordLeg, RecordSweep, Goto, OnlyAt, Same, moneyVars
<1>8. CASE CreditExcess(w) \/ CloseSweep(w)
  BY <1>1, <1>8 DEF CreditExcess, CloseSweep, Goto, OnlyAt, Same, moneyVars
<1>9. CASE MarkSettled(w) \/ AdoptSweep(w) \/ AutoPayout(w)
  BY <1>1, <1>2, <1>9 DEF MarkSettled, AdoptSweep, AutoPayout, Leave, OnlyAt, Same, moneyVars
<1>10. CASE TransferReverts(w) \/ Abort(w)
  BY <1>1, <1>2, <1>10 DEF TransferReverts, Abort, Leave, OnlyAt, Same, bookVars, moneyVars
<1>11. ~ \E y \in Payments : StartSweep(w, y)
  BY DEF StartSweep
<1> QED  BY <1>3, <1>4, <1>5, <1>6, <1>7, <1>8, <1>9, <1>10, <1>11 DEF Work

\* A step that decides, reads, gives up or writes a payout row.
LEMMA StillStep ==
  ASSUME BackInv, TypeInv', NEW w \in Workers, NEW x \in Payments, on[w] = x, pc[w] # "idle",
         Work(w), Same(x),
         pc'[w] = "idle" \/ (on'[w] = x /\ job' = job /\ WorkerInv(w)'),
         state[x] = "confirmed" => Quiet(x) \/ (on'[w] = x /\ pc'[w] \in Sending)
  PROVE  BackInv'
<1>1. OnlyAt(w, x)
  BY LocalStep
<1>2. PaymentInv(x)'
  BY PaymentKept DEF BackInv
<1>3. /\ central[x] <= central'[x] /\ merchant[x] <= merchant'[x]
      /\ state[x] = "swept" => state'[x] = "swept"
  BY NumbersTyped DEF Same, BackInv
<1> QED  BY <1>1, <1>2, <1>3, OwnStep

\* Where a step leaves a worker when it writes no memory.
LEMMA Going ==
  ASSUME TypeInv, NEW w \in Workers, NEW l, Goto(w, l)
  PROVE  pc'[w] = l
BY DEF Goto, TypeInv, TypeOK

LEMMA Leaving ==
  ASSUME TypeInv, NEW w \in Workers, Leave(w)
  PROVE  pc'[w] = "idle"
BY DEF Leave, TypeInv, TypeOK

LEMMA SplitStep ==
  ASSUME BackInv, TypeInv', NEW w \in Workers, Split(w)  PROVE BackInv'
<1> DEFINE g == deposit[on[w]]
<1>1. pc[w] = "split" /\ Work(w)
  BY DEF Split, Work
<1>2. PICK x \in Payments : x = on[w]
  BY <1>1, AtPayment DEF BackInv
<1>3. state[x] = "confirmed" /\ mode # "twoHop" /\ Quiet(x)
  <2>1. state[x] = "confirmed" /\ mode # "twoHop"
    BY <1>1, <1>2 DEF BackInv, WorkerInv, DirectInv, Direct
  <2> QED  BY <1>1, <1>2, <2>1, QuietHere DEF Sending
<1>4. Same(x) /\ UNCHANGED <<mode, job, on>>
  BY DEF Split, Same, bookVars, moneyVars
<1>5. WorkerInv(w)'
  <2>1. CASE Fee[g] < g /\ Goto(w, "plan")
             /\ mem' = [mem EXCEPT ![w].gross = g, ![w].net = g - Fee[g], ![w].fee = Fee[g]]
    <3>1. pc'[w] = "plan"
      BY <2>1, Going DEF BackInv
    <3>2. g \in Nat /\ Fee[g] \in Nat /\ g = deposit[x]
      BY <1>1, <1>2, AtPayment, SettlementAssumption DEF BackInv
    <3>3. mem'[w].gross = g /\ mem'[w].net = g - Fee[g] /\ mem'[w].fee = Fee[g]
      <4>1. mem[w] \in Mems /\ mem \in [Workers -> Mems]
        BY DEF BackInv, TypeInv, TypeOK
      <4> QED  BY <2>1, <4>1 DEF Mems
    <3>4. /\ g <= Arrived(x) /\ (Paid[x] <= g \/ Paid[x] <= central[x])
      <4>1. PaymentInv(x)
        BY DEF BackInv
      <4> QED  BY <1>3, <3>2, <4>1, NumbersTyped DEF BackInv, PaymentInv, Quiet, Arrived
    <3>5. Arrived(x)' = Arrived(x) /\ central'[x] = central[x] /\ on'[w] = x /\ state'[x] = state[x]
          /\ mode' = mode
      BY <1>2, <1>4 DEF Same, Arrived
    <3> HIDE DEF g
    <3>6. SplitInv(w)'
      BY <2>1, <3>2, <3>3, <3>4, <3>5 DEF SplitInv
    <3> QED
      BY <1>3, <3>1, <3>5, <3>6 DEF WorkerInv, SweepInv, DirectInv, Direct, Sending
  <2>2. CASE Goto(w, "sweep")
    <3>1. pc'[w] = "sweep"
      BY <2>2, Going DEF BackInv
    <3> QED  BY <3>1 DEF WorkerInv, SweepInv, DirectInv, Direct, Sending
  <2> QED  BY <2>1, <2>2 DEF Split
<1> QED  BY <1>1, <1>2, <1>3, <1>4, <1>5, StillStep

\* While nothing has reached the merchant or the settlement address, no leg
\* has been sent.
LEMMA NotUnderway ==
  ASSUME BackInv, NEW w \in Workers, NEW x \in Payments, on[w] = x, pc[w] # "idle",
         state[x] = "confirmed", ~ Underway(x)
  PROVE  Quiet(x)
<1>1. CASE pc[w] \notin Sending
  BY <1>1, QuietHere
<1>2. CASE pc[w] \in Sending
  <2>1. merchant[x] = 0 /\ middle[x] = 0
    BY NumbersTyped DEF Underway, BackInv
  <2>2. SplitInv(w) /\ TodoInv(w) /\ LegsInv(w)
    BY <1>2 DEF BackInv, WorkerInv, DirectInv
  <2>3. mem[w].net \in Nat /\ mem[w].fee \in Nat
    BY AtPayment DEF BackInv
  <2>4. "net" \in Unsent(w)
    BY <2>1, <2>2, <2>3 DEF LegsInv, SplitInv
  <2>5. Owed(w) \in Int /\ Owed(w) > 0
    BY <2>2, <2>3, <2>4 DEF Owed, SplitInv
  <2>6. ~ Hopped(w)
    BY <2>1, <2>2, <2>5 DEF LegsInv
  <2> QED  BY <2>2, <2>4, <2>6 DEF LegsInv
<1> QED  BY <1>1, <1>2

\* Before any leg is sent, the worker may still turn to the two-hop sweep.
LEMMA FallBackStep ==
  ASSUME BackInv, TypeInv', NoTear, NEW w \in Workers, Decline(w) \/ DeferGas(w)
  PROVE  BackInv'
<1>1. pc[w] \in {"split", "check"} /\ Work(w) /\ Goto(w, "sweep")
  BY DEF Decline, DeferGas, Work
<1>2. PICK x \in Payments : x = on[w]
  BY <1>1, AtPayment DEF BackInv
<1>3. Same(x) /\ UNCHANGED <<mode, job, on>>
  BY DEF Decline, DeferGas, Same, bookVars, moneyVars
<1>4. state[x] = "confirmed"
  BY <1>1, <1>2 DEF BackInv, WorkerInv, DirectInv, Direct
<1>5. Quiet(x)
  <2>1. CASE pc[w] = "split"
    BY <1>2, <1>4, <2>1, QuietHere DEF Sending
  <2>2. CASE pc[w] = "check"
    <3>1. ~ Underway(x)
      BY <1>2, <2>2 DEF Decline, DeferGas, Fault, NoTear
    <3> QED  BY <1>1, <1>2, <1>4, <3>1, NotUnderway
  <2> QED  BY <1>1, <2>1, <2>2
<1>6. WorkerInv(w)'
  <2>1. pc'[w] = "sweep"
    BY <1>1, Going DEF BackInv
  <2> QED  BY <2>1 DEF WorkerInv, SweepInv, DirectInv, Direct, Sending
<1> QED  BY <1>1, <1>2, <1>3, <1>5, <1>6, StillStep

\* With nothing sent, all the legs of the split are to do.
LEMMA PlanStep ==
  ASSUME BackInv, TypeInv', NEW w \in Workers, Plan(w)  PROVE BackInv'
<1> DEFINE legs == {"net"} \cup (IF mem[w].fee > 0 THEN {"fee"} ELSE {})
                           \cup (IF mode = "intermediate" THEN {"hop"} ELSE {})
<1>1. pc[w] = "plan" /\ Work(w)
  BY DEF Plan, Work
<1>2. PICK x \in Payments : x = on[w]
  BY <1>1, AtPayment DEF BackInv
<1>3. state[x] = "confirmed" /\ mode # "twoHop" /\ SplitInv(w)
  BY <1>1, <1>2 DEF BackInv, WorkerInv, DirectInv, Direct
<1>4. Quiet(x)
  BY <1>1, <1>2, <1>3, QuietHere DEF Sending
<1>5. legs \ ledger[x] = legs
  BY <1>4 DEF Quiet, Legs
<1>6. Same(x) /\ UNCHANGED <<mode, job, on>>
  BY DEF Plan, Same, bookVars, moneyVars
<1>7. mem' = [mem EXCEPT ![w].todo = legs] /\ pc'[w] = "check"
  <2>1. legs # {} /\ mem' = [mem EXCEPT ![w].todo = legs] /\ Goto(w, "check")
    BY <1>2, <1>5 DEF Plan
  <2> QED  BY <2>1, Going DEF BackInv
<1>8. /\ mem'[w].todo = legs /\ mem'[w].net = mem[w].net /\ mem'[w].fee = mem[w].fee
      /\ mem'[w].gross = mem[w].gross
  <2>1. mem[w] \in Mems /\ mem \in [Workers -> Mems]
    BY DEF BackInv, TypeInv, TypeOK
  <2> QED  BY <1>7, <2>1 DEF Mems
<1>9. mem[w].net \in Nat /\ mem[w].fee \in Nat /\ central[x] \in Nat
  BY <1>1, <1>2, AtPayment DEF BackInv
<1>10. SplitInv(w)'
  BY <1>2, <1>3, <1>6, <1>8 DEF SplitInv, Arrived, Same
<1>11. TodoInv(w)'
  BY <1>6, <1>7, <1>8 DEF TodoInv
<1>12. LegsInv(w)'
  <2>1. Unsent(w)' = legs
    BY <1>7, <1>8 DEF Unsent
  <2>2. ~ Hopped(w)'
    BY <1>6, <2>1 DEF Hopped
  <2>3. on'[w] = x /\ Quiet(x)' /\ merchant'[x] = 0 /\ middle'[x] = 0 /\ central'[x] = central[x]
    BY <1>2, <1>4, <1>6 DEF Quiet, Same
  <2>4. "net" \in legs /\ ("fee" \notin legs => mem[w].fee <= central[x])
    BY <1>9
  <2> HIDE DEF legs
  <2> QED  BY <1>7, <1>8, <2>1, <2>2, <2>3, <2>4 DEF LegsInv
<1>13. WorkerInv(w)'
  BY <1>2, <1>3, <1>6, <1>7, <1>10, <1>11, <1>12
     DEF WorkerInv, SweepInv, DirectInv, Direct, Sending, Same
<1> QED  BY <1>1, <1>2, <1>4, <1>6, <1>13, StillStep

\* The numbers of a worker that is sending.
LEMMA AtLegs ==
  ASSUME BackInv, NEW w \in Workers, NEW x \in Payments, x = on[w], pc[w] \in Sending
  PROVE  /\ mode # "twoHop" /\ state[x] = "confirmed"
         /\ SplitInv(w) /\ TodoInv(w) /\ LegsInv(w)
         /\ mem[w].net \in Nat /\ mem[w].fee \in Nat /\ mem[w].gross \in Nat /\ mem[w].moved \in Nat
         /\ mem[w].todo \subseteq Legs /\ Owed(w) \in Nat
         /\ deposit[x] \in Nat /\ middle[x] \in Nat /\ central[x] \in Nat /\ merchant[x] \in Nat
<1>1. pc[w] # "idle" /\ pc[w] \in Direct
  BY DEF Sending, Direct
<1>2. mem[w].net \in Nat /\ mem[w].fee \in Nat
  BY <1>1, AtPayment DEF BackInv
<1>3. Owed(w) \in Nat
  BY <1>2 DEF Owed
<1>4. /\ mode # "twoHop" /\ state[x] = "confirmed"
      /\ SplitInv(w) /\ TodoInv(w) /\ LegsInv(w)
  BY <1>1 DEF BackInv, WorkerInv, DirectInv
<1>5. /\ mem[w].gross \in Nat /\ mem[w].moved \in Nat /\ mem[w].todo \subseteq Legs
  BY <1>1, AtPayment, SettlementAssumption DEF BackInv
<1>6. deposit[x] \in Nat /\ middle[x] \in Nat /\ central[x] \in Nat /\ merchant[x] \in Nat
  BY NumbersTyped DEF BackInv
<1> QED  BY <1>2, <1>3, <1>4, <1>5, <1>6

\* Once hopped, the check does not fail: only before it may the sweep take over.
LEMMA CheckBalanceStep ==
  ASSUME BackInv, TypeInv', NEW w \in Workers, CheckBalance(w)  PROVE BackInv'
<1>1. pc[w] = "check" /\ pc[w] \in Sending /\ Work(w)
  BY DEF CheckBalance, Work, Sending
<1>2. PICK x \in Payments : x = on[w]
  BY <1>1, AtPayment DEF BackInv
<1>3. /\ mode # "twoHop" /\ state[x] = "confirmed"
      /\ SplitInv(w) /\ TodoInv(w) /\ LegsInv(w)
      /\ mem[w].net \in Nat /\ mem[w].fee \in Nat /\ mem[w].gross \in Nat
      /\ mem[w].todo \subseteq Legs /\ Owed(w) \in Nat
      /\ deposit[x] \in Nat /\ middle[x] \in Nat
  BY <1>1, <1>2, AtLegs
<1>4. Same(x) /\ UNCHANGED <<mode, job, on>>
  BY DEF CheckBalance, Same, bookVars, moneyVars
<1>5. Unsent(w) = mem[w].todo /\ "net" \in mem[w].todo
  BY <1>1, <1>3 DEF Unsent, TodoInv
<1>6. Required(w) \in Nat /\ Owed(w) <= Required(w)
        /\ ("hop" \notin mem[w].todo => Owed(w) = Required(w))
  BY <1>3, <1>5 DEF Required, Owed
<1>7. CASE Source(w) >= Required(w)
  <2>1. mem' = [mem EXCEPT ![w].moved = Source(w)] /\ pc'[w] = "transfer"
    BY <1>7, Going DEF CheckBalance, BackInv
  <2>2. /\ mem'[w].moved = Source(w) /\ mem'[w].todo = mem[w].todo /\ mem'[w].net = mem[w].net
        /\ mem'[w].fee = mem[w].fee /\ mem'[w].gross = mem[w].gross
    <3>1. mem[w] \in Mems /\ mem \in [Workers -> Mems]
      BY DEF BackInv, TypeInv, TypeOK
    <3> QED  BY <2>1, <3>1 DEF Mems
  <2>3. SplitInv(w)'
    BY <1>2, <1>3, <1>4, <2>2 DEF SplitInv, Arrived, Same
  <2>4. TodoInv(w)'
    BY <1>3, <1>4, <1>5, <2>1, <2>2 DEF TodoInv
  <2>5. Unsent(w)' = Unsent(w) /\ Owed(w)' = Owed(w) /\ Hopped(w)' = Hopped(w)
    <3>1. Unsent(w)' = Unsent(w)
      BY <1>5, <2>1, <2>2 DEF Unsent
    <3> QED  BY <1>4, <2>2, <3>1 DEF Owed, Hopped
  <2>6. Source(w) \in Nat /\ ("hop" \in mem[w].todo \/ mode = "direct" => Source(w) = deposit[x])
    BY <1>2, <1>3 DEF Source
  <2>7. LegsInv(w)'
    <3>1. Quiet(x)' = Quiet(x) /\ on'[w] = x /\ merchant'[x] = merchant[x]
          /\ central'[x] = central[x] /\ middle'[x] = middle[x] /\ deposit'[x] = deposit[x]
      BY <1>2, <1>4 DEF Same, Quiet
    <3>2. "hop" \in mem[w].todo \/ mode = "direct" =>
            Owed(w) <= Source(w) /\ Source(w) <= deposit[x]
      BY <1>3, <1>6, <1>7, <2>6
    <3>3. /\ merchant[x] = IF "net" \in Unsent(w) THEN 0 ELSE mem[w].net
          /\ "fee" \notin Unsent(w) => mem[w].fee <= central[x]
          /\ IF Hopped(w) THEN Owed(w) <= middle[x] ELSE middle[x] = 0
          /\ "net" \in Unsent(w) /\ ~Hopped(w) => Quiet(x)
      BY <1>2, <1>3 DEF LegsInv
    <3>4. /\ merchant'[x] = IF "net" \in Unsent(w)' THEN 0 ELSE mem'[w].net
          /\ "fee" \notin Unsent(w)' => mem'[w].fee <= central'[x]
          /\ IF Hopped(w)' THEN Owed(w)' <= middle'[x] ELSE middle'[x] = 0
          /\ "net" \in Unsent(w)' /\ ~Hopped(w)' => Quiet(x)'
      BY <2>2, <2>5, <3>1, <3>3
    <3>5. /\ "hop" \in mem'[w].todo => Owed(w)' <= mem'[w].moved /\ mem'[w].moved <= deposit'[x]
          /\ mode' = "direct" => Owed(w)' <= deposit'[x]
      BY <1>3, <1>4, <2>2, <2>5, <2>6, <3>1, <3>2
    <3> QED  BY <2>1, <3>1, <3>4, <3>5 DEF LegsInv
  <2>8. WorkerInv(w)' /\ on'[w] = x /\ pc'[w] \in Sending
    BY <1>2, <1>3, <1>4, <2>1, <2>3, <2>4, <2>7
       DEF WorkerInv, SweepInv, DirectInv, Direct, Sending, Same
  <2> QED  BY <1>1, <1>2, <1>4, <2>8, StillStep
<1>8. CASE ~ (Source(w) >= Required(w))
  <2>1. pc'[w] = "sweep"
    BY <1>8, Going DEF CheckBalance, BackInv
  <2>2. ~ Hopped(w)
    <3>1. ASSUME Hopped(w)
          PROVE  Source(w) = middle[x] /\ Owed(w) <= middle[x] /\ Owed(w) = Required(w)
      BY <1>2, <1>3, <1>5, <1>6, <3>1 DEF Hopped, Source, LegsInv
    <3> QED  BY <1>3, <1>6, <1>8, <3>1
  <2>3. Quiet(x)
    BY <1>2, <1>3, <1>5, <2>2 DEF LegsInv
  <2>4. WorkerInv(w)'
    BY <2>1 DEF WorkerInv, SweepInv, DirectInv, Direct, Sending
  <2> QED  BY <1>1, <1>2, <1>4, <2>3, <2>4, StillStep
<1> QED  BY <1>7, <1>8

\* A leg moves what is owed for it, and leaves what the others need.
LEMMA TransferLegStep ==
  ASSUME BackInv, TypeInv', NEW w \in Workers, TransferLeg(w)  PROVE BackInv'
<1> DEFINE l == NextLeg(w)
           a == Amount(w, l)
           m == mem[w]
<1>1. pc[w] = "transfer" /\ pc[w] \in Sending /\ Work(w)
  BY DEF TransferLeg, Work, Sending
<1>2. PICK x \in Payments : x = on[w]
  BY <1>1, AtPayment DEF BackInv
<1>3. /\ mode # "twoHop" /\ state[x] = "confirmed"
      /\ SplitInv(w) /\ TodoInv(w) /\ LegsInv(w)
      /\ m.net \in Nat /\ m.fee \in Nat /\ m.gross \in Nat /\ m.moved \in Nat
      /\ m.todo \subseteq Legs /\ Owed(w) \in Nat
      /\ deposit[x] \in Nat /\ middle[x] \in Nat /\ central[x] \in Nat /\ merchant[x] \in Nat
  BY <1>1, <1>2, AtLegs
<1>4. pc'[w] = "record" /\ UNCHANGED <<mode, job, on, mem, state, credited, ledger>>
  BY Going DEF TransferLeg, BackInv, bookVars
<1>5. mode \in {"direct", "intermediate"}
  BY <1>3 DEF BackInv, TypeInv, TypeOK, AllModes
<1>6. Unsent(w) = m.todo /\ Unsent(w)' = m.todo \ {l} /\ m.todo # {} /\ l \in {"hop", "net", "fee"}
  <2>1. NextLeg(w)' = NextLeg(w)
    BY <1>4 DEF NextLeg
  <2> QED  BY <1>1, <1>3, <1>4, <2>1 DEF Unsent, TodoInv, NextLeg
<1>7. l \in m.todo
  BY <1>3, <1>6 DEF NextLeg, Legs
<1>8. /\ (l = "hop") => mode = "intermediate" /\ "net" \in m.todo
      /\ (l = "net") => "hop" \notin m.todo
      /\ (l = "fee") => "hop" \notin m.todo /\ "net" \notin m.todo
      /\ "net" \in m.todo /\ m.fee > 0 => "fee" \in m.todo
  BY <1>3, <1>7 DEF NextLeg, TodoInv
\* What moves, and from where.
<1>9. /\ a = (IF l = "hop" THEN m.moved ELSE IF l = "net" THEN m.net ELSE m.fee)
      /\ a \in Nat
  BY <1>3, <1>6 DEF Amount
<1>10. /\ deposit'[x] = IF mode = "direct" \/ l = "hop" THEN deposit[x] - a ELSE deposit[x]
       /\ middle'[x] = IF l = "hop" THEN middle[x] + a
                       ELSE IF mode = "direct" THEN middle[x] ELSE middle[x] - a
       /\ merchant'[x] = IF l = "net" THEN merchant[x] + a ELSE merchant[x]
       /\ central'[x] = IF l = "fee" THEN central[x] + a ELSE central[x]
  <2>1. /\ IF mode = "intermediate" /\ l # "hop"
             THEN middle' = [middle EXCEPT ![x] = @ - a] /\ UNCHANGED deposit
             ELSE /\ deposit' = [deposit EXCEPT ![x] = @ - a]
                  /\ middle' = IF l = "hop" THEN [middle EXCEPT ![x] = @ + a] ELSE middle
        /\ merchant' = IF l = "net" THEN [merchant EXCEPT ![x] = @ + a] ELSE merchant
        /\ central' = IF l = "fee" THEN [central EXCEPT ![x] = @ + a] ELSE central
    BY <1>2 DEF TransferLeg
  <2>2. /\ deposit \in [Payments -> Nat] /\ middle \in [Payments -> Nat]
        /\ merchant \in [Payments -> Nat] /\ central \in [Payments -> Nat]
    BY DEF BackInv, TypeInv, TypeOK
  <2> HIDE DEF l, a
  <2> QED  BY <1>5, <1>8, <2>1, <2>2
\* What is owed after it.
<1>11. /\ Owed(w) = (IF "net" \in m.todo THEN m.net ELSE 0) + (IF "fee" \in m.todo THEN m.fee ELSE 0)
       /\ Owed(w)' = (IF "net" \in m.todo \ {l} THEN m.net ELSE 0)
                       + (IF "fee" \in m.todo \ {l} THEN m.fee ELSE 0)
       /\ Owed(w)' = IF l = "hop" THEN Owed(w) ELSE Owed(w) - a
  <2>1. Owed(w) = (IF "net" \in m.todo THEN m.net ELSE 0) + (IF "fee" \in m.todo THEN m.fee ELSE 0)
    BY <1>6 DEF Owed
  <2>2. Owed(w)' = (IF "net" \in m.todo \ {l} THEN m.net ELSE 0)
                       + (IF "fee" \in m.todo \ {l} THEN m.fee ELSE 0)
    BY <1>4, <1>6 DEF Owed
  <2> HIDE DEF l, a, m
  <2> QED  BY <1>3, <1>6, <1>7, <1>8, <1>9, <2>1, <2>2
<1>12. /\ Hopped(w) <=> mode = "intermediate" /\ "hop" \notin m.todo
       /\ Hopped(w)' <=> mode = "intermediate" /\ "hop" \notin m.todo \ {l}
  BY <1>4, <1>6 DEF Hopped
<1>13. /\ merchant[x] = IF "net" \in m.todo THEN 0 ELSE m.net
       /\ "fee" \notin m.todo => m.fee <= central[x]
       /\ IF Hopped(w) THEN Owed(w) <= middle[x] ELSE middle[x] = 0
       /\ "hop" \in m.todo => Owed(w) <= m.moved
       /\ mode = "direct" => Owed(w) <= deposit[x]
  BY <1>1, <1>2, <1>3, <1>6 DEF LegsInv
<1>14. /\ merchant'[x] = IF "net" \in m.todo \ {l} THEN 0 ELSE m.net
       /\ "fee" \notin m.todo \ {l} => m.fee <= central'[x]
       /\ IF Hopped(w)' THEN Owed(w)' <= middle'[x] ELSE middle'[x] = 0
       /\ mode = "direct" => Owed(w)' <= deposit'[x]
       /\ "net" \in m.todo \ {l} => Hopped(w)'
       /\ central[x] <= central'[x] /\ merchant[x] <= merchant'[x]
  <2> HIDE DEF l, a, m
  <2>1. CASE l = "hop"
    BY <1>3, <1>7, <1>8, <1>9, <1>10, <1>11, <1>12, <1>13, <2>1
  <2>2. CASE l = "net"
    BY <1>3, <1>5, <1>7, <1>8, <1>9, <1>10, <1>11, <1>12, <1>13, <2>2
  <2>3. CASE l = "fee"
    BY <1>3, <1>5, <1>7, <1>8, <1>9, <1>10, <1>11, <1>12, <1>13, <2>3
  <2> QED  BY <1>6, <2>1, <2>2, <2>3
<1>15. Arrived(x)' = Arrived(x)
  <2> HIDE DEF l, a, m
  <2>1. CASE l = "hop"
    BY <1>3, <1>9, <1>10, <2>1 DEF Arrived
  <2>2. CASE l = "net"
    BY <1>3, <1>5, <1>9, <1>10, <2>2 DEF Arrived
  <2>3. CASE l = "fee"
    BY <1>3, <1>5, <1>9, <1>10, <2>3 DEF Arrived
  <2> QED  BY <1>6, <2>1, <2>2, <2>3
<1>16. Paid[x] \in Nat /\ PaymentInv(x) /\ credited[x] \in Nat
  BY NumbersTyped DEF BackInv
<1>17. on'[w] = x /\ mem'[w] = m
  BY <1>2, <1>4
<1>18. SplitInv(w)'
  <2>1. central'[x] \in Nat
    BY DEF TypeInv, TypeOK
  <2>2. Paid[x] <= central[x] => Paid[x] <= central'[x]
    BY <1>3, <1>14, <1>16, <2>1
  <2> QED  BY <1>2, <1>3, <1>15, <1>17, <2>2 DEF SplitInv
<1>19. TodoInv(w)'
  BY <1>1, <1>3, <1>4, <1>6, <1>17 DEF TodoInv
<1>20. LegsInv(w)'
  BY <1>4, <1>6, <1>14, <1>17 DEF LegsInv
<1>21. WorkerInv(w)' /\ pc'[w] \in Sending
  BY <1>3, <1>4, <1>17, <1>18, <1>19, <1>20 DEF WorkerInv, SweepInv, DirectInv, Direct, Sending
<1>22. PaymentInv(x)'
  <2>1. central'[x] \in Nat /\ merchant'[x] \in Nat
    BY DEF TypeInv, TypeOK
  <2>2. Cleared(x) => Cleared(x)'
    BY <1>3, <1>14, <1>16, <2>1 DEF Cleared
  <2>3. credited[x] <= central[x] => credited[x] <= central'[x]
    BY <1>3, <1>14, <1>16, <2>1
  <2> QED  BY <1>3, <1>4, <1>15, <1>16, <1>17, <1>21, <2>2, <2>3 DEF PaymentInv
<1>23. OnlyAt(w, x)
  BY <1>1, <1>2, LocalStep
<1> QED  BY <1>1, <1>2, <1>4, <1>14, <1>17, <1>21, <1>22, <1>23, OwnStep

\* The row of a leg: what is left to send is left to do.
LEMMA RecordLegStep ==
  ASSUME BackInv, TypeInv', NEW w \in Workers, RecordLeg(w)  PROVE BackInv'
<1> DEFINE l == NextLeg(w)
           m == mem[w]
           rest == m.todo \ {l}
<1>1. pc[w] = "record" /\ pc[w] \in Sending /\ Work(w)
  BY DEF RecordLeg, Work, Sending
<1>2. PICK x \in Payments : x = on[w]
  BY <1>1, AtPayment DEF BackInv
<1>3. /\ mode # "twoHop" /\ state[x] = "confirmed"
      /\ SplitInv(w) /\ TodoInv(w) /\ LegsInv(w)
      /\ m.todo \subseteq Legs /\ Owed(w) \in Nat
      /\ deposit[x] \in Nat /\ central[x] \in Nat /\ merchant[x] \in Nat
  BY <1>1, <1>2, AtLegs
<1>4. /\ mem' = [mem EXCEPT ![w].todo = rest]
      /\ pc'[w] = IF rest = {} THEN "book" ELSE IF l = "hop" THEN "check" ELSE "transfer"
      /\ ledger' = [ledger EXCEPT ![x] = @ \cup {l}]
      /\ UNCHANGED <<mode, state, credited, job, on, moneyVars>>
  BY <1>2, Going DEF RecordLeg, BackInv
<1>5. /\ mem'[w].todo = rest /\ mem'[w].net = m.net /\ mem'[w].fee = m.fee
      /\ mem'[w].gross = m.gross /\ mem'[w].moved = m.moved
  <2>1. mem[w] \in Mems /\ mem \in [Workers -> Mems]
    BY DEF BackInv, TypeInv, TypeOK
  <2> QED  BY <1>4, <2>1 DEF Mems
<1>6. Unsent(w) = rest /\ Unsent(w)' = rest /\ l \in m.todo /\ l \in Legs
  <2>1. Unsent(w) = rest
    BY <1>1 DEF Unsent
  <2>2. Unsent(w)' = rest
    BY <1>4, <1>5 DEF Unsent
  <2>3. l \in m.todo
    BY <1>1, <1>3 DEF NextLeg, TodoInv, Legs
  <2> QED  BY <1>3, <2>1, <2>2, <2>3
<1>7. /\ l = "hop" <=> "hop" \in m.todo
      /\ l = "fee" => "net" \notin m.todo
      /\ l = "hop" => "net" \in rest /\ mode = "intermediate"
      /\ "net" \in rest => l = "hop"
  BY <1>3, <1>6 DEF NextLeg, TodoInv, Legs
<1>8. Owed(w)' = Owed(w) /\ Hopped(w)' = Hopped(w)
  BY <1>4, <1>5, <1>6 DEF Owed, Hopped
<1>9. on'[w] = x /\ merchant'[x] = merchant[x] /\ middle'[x] = middle[x]
        /\ central'[x] = central[x] /\ deposit'[x] = deposit[x] /\ Arrived(x)' = Arrived(x)
  BY <1>2, <1>4 DEF moneyVars, Arrived
<1>10. SplitInv(w)'
  BY <1>2, <1>3, <1>5, <1>9 DEF SplitInv
<1>11. TodoInv(w)'
  <2>1. /\ "hop" \notin rest /\ ("net" \in rest /\ m.fee > 0 => "fee" \in rest)
        /\ (pc'[w] = "check" => "net" \in rest)
        /\ (pc'[w] = "transfer" => rest # {}) /\ (pc'[w] = "book" => rest = {})
        /\ pc'[w] \in {"book", "check", "transfer"}
    BY <1>3, <1>4, <1>7 DEF TodoInv
  <2> QED  BY <1>5, <2>1 DEF TodoInv
<1>12. LegsInv(w)'
  <2>1. /\ merchant[x] = IF "net" \in rest THEN 0 ELSE m.net
        /\ "fee" \notin rest => m.fee <= central[x]
        /\ IF Hopped(w) THEN Owed(w) <= middle[x] ELSE middle[x] = 0
        /\ mode = "direct" => Owed(w) <= deposit[x]
    BY <1>1, <1>2, <1>3, <1>6 DEF LegsInv
  <2>2. "net" \in rest => Hopped(w)
    BY <1>6, <1>7 DEF Hopped
  <2>3. "hop" \notin rest
    BY <1>7
  <2> HIDE DEF rest
  <2> QED  BY <1>4, <1>5, <1>6, <1>8, <1>9, <2>1, <2>2, <2>3 DEF LegsInv
<1>13. WorkerInv(w)' /\ pc'[w] \in Sending
  BY <1>3, <1>4, <1>9, <1>10, <1>11, <1>12 DEF WorkerInv, SweepInv, DirectInv, Direct, Sending
<1>14. PaymentInv(x)'
  <2>1. "sweep" \in ledger'[x] => "sweep" \in ledger[x]
    BY <1>4, <1>6 DEF Legs, BackInv, TypeInv, TypeOK
  <2>2. Cleared(x)' = Cleared(x)
    BY <1>9 DEF Cleared
  <2> QED  BY <1>4, <1>9, <1>13, <2>1, <2>2 DEF PaymentInv, BackInv
<1>15. OnlyAt(w, x)
  BY <1>1, <1>2, LocalStep
<1> QED  BY <1>1, <1>2, <1>3, <1>4, <1>9, <1>13, <1>14, <1>15, OwnStep

LEMMA BookDirectStep ==
  ASSUME BackInv, TypeInv', NEW w \in Workers, BookDirect(w)  PROVE BackInv'
<1>1. pc[w] = "book" /\ pc[w] \in Sending /\ Work(w)
  BY DEF BookDirect, Work, Sending
<1>2. PICK x \in Payments : x = on[w]
  BY <1>1, AtPayment DEF BackInv
<1>3. /\ mode # "twoHop" /\ state[x] = "confirmed"
      /\ SplitInv(w) /\ TodoInv(w) /\ LegsInv(w)
  BY <1>1, <1>2, AtLegs
<1>4. /\ Same(x) /\ UNCHANGED <<mode, job, on, mem>> /\ pc'[w] = "mark"
  BY Going DEF BookDirect, Same, moneyVars, BackInv
<1>5. Unsent(w)' = Unsent(w) /\ Owed(w)' = Owed(w) /\ Hopped(w)' = Hopped(w)
  BY <1>1, <1>4 DEF Unsent, Owed, Hopped
<1>6. SplitInv(w)' /\ TodoInv(w)'
  BY <1>1, <1>2, <1>3, <1>4 DEF SplitInv, TodoInv, Same, Arrived
<1>7. LegsInv(w)'
  BY <1>1, <1>2, <1>3, <1>4, <1>5 DEF LegsInv, Same, Quiet
<1>8. WorkerInv(w)' /\ pc'[w] \in Sending
  BY <1>2, <1>3, <1>4, <1>6, <1>7 DEF WorkerInv, SweepInv, DirectInv, Direct, Sending, Same
<1> QED  BY <1>1, <1>2, <1>4, <1>8, StillStep

\* With all legs sent, the split is with the merchant and the central wallet.
LEMMA MarkSettledStep ==
  ASSUME BackInv, TypeInv', NEW w \in Workers, MarkSettled(w)  PROVE BackInv'
<1>1. pc[w] = "mark" /\ pc[w] \in Sending /\ Work(w)
  BY DEF MarkSettled, Work, Sending
<1>2. PICK x \in Payments : x = on[w]
  BY <1>1, AtPayment DEF BackInv
<1>3. /\ state[x] = "confirmed" /\ SplitInv(w) /\ TodoInv(w) /\ LegsInv(w)
      /\ mem[w].net \in Nat /\ mem[w].fee \in Nat /\ mem[w].gross \in Nat
      /\ central[x] \in Nat /\ merchant[x] \in Nat
  BY <1>1, <1>2, AtLegs
<1>4. /\ state' = [state EXCEPT ![x] = "swept"] /\ pc'[w] = "idle"
      /\ UNCHANGED <<mode, credited, ledger, moneyVars>>
  BY <1>2, <1>3, Leaving DEF MarkSettled, BackInv
<1>5. Cleared(x)
  <2>1. mem[w].todo = {} /\ Unsent(w) = {}
    BY <1>1, <1>3 DEF TodoInv, Unsent
  <2>2. merchant[x] = mem[w].net /\ mem[w].fee <= central[x]
    BY <1>2, <1>3, <2>1 DEF LegsInv
  <2>3. Paid[x] \in Nat
    BY NumbersTyped DEF BackInv
  <2> QED  BY <1>2, <1>3, <2>2, <2>3 DEF SplitInv, Cleared
<1>6. PaymentInv(x)'
  <2>1. PaymentInv(x) /\ state'[x] = "swept"
    BY <1>4 DEF BackInv, TypeInv, TypeOK
  <2> QED  BY <1>4, <1>5, <2>1 DEF PaymentInv, Cleared, Arrived, moneyVars
<1>7. OnlyAt(w, x)
  BY <1>1, <1>2, LocalStep
<1>8. central[x] <= central'[x] /\ merchant[x] <= merchant'[x]
  BY <1>3, <1>4 DEF moneyVars
<1> QED  BY <1>1, <1>2, <1>3, <1>4, <1>6, <1>7, <1>8, OwnStep

\* What a sweep finds is all that was paid, unless a sweep took that before.
LEMMA ReadBalanceStep ==
  ASSUME BackInv, TypeInv', NEW w \in Workers, ReadBalance(w)  PROVE BackInv'
<1>1. pc[w] = "sweep" /\ pc[w] \notin Sending /\ Work(w)
  BY DEF ReadBalance, Work, Sending
<1>2. PICK x \in Payments : x = on[w]
  BY <1>1, AtPayment DEF BackInv
<1>3. state[x] = "confirmed" => Quiet(x)
  BY <1>1, <1>2, QuietHere
<1>4. Same(x) /\ UNCHANGED <<mode, job, on>>
  BY DEF ReadBalance, Same, bookVars, moneyVars
<1>5. Paid[x] <= deposit[x] \/ Cleared(x)
  <2>1. PaymentInv(x) /\ TypeInv
    BY DEF BackInv
  <2> QED  BY <1>3, <2>1, NumbersTyped DEF PaymentInv, Quiet, Cleared, Arrived
<1>6. WorkerInv(w)'
  <2>1. CASE mem' = [mem EXCEPT ![w].moved = deposit[on[w]]] /\ Goto(w, "move")
    <3>1. mem'[w].moved = deposit[x]
      <4>1. mem[w] \in Mems /\ mem \in [Workers -> Mems]
        BY DEF BackInv, TypeInv, TypeOK
      <4> QED  BY <1>2, <2>1, <4>1 DEF Mems
    <3>2. pc'[w] = "move" /\ on'[w] = x /\ (Cleared(x)' <=> Cleared(x))
      BY <1>2, <1>4, <2>1, Going DEF BackInv, Same, Cleared
    <3> QED  BY <1>5, <3>1, <3>2 DEF WorkerInv, SweepInv, DirectInv, Direct, Sending
  <2>2. CASE Goto(w, "adopt")
    <3>1. pc'[w] = "adopt"
      BY <2>2, Going DEF BackInv
    <3> QED  BY <3>1 DEF WorkerInv, SweepInv, DirectInv, Direct, Sending
  <2> QED  BY <2>1, <2>2 DEF ReadBalance
<1> QED  BY <1>1, <1>2, <1>3, <1>4, <1>6, StillStep

LEMMA MoveBalanceStep ==
  ASSUME BackInv, TypeInv', NEW w \in Workers, MoveBalance(w)  PROVE BackInv'
<1> DEFINE a == mem[w].moved
<1>1. pc[w] = "move" /\ pc[w] \notin Sending /\ Work(w)
  BY DEF MoveBalance, Work, Sending
<1>2. PICK x \in Payments : x = on[w]
  BY <1>1, AtPayment DEF BackInv
<1>3. /\ deposit[x] \in Nat /\ middle[x] \in Nat /\ central[x] \in Nat /\ merchant[x] \in Nat
      /\ credited[x] \in Nat /\ Paid[x] \in Nat /\ a \in Nat
  <2>1. a \in Nat
    BY <1>1, AtPayment DEF BackInv
  <2> QED  BY <2>1, NumbersTyped DEF BackInv
<1>4. /\ deposit'[x] = deposit[x] - a /\ central'[x] = central[x] + a
      /\ pc'[w] = "receipt" /\ on'[w] = x /\ mem'[w].moved = a
      /\ UNCHANGED <<mode, state, credited, ledger, middle, merchant, job>>
  BY <1>2, Going DEF MoveBalance, BackInv, TypeInv, TypeOK, bookVars
<1>5. PaymentInv(x) /\ (Paid[x] <= a \/ Cleared(x)) /\ (state[x] = "confirmed" => Quiet(x))
  BY <1>1, <1>2, QuietHere DEF BackInv, WorkerInv, SweepInv
<1>6. Cleared(x)' /\ a <= central'[x] /\ Arrived(x)' = Arrived(x)
  BY <1>3, <1>4, <1>5 DEF Cleared, Arrived
<1>7. WorkerInv(w)'
  BY <1>4, <1>6 DEF WorkerInv, SweepInv, DirectInv, Direct, Sending
<1>8. PaymentInv(x)'
  <2>1. credited[x] <= central[x] => credited[x] <= central'[x]
    BY <1>3, <1>4
  <2>2. Quiet(x) => Quiet(x)'
    BY <1>3, <1>4, <1>6 DEF Quiet, Cleared
  <2> QED  BY <1>4, <1>5, <1>6, <2>1, <2>2 DEF PaymentInv
<1>9. OnlyAt(w, x)
  BY <1>1, <1>2, LocalStep
<1>10. central[x] <= central'[x] /\ merchant[x] <= merchant'[x]
  BY <1>3, <1>4
<1> QED  BY <1>1, <1>2, <1>4, <1>7, <1>8, <1>9, <1>10, OwnStep

\* What was moved backs the credit, the receipt and the state.
LEMMA ReceiptStep ==
  ASSUME BackInv, TypeInv', NEW w \in Workers,
         RecordSweep(w) \/ CreditExcess(w) \/ CloseSweep(w)
  PROVE  BackInv'
<1>1. pc[w] \in {"receipt", "credit", "close"} /\ Work(w)
  BY DEF RecordSweep, CreditExcess, CloseSweep, Work
<1>2. PICK x \in Payments : x = on[w]
  BY <1>1, AtPayment DEF BackInv
<1>3. /\ mem[w].moved <= central[x] /\ Cleared(x) /\ PaymentInv(x)
  BY <1>1, <1>2 DEF BackInv, WorkerInv, SweepInv
<1>4. state[x] = "confirmed" => Quiet(x)
  BY <1>1, <1>2, QuietHere DEF Sending
<1>5. UNCHANGED <<mode, moneyVars, job, on, mem>>
  BY DEF RecordSweep, CreditExcess, CloseSweep
<1>6. /\ Cleared(x)' /\ Arrived(x)' = Arrived(x) /\ on'[w] = x /\ mem'[w] = mem[w]
      /\ central'[x] = central[x] /\ merchant'[x] = merchant[x] /\ middle'[x] = middle[x]
  BY <1>2, <1>3, <1>5 DEF Cleared, Arrived, moneyVars
<1>7. CASE RecordSweep(w)
  <2>1. /\ ledger'[x] = ledger[x] \cup {"sweep"} /\ UNCHANGED <<state, credited>>
        /\ pc'[w] = "credit"
    BY <1>2, <1>7, Going DEF RecordSweep, BackInv, TypeInv, TypeOK
  <2>2. Quiet(x) => Quiet(x)'
    BY <1>6, <2>1 DEF Quiet, Legs
  <2>3. PaymentInv(x)'
    BY <1>3, <1>4, <1>6, <2>1, <2>2 DEF PaymentInv
  <2>4. WorkerInv(w)'
    BY <1>3, <1>6, <2>1 DEF WorkerInv, SweepInv, DirectInv, Direct, Sending
  <2>5. /\ OnlyAt(w, x) /\ central[x] <= central'[x] /\ merchant[x] <= merchant'[x]
    BY <1>1, <1>2, <1>6, LocalStep, NumbersTyped DEF BackInv
  <2> QED  BY <1>1, <1>2, <1>5, <1>6, <2>1, <2>3, <2>4, <2>5, OwnStep
<1>8. CASE CreditExcess(w)
  <2>1. /\ credited'[x] = credited[x] \/ credited'[x] = mem[w].moved
        /\ UNCHANGED <<state, ledger>> /\ pc'[w] = "close"
    BY <1>2, <1>8, Going DEF CreditExcess, BackInv, TypeInv, TypeOK
  <2>2. Quiet(x) => Quiet(x)'
    BY <1>6, <2>1 DEF Quiet
  <2>3. PaymentInv(x)'
    BY <1>3, <1>4, <1>6, <2>1, <2>2 DEF PaymentInv
  <2>4. WorkerInv(w)'
    BY <1>3, <1>6, <2>1 DEF WorkerInv, SweepInv, DirectInv, Direct, Sending
  <2>5. /\ OnlyAt(w, x) /\ central[x] <= central'[x] /\ merchant[x] <= merchant'[x]
    BY <1>1, <1>2, <1>6, LocalStep, NumbersTyped DEF BackInv
  <2> QED  BY <1>1, <1>2, <1>5, <1>6, <2>1, <2>3, <2>4, <2>5, OwnStep
<1>9. CASE CloseSweep(w)
  <2>1. /\ state'[x] = "swept" /\ UNCHANGED <<credited, ledger>> /\ pc'[w] = "pay"
    BY <1>2, <1>9, Going DEF CloseSweep, BackInv, TypeInv, TypeOK
  <2>2. PaymentInv(x)'
    BY <1>3, <1>6, <2>1 DEF PaymentInv
  <2>3. WorkerInv(w)'
    BY <1>3, <1>6, <2>1 DEF WorkerInv, SweepInv, DirectInv, Direct, Sending
  <2>4. /\ OnlyAt(w, x) /\ central[x] <= central'[x] /\ merchant[x] <= merchant'[x]
    BY <1>1, <1>2, <1>6, LocalStep, NumbersTyped DEF BackInv
  <2> QED  BY <1>1, <1>2, <1>5, <1>6, <2>1, <2>2, <2>3, <2>4, OwnStep
<1> QED  BY <1>7, <1>8, <1>9

\* A receipt closes the payment that an earlier attempt emptied.
LEMMA AdoptSweepStep ==
  ASSUME BackInv, TypeInv', NEW w \in Workers, AdoptSweep(w)  PROVE BackInv'
<1>1. pc[w] = "adopt" /\ pc[w] \notin Sending /\ Work(w)
  BY DEF AdoptSweep, Work, Sending
<1>2. PICK x \in Payments : x = on[w]
  BY <1>1, AtPayment DEF BackInv
<1>3. /\ state'[x] = (IF "sweep" \in ledger[x] /\ state[x] = "confirmed" THEN "swept" ELSE state[x])
      /\ UNCHANGED <<mode, credited, ledger, moneyVars>> /\ pc'[w] = "idle"
  BY <1>2, Leaving DEF AdoptSweep, BackInv, TypeInv, TypeOK
<1>4. PaymentInv(x) /\ (state[x] = "confirmed" => Quiet(x))
  BY <1>1, <1>2, QuietHere DEF BackInv
<1>5. Quiet(x)' = Quiet(x) /\ Cleared(x)' = Cleared(x) /\ Arrived(x)' = Arrived(x)
        /\ central'[x] = central[x] /\ merchant'[x] = merchant[x]
  BY <1>3 DEF Quiet, Cleared, Arrived, moneyVars
<1>6. PaymentInv(x)'
  BY <1>3, <1>4, <1>5 DEF PaymentInv
<1>7. /\ OnlyAt(w, x) /\ central[x] <= central'[x] /\ merchant[x] <= merchant'[x]
      /\ (state[x] = "swept" => state'[x] = "swept")
  BY <1>1, <1>2, <1>3, <1>5, LocalStep, NumbersTyped DEF BackInv
<1> QED  BY <1>1, <1>2, <1>3, <1>6, <1>7, OwnStep

\* A leg that is sent does not revert.
LEMMA LegIsCovered ==
  ASSUME BackInv, NEW w \in Workers, pc[w] = "transfer"
  PROVE  Source(w) >= Amount(w, NextLeg(w))
<1>1. pc[w] # "idle" /\ pc[w] \in Sending
  BY DEF Sending
<1>2. PICK x \in Payments : x = on[w]
  BY <1>1, AtPayment DEF BackInv
<1>3. /\ mode # "twoHop" /\ TodoInv(w) /\ LegsInv(w)
      /\ mem[w].net \in Nat /\ mem[w].fee \in Nat /\ mem[w].moved \in Nat
      /\ mem[w].todo \subseteq Legs /\ Owed(w) \in Nat /\ deposit[x] \in Nat /\ middle[x] \in Nat
  BY <1>1, <1>2, AtLegs
<1>4. mode \in {"direct", "intermediate"}
  BY <1>3 DEF BackInv, TypeInv, TypeOK, AllModes
<1>5. Unsent(w) = mem[w].todo /\ NextLeg(w) \in mem[w].todo
  BY <1>3 DEF Unsent, NextLeg, TodoInv, Legs
<1>6. /\ "hop" \in mem[w].todo => mem[w].moved <= deposit[x]
      /\ mode = "direct" => Owed(w) <= deposit[x]
      /\ mode = "intermediate" /\ "hop" \notin mem[w].todo => Owed(w) <= middle[x]
  BY <1>2, <1>3, <1>5 DEF LegsInv, Hopped
<1>7. CASE "hop" \in mem[w].todo
  <2>1. NextLeg(w) = "hop" /\ Source(w) = deposit[x] /\ Amount(w, "hop") = mem[w].moved
    BY <1>2, <1>7 DEF NextLeg, Source, Amount
  <2> QED  BY <1>3, <1>6, <1>7, <2>1
<1>8. CASE "hop" \notin mem[w].todo
  <2>1. Owed(w) <= Source(w) /\ Source(w) \in Nat
    BY <1>2, <1>3, <1>4, <1>6, <1>8 DEF Source
  <2>2. Amount(w, NextLeg(w)) <= Owed(w) /\ Amount(w, NextLeg(w)) \in Nat
    <3>1. CASE "net" \in mem[w].todo
      <4>1. Amount(w, NextLeg(w)) = mem[w].net
        BY <1>8, <3>1 DEF NextLeg, Amount
      <4> QED  BY <1>3, <1>5, <3>1, <4>1 DEF Owed
    <3>2. CASE "net" \notin mem[w].todo
      <4>1. Amount(w, NextLeg(w)) = mem[w].fee /\ "fee" \in mem[w].todo
        BY <1>5, <1>8, <3>2 DEF NextLeg, Amount
      <4> QED  BY <1>3, <1>5, <3>2, <4>1 DEF Owed
    <3> QED  BY <3>1, <3>2
  <2> QED  BY <1>3, <2>1, <2>2
<1> QED  BY <1>7, <1>8

\* A worker that gives up leaves the payment settled or as it was.
LEMMA LeavingStep ==
  ASSUME BackInv, TypeInv', NoTear, NEW w \in Workers,
         AutoPayout(w) \/ TransferReverts(w) \/ Abort(w)
  PROVE  BackInv'
<1>1. pc[w] # "idle" /\ Work(w) /\ pc'[w] = "idle"
  <2>1. pc[w] # "idle" /\ Leave(w)
    BY DEF AutoPayout, TransferReverts, Abort
  <2> QED  BY <2>1, Leaving DEF Work, BackInv
<1>2. PICK x \in Payments : x = on[w]
  BY <1>1, AtPayment DEF BackInv
<1>3. Same(x)
  BY DEF AutoPayout, TransferReverts, Abort, Same, bookVars, moneyVars
<1>4. state[x] = "confirmed" => Quiet(x)
  <2>1. CASE AutoPayout(w)
    <3>1. pc[w] = "pay"
      BY <2>1 DEF AutoPayout
    <3> QED  BY <1>1, <1>2, <3>1, QuietHere DEF Sending
  <2>2. CASE TransferReverts(w)
    <3>1. pc[w] = "transfer" => Source(w) \in Nat /\ Amount(w, NextLeg(w)) \in Nat
      <4>1. Source(w) \in Nat
        BY <1>1, AtPayment DEF Source, BackInv
      <4> QED  BY <1>1, <4>1, AmountTyped DEF BackInv
    <3>2. pc[w] = "move"
      BY <2>2, <3>1, LegIsCovered DEF TransferReverts
    <3> QED  BY <1>1, <1>2, <3>2, QuietHere DEF Sending
  <2>3. CASE Abort(w)
    <3>1. ~ Underway(x)
      BY <1>2, <2>3 DEF Abort, Fault, NoTear
    <3> QED  BY <1>1, <1>2, <3>1, NotUnderway
  <2> QED  BY <2>1, <2>2, <2>3
<1> QED  BY <1>1, <1>2, <1>3, <1>4, StillStep

-----------------------------------------------------------------------------

LEMMA NextBack == NoTear /\ BackInv /\ [Next]_vars => BackInv'
<1> SUFFICES ASSUME NoTear, BackInv, [Next]_vars  PROVE BackInv'
  OBVIOUS
<1>1. TypeInv'
  BY NextType DEF BackInv
<1>2. CASE UNCHANGED vars
  <2>1. ASSUME NEW y \in Payments  PROVE PaymentInv(y)'
    BY <1>2 DEF BackInv, PaymentInv, Quiet, Cleared, Arrived, vars, bookVars, moneyVars, workVars
  <2>2. ASSUME NEW v \in Workers  PROVE WorkerInv(v)'
    BY <1>2 DEF BackInv, WorkerInv, SweepInv, DirectInv, SplitInv, TodoInv, LegsInv, Unsent, Owed,
                Hopped, NextLeg, Quiet, Cleared, Arrived, vars, bookVars, moneyVars, workVars
  <2> QED  BY <1>1, <1>2, <2>1, <2>2 DEF BackInv, Alone, Owns, vars, workVars
<1>3. ASSUME NEW x \in Payments,
             EnqueueSweep(x) \/ ArriveLate(x) \/ RedrivePayout(x) \/ Redeliver(x)
      PROVE  BackInv'
  BY <1>1, <1>3, QueueStep
<1>4. CASE ManualPayout
  BY <1>1, <1>4, ManualPayoutStep
<1>5. ASSUME NEW w \in Workers, Work(w)  PROVE BackInv'
  BY <1>1, <1>5, StartSweepStep, SplitStep, FallBackStep, PlanStep, CheckBalanceStep,
     TransferLegStep, RecordLegStep, BookDirectStep, MarkSettledStep, ReadBalanceStep,
     MoveBalanceStep, ReceiptStep, AdoptSweepStep, LeavingStep DEF Work
<1> QED  BY <1>2, <1>3, <1>4, <1>5 DEF Next

LEMMA BackImplies == BackInv => SweptBacked
<1> SUFFICES ASSUME BackInv, NEW x \in Payments, state[x] = "swept"
             PROVE  credited[x] <= central[x] + merchant[x]
  BY DEF SweptBacked
<1> QED  BY NumbersTyped DEF BackInv, PaymentInv, Cleared

\* A swept payment is worth no more than what left its deposit address, unless
\* a fault strikes between the legs of a direct settlement: whatever crashes,
\* stalls, is deferred, declined or not recorded on the two-hop path, however
\* many workers are on it, and whatever the customer sends late.
THEOREM SweptIsBacked ==
  ASSUME NoTear  PROVE Spec => []SweptBacked
<1>1. Init => BackInv
  BY InitBack
<1>2. BackInv /\ [Next]_vars => BackInv'
  BY NextBack
<1>3. BackInv => SweptBacked
  BY BackImplies
<1> QED  BY <1>1, <1>2, <1>3, PTL DEF Spec

-----------------------------------------------------------------------------
(* What the merchant is paid.                                                *)

\* What is left to the merchant of gross g, and that it is never less of more:
\* true of a percentage.  Of a table of slabs it need not be, nor of a fixed
\* fee that exceeds the gross.
Net(g) == g - Fee[g]
NetGrows == Fee[0] = 0 /\ \A g, h \in 0..MaxUnits : g <= h => Net(g) <= Net(h)

\* A payout row never adds to what a direct settlement has sent: an automatic
\* payout is of what was swept, and a settled payment has the row of its
\* settlement.
NetInv(x) ==
  /\ merchant[x] <= Net(Arrived(x))
  /\ row[x].type = "none" => row[x] = NoRow
  /\ row[x].type = "auto" =>
       /\ state[x] = "swept" /\ merchant[x] = 0
       /\ row[x].gross <= central[x] /\ row[x].net = Net(row[x].gross)
  /\ state[x] = "swept" /\ merchant[x] > 0 => row[x].type = "direct"

Booked(w) == pc[w] = "mark" => row[on[w]].type = "direct"

PaidInv == (\A x \in Payments : NetInv(x)) /\ \A w \in Workers : Booked(w)

\* Net amounts are natural numbers, in the order of the gross amounts.
LEMMA NetIs ==
  ASSUME NetGrows
  PROVE  \A g, h \in 0..MaxUnits : /\ Net(g) \in Nat
                                   /\ g <= h => Net(g) <= Net(h)
<1>1. Net(0) = 0 /\ 0 \in 0..MaxUnits
  BY SettlementAssumption DEF Net, NetGrows
<1>2. \A g \in 0..MaxUnits : Net(g) \in Int
  BY SettlementAssumption DEF Net
<1>3. \A g \in 0..MaxUnits : 0 <= Net(g)
  <2>1. \A g \in 0..MaxUnits : 0 <= g /\ g \in Int
    BY SettlementAssumption
  <2> QED  BY <1>1, <2>1 DEF NetGrows
<1> QED  BY <1>2, <1>3 DEF NetGrows

LEMMA InitPaid == NetGrows /\ Init => PaidInv
<1> SUFFICES ASSUME NetGrows, Init  PROVE PaidInv
  OBVIOUS
<1>1. TypeInv
  BY InitType
<1>2. ASSUME NEW x \in Payments  PROVE NetInv(x)
  <2>1. merchant[x] = 0 /\ row[x] = NoRow /\ state[x] = "confirmed" /\ Net(Arrived(x)) \in Nat
    BY <1>1, NetIs, NumbersTyped DEF Init
  <2> QED  BY <2>1 DEF NetInv, NoRow
<1> QED  BY <1>2 DEF PaidInv, Booked, Init

\* As long as its row, its state and what it paid are left alone, a payment's
\* money may move on to the central wallet, and more may arrive.
LEMMA NetKept ==
  ASSUME NetGrows, TypeInv, TypeInv', NEW y \in Payments, NetInv(y), row'[y] = row[y],
         state'[y] = state[y], merchant'[y] = merchant[y],
         central[y] <= central'[y], Arrived(y) <= Arrived(y)'
  PROVE  NetInv(y)'
<1>1. /\ Arrived(y) \in 0..MaxUnits /\ merchant[y] \in Nat /\ central[y] \in Nat
      /\ row[y] \in Rows
  BY NumbersTyped DEF TypeInv, TypeOK
<1>2. Arrived(y)' \in 0..MaxUnits /\ central'[y] \in Nat
  <2>1. /\ deposit'[y] \in Nat /\ middle'[y] \in Nat /\ central'[y] \in Nat /\ merchant'[y] \in Nat
    BY DEF TypeInv, TypeOK
  <2>2. Arrived(y)' <= MaxUnits
    BY DEF TypeInv, Bounded
  <2>3. Arrived(y)' \in Nat
    BY <2>1 DEF Arrived
  <2> QED  BY <2>1, <2>2, <2>3, SettlementAssumption
<1>3. Net(Arrived(y)) <= Net(Arrived(y)') /\ Net(Arrived(y)) \in Nat /\ Net(Arrived(y)') \in Nat
  BY <1>1, <1>2, NetIs
<1>4. Net(Arrived(y))' = Net(Arrived(y)') /\ Net(row[y].gross)' = Net(row[y].gross)
  BY DEF Net
<1>5. row[y].gross \in Nat
  BY <1>1 DEF Rows
<1> QED  BY <1>1, <1>2, <1>3, <1>4, <1>5 DEF NetInv

\* The automatic payout of what was swept.
LEMMA AutoPaid ==
  ASSUME NetGrows, BackInv, TypeInv', NEW x \in Payments, NetInv(x), NEW a \in 0..MaxUnits,
         Requestable(x, a), AutoRow(x, a), state[x] = "swept",
         a <= central[x] + merchant[x],
         UNCHANGED <<state, moneyVars>>
  PROVE  NetInv(x)' /\ \A y \in Payments \ {x} : row'[y] = row[y]
<1>1. row[x] = NoRow /\ row' = [row EXCEPT ![x] = [type |-> "auto", gross |-> a, net |-> a - Fee[a]]]
  BY DEF Requestable, AutoRow
<1>2. row'[x] = [type |-> "auto", gross |-> a, net |-> a - Fee[a]]
        /\ \A y \in Payments \ {x} : row'[y] = row[y]
  BY <1>1 DEF BackInv, TypeInv, TypeOK
<1>3. merchant[x] = 0
  <2>1. row[x].type = "none"
    BY <1>1 DEF NoRow
  <2> QED  BY <2>1, NumbersTyped DEF NetInv, BackInv
<1>4. a <= central[x]
  BY <1>3, NumbersTyped DEF BackInv
<1>5. merchant'[x] = 0 /\ central'[x] = central[x] /\ state'[x] = "swept"
        /\ Arrived(x)' = Arrived(x)
  BY <1>3 DEF moneyVars, Arrived
<1>6. row'[x].type = "auto" /\ row'[x].gross = a /\ row'[x].net = a - Fee[a]
  BY <1>2
<1> QED  BY <1>2, <1>3, <1>4, <1>5, <1>6 DEF NetInv, Net

\* A step that leaves the rows alone.
LEMMA RowsKept ==
  ASSUME NetGrows, BackInv, TypeInv', PaidInv, UNCHANGED row,
         \A y \in Payments : /\ state'[y] = state[y] /\ merchant'[y] = merchant[y]
                             /\ central[y] <= central'[y] /\ Arrived(y) <= Arrived(y)',
         \A v \in Workers : pc'[v] = "mark" => pc[v] = "mark" /\ on'[v] = on[v]
  PROVE  PaidInv'
<1>1. ASSUME NEW y \in Payments  PROVE NetInv(y)'
  BY NetKept DEF BackInv, PaidInv
<1> QED  BY <1>1 DEF PaidInv, Booked

LEMMA WorkPaid ==
  ASSUME NetGrows, BackInv, TypeInv', PaidInv, NEW w \in Workers, pc[w] # "idle", Work(w)
  PROVE  PaidInv'
<1>1. PICK x \in Payments : x = on[w]
  BY AtPayment DEF BackInv
<1>2. OnlyAt(w, x) /\ PaymentInv(x) /\ WorkerInv(w) /\ NetInv(x) /\ Booked(w) /\ TypeInv
  BY <1>1, LocalStep DEF BackInv, PaidInv
<1>3. /\ deposit[x] \in Nat /\ middle[x] \in Nat /\ central[x] \in Nat /\ merchant[x] \in Nat
      /\ state[x] \in {"confirmed", "swept"} /\ row[x] \in Rows /\ Arrived(x) \in 0..MaxUnits
      /\ mem[w].moved \in 0..MaxUnits
  BY AtPayment, NumbersTyped DEF BackInv, TypeInv, TypeOK
<1>4. ASSUME NEW v \in Workers \ {w}, \A y \in Payments \ {x} : row'[y] = row[y]
      PROVE  Booked(v)'
  <2> SUFFICES ASSUME pc[v] = "mark"  PROVE row'[on[v]].type = "direct"
    BY <1>2 DEF Booked, OnlyAt
  <2>1. mode # "twoHop" /\ on[v] \in Payments
    BY AtPayment DEF BackInv, WorkerInv, DirectInv, Direct
  <2>2. on[v] # x
    BY <1>1, <2>1, OneWorker
  <2> QED  BY <1>4, <2>1, <2>2 DEF PaidInv, Booked
<1>5. ASSUME NEW y \in Payments \ {x}, row'[y] = row[y]  PROVE NetInv(y)'
  <2>1. /\ Same(y) /\ Arrived(y)' = Arrived(y) /\ Arrived(y) \in Int /\ central[y] \in Int
    BY <1>2, NumbersTyped DEF OnlyAt, Same, Arrived
  <2>2. central[y] <= central'[y] /\ Arrived(y) <= Arrived(y)'
    BY <2>1 DEF Same
  <2> QED  BY <1>2, <1>5, <2>1, <2>2, NetKept DEF PaidInv, Same
<1>6. ASSUME \A y \in Payments \ {x} : row'[y] = row[y], NetInv(x)', Booked(w)'  PROVE PaidInv'
  BY <1>4, <1>5, <1>6 DEF PaidInv
<1>7. CASE \/ Split(w) \/ Decline(w) \/ Plan(w) \/ CheckBalance(w) \/ DeferGas(w) \/ RecordLeg(w)
           \/ ReadBalance(w) \/ RecordSweep(w) \/ CreditExcess(w) \/ TransferReverts(w) \/ Abort(w)
  <2>1. UNCHANGED <<row, state, moneyVars>>
    BY <1>7 DEF Split, Decline, Plan, CheckBalance, DeferGas, RecordLeg, ReadBalance, RecordSweep,
                CreditExcess, TransferReverts, Abort, bookVars
  <2>2. pc'[w] # "mark"
    BY <1>2, <1>7 DEF Split, Decline, Plan, CheckBalance, DeferGas, RecordLeg, ReadBalance,
             RecordSweep, CreditExcess, TransferReverts, Abort, Goto, Leave, TypeInv, TypeOK
  <2>3. Arrived(x)' = Arrived(x)
    BY <2>1 DEF moneyVars, Arrived
  <2>4. NetInv(x)'
    BY <1>2, <1>3, <2>1, <2>3, NetKept DEF moneyVars
  <2> QED  BY <1>6, <2>1, <2>2, <2>4 DEF Booked
<1>8. CASE TransferLeg(w) \/ MoveBalance(w)
  <2>1. /\ UNCHANGED <<row, state>> /\ pc'[w] \in {"record", "receipt"}
    BY <1>2, <1>8, Going DEF TransferLeg, MoveBalance, bookVars
  <2>2. Arrived(x)' = Arrived(x) /\ central[x] <= central'[x]
    BY <1>2, <1>8, TransferMoves, BalanceMoves
  <2>3. CASE merchant'[x] = merchant[x]
    <3>1. NetInv(x)'
      BY <1>2, <1>3, <2>1, <2>2, <2>3, NetKept
    <3> QED  BY <1>6, <2>1, <3>1 DEF Booked
  <2>4. CASE merchant'[x] # merchant[x]
    <3>1. TransferLeg(w) /\ NextLeg(w) = "net"
      BY <1>8, <2>4 DEF TransferLeg, MoveBalance
    <3>2. pc[w] = "transfer" /\ pc[w] \in Sending
      BY <3>1 DEF TransferLeg, Sending
    <3>3. /\ mode # "twoHop" /\ state[x] = "confirmed" /\ SplitInv(w) /\ TodoInv(w) /\ LegsInv(w)
          /\ mem[w].net \in Nat /\ mem[w].fee \in Nat /\ mem[w].gross \in Nat
          /\ mem[w].todo \subseteq Legs
      BY <1>1, <3>2, AtLegs
    <3>4. "net" \in mem[w].todo
      BY <3>1, <3>2, <3>3 DEF NextLeg
    <3>5. merchant[x] = 0
      BY <1>1, <3>2, <3>3, <3>4 DEF LegsInv, Unsent
    <3>6. merchant'[x] = mem[w].net
      <4>1. merchant' = [merchant EXCEPT ![x] = @ + mem[w].net]
        BY <1>1, <3>1 DEF TransferLeg, Amount
      <4> QED  BY <1>2, <3>3, <3>5, <4>1 DEF TypeInv, TypeOK
    <3>7. mem[w].net <= Net(Arrived(x))
      <4>1. mem[w].gross <= Arrived(x) /\ mem[w].gross \in 0..MaxUnits
              /\ mem[w].net = Net(mem[w].gross)
        <5>1. /\ mem[w].gross <= Arrived(x) /\ mem[w].net + mem[w].fee = mem[w].gross
              /\ mem[w].fee = Fee[mem[w].gross]
          BY <1>1, <3>3 DEF SplitInv
        <5>2. MaxUnits \in Nat
          BY SettlementAssumption
        <5> QED  BY <1>3, <3>3, <5>1, <5>2 DEF Net
      <4> QED  BY <1>3, <4>1, NetIs
    <3>8. row[x].type # "auto"
      BY <1>2, <3>3 DEF NetInv
    <3>9. NetInv(x)'
      BY <1>2, <2>1, <2>2, <3>3, <3>6, <3>7, <3>8 DEF NetInv, Net
    <3> QED  BY <1>6, <2>1, <3>9 DEF Booked
  <2> QED  BY <2>3, <2>4
<1>9. CASE BookDirect(w)
  <2>1. /\ pc[w] = "book" /\ pc[w] \in Sending /\ UNCHANGED <<state, moneyVars>>
        /\ row' = IF row[x] # NoRow THEN row
                  ELSE [row EXCEPT ![x] = [type |-> "direct", gross |-> mem[w].gross,
                                           net |-> mem[w].net]]
    BY <1>1, <1>9 DEF BookDirect, Sending
  <2>2. state[x] = "confirmed"
    BY <1>1, <2>1, AtLegs
  <2>3. row'[x].type = "direct" /\ \A y \in Payments \ {x} : row'[y] = row[y]
    <3>1. row[x] # NoRow => row[x].type = "direct"
      BY <1>2, <1>3, <2>2 DEF NetInv, Rows
    <3> QED  BY <1>2, <2>1, <3>1 DEF TypeInv, TypeOK
  <2>4. NetInv(x)'
    BY <1>2, <2>1, <2>2, <2>3 DEF NetInv, Net, Arrived, moneyVars
  <2>5. Booked(w)'
    BY <1>1, <1>9, <2>3 DEF Booked, BookDirect
  <2> QED  BY <1>6, <2>3, <2>4, <2>5
<1>10. CASE MarkSettled(w)
  <2>1. /\ pc[w] = "mark" /\ UNCHANGED <<row, moneyVars>> /\ pc'[w] = "idle"
    BY <1>2, <1>10, Leaving DEF MarkSettled
  <2>2. row[x].type = "direct"
    BY <1>1, <1>2, <2>1 DEF Booked
  <2>3. NetInv(x)'
    BY <1>2, <2>1, <2>2 DEF NetInv, Net, Arrived, moneyVars
  <2> QED  BY <1>6, <2>1, <2>3 DEF Booked
<1>11. CASE CloseSweep(w) \/ AdoptSweep(w)
  <2>1. /\ pc[w] \notin Sending /\ UNCHANGED <<row, moneyVars>> /\ pc'[w] \in {"idle", "pay"}
    BY <1>2, <1>11, Leaving, Going DEF CloseSweep, AdoptSweep, Sending
  <2>2. state[x] = "confirmed" => merchant[x] = 0
    BY <1>1, <2>1, QuietHere DEF Quiet
  <2>3. state[x] = "swept" => state'[x] = "swept"
    BY <1>1, <1>2, <1>11 DEF CloseSweep, AdoptSweep, TypeInv, TypeOK
  <2>4. NetInv(x)'
    BY <1>2, <1>3, <2>1, <2>2, <2>3 DEF NetInv, Net, Arrived, moneyVars
  <2> QED  BY <1>6, <2>1, <2>4 DEF Booked
<1>12. CASE AutoPayout(w)
  <2>1. /\ pc[w] = "pay" /\ UNCHANGED <<state, moneyVars>> /\ pc'[w] = "idle"
        /\ row' = row \/ (Requestable(x, mem[w].moved) /\ AutoRow(x, mem[w].moved))
    BY <1>1, <1>2, <1>12, Leaving DEF AutoPayout
  <2>2. CASE row' = row
    <3>1. NetInv(x)'
      BY <1>2, <2>1, <2>2 DEF NetInv, Net, Arrived, moneyVars
    <3> QED  BY <1>6, <2>1, <2>2, <3>1 DEF Booked
  <2>3. CASE Requestable(x, mem[w].moved) /\ AutoRow(x, mem[w].moved)
    <3>1. state[x] = "swept" /\ mem[w].moved <= central[x] + merchant[x]
      <4>1. state[x] = "swept" /\ mem[w].moved <= central[x]
        BY <1>1, <1>2, <2>1 DEF WorkerInv, SweepInv
      <4> QED  BY <1>3, <4>1, SettlementAssumption
    <3>2. NetInv(x)' /\ \A y \in Payments \ {x} : row'[y] = row[y]
      BY <1>2, <1>3, <2>1, <2>3, <3>1, AutoPaid
    <3> QED  BY <1>6, <2>1, <3>2 DEF Booked
  <2> QED  BY <2>1, <2>2, <2>3
<1> QED  BY <1>7, <1>8, <1>9, <1>10, <1>11, <1>12 DEF Work, StartSweep

LEMMA NextPaid == NetGrows /\ BackInv /\ PaidInv /\ [Next]_vars => PaidInv'
<1> SUFFICES ASSUME NetGrows, BackInv, PaidInv, [Next]_vars  PROVE PaidInv'
  OBVIOUS
<1>1. TypeInv /\ TypeInv'
  BY NextType DEF BackInv
<1>2. \A y \in Payments : central[y] \in Int /\ Arrived(y) \in Int
  BY <1>1, NumbersTyped
<1>3. ASSUME UNCHANGED <<row, state, moneyVars>>,
             \A v \in Workers : pc'[v] = "mark" => pc[v] = "mark" /\ on'[v] = on[v]
      PROVE  PaidInv'
  <2>1. \A y \in Payments : Arrived(y)' = Arrived(y) /\ central'[y] = central[y]
    BY <1>3 DEF moneyVars, Arrived
  <2>2. \A y \in Payments : central[y] <= central'[y] /\ Arrived(y) <= Arrived(y)'
    BY <1>2, <2>1
  <2> QED  BY <1>1, <1>3, <2>2, RowsKept DEF moneyVars
<1>4. CASE UNCHANGED vars
  BY <1>3, <1>4 DEF vars, bookVars, workVars
<1>5. ASSUME NEW x \in Payments, EnqueueSweep(x) \/ Redeliver(x)  PROVE PaidInv'
  BY <1>3, <1>5 DEF EnqueueSweep, Redeliver, bookVars
<1>6. ASSUME NEW x \in Payments, ArriveLate(x)  PROVE PaidInv'
  <2>1. PICK a \in LateAmounts : deposit' = [deposit EXCEPT ![x] = @ + a]
    BY <1>6 DEF ArriveLate
  <2>2. UNCHANGED <<row, state, middle, central, merchant, pc, on>>
    BY <1>6 DEF ArriveLate, bookVars, workVars
  <2>3. a \in Nat /\ \A y \in Payments : deposit[y] \in Nat /\ middle[y] \in Nat
                        /\ central[y] \in Nat /\ merchant[y] \in Nat
    BY <1>1, SettlementAssumption, NumbersTyped
  <2>4. \A y \in Payments : deposit[y] <= deposit'[y] /\ deposit'[y] \in Nat
    BY <1>1, <2>1, <2>3 DEF TypeInv, TypeOK
  <2>5. \A y \in Payments : central[y] <= central'[y] /\ Arrived(y) <= Arrived(y)'
    BY <2>2, <2>3, <2>4 DEF Arrived
  <2> QED  BY <1>1, <2>2, <2>5, RowsKept
<1>7. ASSUME NEW x \in Payments, RedrivePayout(x)  PROVE PaidInv'
  <2>1. /\ state[x] = "swept" /\ Requestable(x, credited[x]) /\ AutoRow(x, credited[x])
        /\ UNCHANGED <<state, moneyVars, pc, on>>
    BY <1>7 DEF RedrivePayout, workVars
  <2>2. credited[x] \in 0..MaxUnits /\ credited[x] <= central[x] + merchant[x]
    <3>1. credited[x] <= central[x] + merchant[x]
      BY <2>1, BackImplies DEF SweptBacked
    <3>2. credited[x] \in Nat /\ credited[x] <= MaxUnits
      BY <1>1, NumbersTyped DEF TypeInv, Bounded
    <3> QED  BY <3>1, <3>2, SettlementAssumption
  <2>3. NetInv(x)' /\ \A y \in Payments \ {x} : row'[y] = row[y]
    BY <1>1, <2>1, <2>2, AutoPaid DEF PaidInv
  <2>4. ASSUME NEW y \in Payments \ {x}  PROVE NetInv(y)'
    <3>1. /\ Arrived(y)' = Arrived(y) /\ central'[y] = central[y]
      BY <2>1 DEF moneyVars, Arrived
    <3>2. central[y] <= central'[y] /\ Arrived(y) <= Arrived(y)'
      BY <1>2, <3>1
    <3> QED  BY <1>1, <2>1, <2>3, <3>2, NetKept DEF PaidInv, moneyVars
  <2>5. ASSUME NEW v \in Workers  PROVE Booked(v)'
    <3> SUFFICES ASSUME pc[v] = "mark"  PROVE row'[on[v]].type = "direct"
      BY <2>1 DEF Booked
    <3>1. state[on[v]] = "confirmed" /\ on[v] \in Payments
      BY AtPayment DEF BackInv, WorkerInv, DirectInv, Direct
    <3> QED  BY <2>1, <2>3, <3>1 DEF PaidInv, Booked
  <2> QED  BY <2>3, <2>4, <2>5 DEF PaidInv
<1>8. CASE ManualPayout
  BY <1>3, <1>8 DEF ManualPayout, workVars
<1>9. ASSUME NEW w \in Workers, NEW x \in Payments, StartSweep(w, x)  PROVE PaidInv'
  <2>1. UNCHANGED <<row, state, moneyVars>>
    BY <1>9 DEF StartSweep, bookVars
  <2>2. \A v \in Workers : pc'[v] = "mark" => pc[v] = "mark" /\ on'[v] = on[v]
    BY <1>1, <1>9 DEF StartSweep, Goto, TypeInv, TypeOK
  <2> QED  BY <1>3, <2>1, <2>2
<1>10. ASSUME NEW w \in Workers, Work(w)  PROVE PaidInv'
  <2>1. CASE pc[w] = "idle"
    <3>1. \E x \in Payments : StartSweep(w, x)
      BY <1>10, <2>1 DEF Work, Split, Decline, Plan, CheckBalance, DeferGas, TransferLeg, RecordLeg,
             BookDirect, MarkSettled, ReadBalance, MoveBalance, RecordSweep, CreditExcess,
             CloseSweep, AutoPayout, AdoptSweep, TransferReverts, Abort
    <3> QED  BY <1>9, <3>1
  <2>2. CASE pc[w] # "idle"
    BY <1>1, <1>10, <2>2, WorkPaid
  <2> QED  BY <2>1, <2>2
<1> QED  BY <1>4, <1>5, <1>6, <1>7, <1>8, <1>10 DEF Next

LEMMA PaidImplies == NetGrows /\ BackInv /\ PaidInv => PaidItsNet
<1> SUFFICES ASSUME NetGrows, BackInv, PaidInv, NEW x \in Payments
             PROVE  merchant[x] + (IF row[x].type = "auto" THEN row[x].net ELSE 0)
                      <= Arrived(x) - Fee[Arrived(x)]
  BY DEF PaidItsNet
<1>1. /\ NetInv(x) /\ Arrived(x) \in 0..MaxUnits /\ merchant[x] \in Nat /\ central[x] \in Nat
      /\ deposit[x] \in Nat /\ middle[x] \in Nat
  BY NumbersTyped DEF BackInv, PaidInv
<1>2. CASE row[x].type = "auto"
  <2>1. row[x].gross \in Nat
    BY DEF BackInv, TypeInv, TypeOK, Rows
  <2>2. row[x].gross <= Arrived(x) /\ row[x].gross \in 0..MaxUnits
    <3>1. central[x] <= Arrived(x) /\ row[x].gross <= central[x]
      BY <1>1, <1>2 DEF Arrived, NetInv
    <3> QED  BY <1>1, <2>1, <3>1, SettlementAssumption
  <2>3. Net(row[x].gross) <= Net(Arrived(x)) /\ Net(row[x].gross) \in Nat
    BY <1>1, <2>2, NetIs
  <2> QED  BY <1>1, <1>2, <2>3 DEF NetInv, Net
<1>3. CASE row[x].type # "auto"
  BY <1>1, <1>3 DEF NetInv, Net
<1> QED  BY <1>2, <1>3

\* However its settlement is retried, redelivered or falls back, and whatever
\* the customer sends late, a payment pays its merchant no more than the net of
\* what the customer sent: with a commission of which more is never less, and
\* no fault between the legs of a direct settlement.
THEOREM MerchantIsPaidItsNet ==
  ASSUME NoTear, NetGrows  PROVE Spec => []PaidItsNet
<1>1. Init => BackInv /\ PaidInv
  BY InitBack, InitPaid
<1>2. BackInv /\ PaidInv /\ [Next]_vars => (BackInv /\ PaidInv)'
  BY NextBack, NextPaid
<1>3. BackInv /\ PaidInv => PaidItsNet
  BY PaidImplies
<1> QED  BY <1>1, <1>2, <1>3, PTL DEF Spec
=============================================================================
