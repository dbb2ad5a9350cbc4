--------------------------- MODULE ListenerProofs ---------------------------
(* TLAPS proofs about the listeners: Deposits, for any payments, transfers    *)
(* and callbacks, any chain, and any faults but those a theorem names; and at  *)
(* the end Scan.                                                              *)
EXTENDS DepositsHistory, Sums

\* What Scan keeps besides: an address's own history takes the place of the blocks.
CONSTANTS Chains, Key, Depths, Width
VARIABLES chain, counted, row, scanned, queue, feeds, tick

-----------------------------------------------------------------------------
(* Types, and what an actor has in hand.                                     *)

LogCur == [kind : {"log"}, t : Transfers, block : Heights, was : Live]
PayCur == [kind : {"payment"}, x : Payments]

Recording == {"insert", "advance", "total"}

InHand ==
  /\ \A c \in Callbacks : pc[c] \in {"idle"} \cup Recording
  /\ \A a \in Actors : pc[a] \in Recording => cur[a] \in LogCur
  /\ pc[Loop] \in {"revert", "deepen"} => cur[Loop] \in PayCur

Typed == TypeOK /\ InHand
TypedInv == Typed /\ head >= Start

LEMMA InitTyped == Init => Typed
BY DepositsAssumption
   DEF Init, Typed, TypeOK, InHand, Recording, Statuses, Live, NoRow, NoCur, PCs, Heights,
       Start, Actors

\* What a payment has been paid is a natural number.
LEMMA TotalType ==
  ASSUME NEW S \in SUBSET Transfers
  PROVE  Total(S) \in Nat /\ IsFiniteSet(S)
<1>1. IsFiniteSet(S) /\ \A t \in S : Amount[t] \in Nat
  BY DepositsAssumption, FS_Subset
<1>2. Total(S) = SumOf(Amount, S)
  BY DEF Total, SumOf
<1> QED  BY <1>1, <1>2, SumType

LEMMA ReceivedType == \A x : ReceivedSum(x) \in Nat
<1> TAKE x
<1>1. Rows(x) \in SUBSET Transfers
  BY DEF Rows
<1> QED  BY <1>1, TotalType DEF ReceivedSum

\* More transfers make no less.
LEMMA TotalGrows ==
  ASSUME NEW S \in SUBSET Transfers, NEW R \in SUBSET S
  PROVE  Total(R) <= Total(S) /\ Total(R) \in Nat /\ Total(S) \in Nat
<1>1. IsFiniteSet(S) /\ \A t \in S : Amount[t] \in Nat
  BY DepositsAssumption, TotalType
<1>2. Total(S) = SumOf(Amount, S) /\ Total(R) = SumOf(Amount, R)
  BY DEF Total, SumOf
<1> QED  BY <1>1, <1>2, SumSubset, TotalType

\* The block a pass scans to.
LEMMA ScanToIs ==
  ASSUME Typed
  PROVE  /\ ScanTo \in Int /\ ScanTo <= top - ReorgDepth /\ ScanTo <= cursor + ScanRange
         /\ Behind => ScanTo \in Heights /\ ScanTo > 0
<1> DEFINE a == top - ReorgDepth
           b == cursor + ScanRange
<1>1. a \in Int /\ b \in Int /\ top \in Heights /\ cursor \in Heights
  BY DepositsAssumption DEF Typed, TypeOK, Heights
<1>2. ScanTo \in {a, b} /\ \A z \in {a, b} : ScanTo <= z
  <2>1. ScanTo = CHOOSE y \in {a, b} : \A z \in {a, b} : y <= z
    BY DEF ScanTo, Min
  <2>2. \E y \in {a, b} : \A z \in {a, b} : y <= z
    BY <1>1
  <2> QED  BY <2>1, <2>2
<1> QED  BY <1>1, <1>2, DepositsAssumption DEF Heights, Behind

-----------------------------------------------------------------------------
(* Every step keeps the types.                                               *)

\* A step of one actor leaves the others what they have.
LEMMA InHandStep ==
  ASSUME Typed, NEW a \in Actors,
         \A b \in Actors \ {a} : pc'[b] = pc[b] /\ cur'[b] = cur[b],
         pc'[a] \in Recording => cur'[a] \in LogCur,
         a # Loop => pc'[a] \in {"idle"} \cup Recording,
         a = Loop /\ pc'[a] \in {"revert", "deepen"} => cur'[a] \in PayCur
  PROVE  InHand'
<1>1. Loop \in Actors /\ Loop \notin Callbacks /\ Callbacks \subseteq Actors
  BY DepositsAssumption DEF Actors
<1>2. \A c \in Callbacks : pc'[c] \in {"idle"} \cup Recording
  BY <1>1 DEF Typed, InHand
<1>3. \A b \in Actors : pc'[b] \in Recording => cur'[b] \in LogCur
  BY DEF Typed, InHand
<1>4. pc'[Loop] \in {"revert", "deepen"} => cur'[Loop] \in PayCur
  BY <1>1 DEF Typed, InHand
<1> QED  BY <1>2, <1>3, <1>4 DEF InHand

LEMMA RecordTyped ==
  ASSUME Typed, NEW a \in Actors, Insert(a) \/ Advance(a) \/ Refresh(a)
  PROVE  Typed'
<1>1. /\ pc \in [Actors -> PCs] /\ Loop \in Actors /\ Callbacks \subseteq Actors
      /\ pc[a] \in Recording /\ cur[a] \in LogCur
      /\ To[cur[a].t] \in Payments /\ cur[a].t \in Transfers
  BY DepositsAssumption
     DEF Typed, TypeOK, InHand, Recording, Actors, LogCur, Insert, Advance, Refresh
<1>2. CASE Insert(a)
  <2>1. /\ tx' \in [Transfers -> [status : {"none", "pending", "confirmed", "reorged"},
                                  block : Heights]]
    BY <1>1, <1>2 DEF Typed, TypeOK, Insert, LogCur
  <2>2. /\ pc' \in [Actors -> PCs] /\ pc'[a] \in Recording
        /\ \A b \in Actors \ {a} : pc'[b] = pc[b]
    BY <1>1, <1>2 DEF Insert, Goto, Recording, PCs
  <2>3. InHand'
    BY <1>1, <1>2, <2>2 DEF Typed, InHand, Insert, Recording
  <2>4. TypeOK'
    BY <1>2, <2>1, <2>2 DEF Typed, TypeOK, Insert, chainVars, passVars
  <2> QED  BY <2>3, <2>4 DEF Typed
<1>3. CASE Advance(a)
  <2>1. status' \in [Payments -> Statuses]
    BY <1>1, <1>3 DEF Typed, TypeOK, Advance, Statuses, Live
  <2>2. /\ pc' \in [Actors -> PCs] /\ pc'[a] \in Recording
        /\ \A b \in Actors \ {a} : pc'[b] = pc[b]
    BY <1>1, <1>3 DEF Advance, Goto, Recording, PCs
  <2>3. InHand'
    BY <1>1, <1>3, <2>2 DEF Typed, InHand, Advance, Recording
  <2>4. TypeOK'
    BY <1>3, <2>1, <2>2 DEF Typed, TypeOK, Advance, chainVars, passVars
  <2> QED  BY <2>3, <2>4 DEF Typed
<1>4. CASE Refresh(a)
  <2>1. /\ status' \in [Payments -> Statuses] /\ received' \in [Payments -> Nat]
    BY <1>1, <1>4, ReceivedType DEF Typed, TypeOK, Refresh, Statuses, Live
  <2>2. /\ pc' \in [Actors -> PCs] /\ pc'[a] \in {"log", "idle"} /\ (a # Loop => pc'[a] = "idle")
        /\ \A b \in Actors \ {a} : pc'[b] = pc[b] /\ cur'[b] = cur[b]
        /\ cur' = [cur EXCEPT ![a] = NoCur]
    BY <1>1, <1>4 DEF Refresh, Recorded, Goto, PCs, Typed, TypeOK
  <2>3. InHand'
    BY <2>2, InHandStep DEF Recording
  <2>4. TypeOK'
    BY <1>4, <2>1, <2>2 DEF Typed, TypeOK, Refresh, chainVars, passVars
  <2> QED  BY <2>3, <2>4 DEF Typed
<1> QED  BY <1>2, <1>3, <1>4

\* A log given to an actor that had none.
LEMMA MatchTyped ==
  ASSUME Typed, NEW a \in Actors, NEW t \in Transfers, NEW b \in Heights, Match(a, t, b),
         pc[a] # "insert"
  PROVE  /\ listed' \subseteq Payments /\ cur' \in [Actors -> {NoCur} \cup LogCur \cup PayCur]
         /\ pc' \in [Actors -> PCs]
         /\ pc' = pc \/ (pc'[a] = "insert" /\ cur'[a] \in LogCur)
         /\ \A c \in Actors \ {a} : pc'[c] = pc[c] /\ cur'[c] = cur[c]
         /\ pc' = pc => cur' = cur
<1>1. To[t] \in Payments /\ pc \in [Actors -> PCs] /\ listed \subseteq Payments
      /\ cur \in [Actors -> {NoCur} \cup LogCur \cup PayCur]
  BY DepositsAssumption DEF Typed, TypeOK, LogCur, PayCur
<1>2. CASE status[To[t]] \in Live /\ Asset[t] = Awaits[To[t]]
  <2> DEFINE r == [kind |-> "log", t |-> t, block |-> b, was |-> status[To[t]]]
  <2>1. r \in LogCur
    BY <1>2 DEF LogCur
  <2>2. cur' = [cur EXCEPT ![a] = r] /\ pc' = [pc EXCEPT ![a] = "insert"] /\ listed' = listed
    BY <1>2 DEF Match, Goto
  <2>3. pc' # pc
    BY <1>1, <2>2
  <2> HIDE DEF r
  <2>4. /\ cur' \in [Actors -> {NoCur} \cup LogCur \cup PayCur] /\ pc' \in [Actors -> PCs]
        /\ pc'[a] = "insert" /\ cur'[a] \in LogCur
        /\ \A c \in Actors \ {a} : pc'[c] = pc[c] /\ cur'[c] = cur[c]
    BY <1>1, <2>1, <2>2 DEF PCs
  <2> QED  BY <1>1, <2>2, <2>3, <2>4
<1>3. CASE ~(status[To[t]] \in Live /\ Asset[t] = Awaits[To[t]])
  BY <1>1, <1>3 DEF Match
<1> QED  BY <1>2, <1>3

LEMMA DeliverTyped ==
  ASSUME Typed, NEW c \in Callbacks, NEW t \in Transfers, Deliver(c, t)
  PROVE  Typed'
<1>1. c \in Actors /\ c # Loop /\ at[t] \in Heights /\ pc[c] = "idle" /\ Match(c, t, at[t])
  BY DepositsAssumption DEF Typed, TypeOK, Actors, Deliver
<1>2. /\ listed' \subseteq Payments /\ cur' \in [Actors -> {NoCur} \cup LogCur \cup PayCur]
      /\ pc' \in [Actors -> PCs]
      /\ pc' = pc \/ (pc'[c] = "insert" /\ cur'[c] \in LogCur)
      /\ \A d \in Actors \ {c} : pc'[d] = pc[d] /\ cur'[d] = cur[d]
      /\ pc' = pc => cur' = cur
  BY <1>1, MatchTyped
<1>3. InHand'
  BY <1>1, <1>2, InHandStep DEF Recording
<1>4. TypeOK'
  BY <1>2 DEF Typed, TypeOK, Deliver, LogCur, PayCur, chainVars, passVars
<1> QED  BY <1>3, <1>4 DEF Typed

\* The steps of the loop that touch only its own place and its pass.
LEMMA LoopStep ==
  ASSUME Typed, NEW l \in PCs \ (Recording \cup {"revert", "deepen"}),
         pc' = [pc EXCEPT ![Loop] = l],
         cur' = cur \/ cur' = [cur EXCEPT ![Loop] = NoCur]
  PROVE  /\ InHand' /\ pc' \in [Actors -> PCs]
         /\ cur' \in [Actors -> {NoCur} \cup LogCur \cup PayCur]
<1>1. /\ Loop \in Actors /\ pc \in [Actors -> PCs]
      /\ cur \in [Actors -> {NoCur} \cup LogCur \cup PayCur]
  BY DEF Typed, TypeOK, Actors, LogCur, PayCur
<1>2. /\ \A b \in Actors \ {Loop} : pc'[b] = pc[b] /\ cur'[b] = cur[b]
      /\ pc'[Loop] = l
  BY <1>1
<1> QED  BY <1>1, <1>2, InHandStep

TxRows == [status : {"none", "pending", "confirmed", "reorged"}, block : Heights]

LEMMA ConfirmedType ==
  ASSUME Typed, NEW S
  PROVE  Confirmed(S) \in [Transfers -> TxRows]
BY DEF Typed, TypeOK, Confirmed, TxRows

LEMMA BeginTyped ==
  ASSUME Typed, Begin \/ RefreshWatch \/ SelectRecent
  PROVE  Typed'
<1>1. \E l \in {"refresh", "select", "check"} :
        pc' = [pc EXCEPT ![Loop] = l] /\ cur' = cur
  BY DEF Begin, RefreshWatch, SelectRecent, Goto
<1>2. InHand' /\ pc' \in [Actors -> PCs] /\ cur' \in [Actors -> {NoCur} \cup LogCur \cup PayCur]
  <2>1. {"refresh", "select", "check"} \subseteq PCs \ (Recording \cup {"revert", "deepen"})
    BY DEF PCs, Recording
  <2> QED  BY <1>1, <2>1, LoopStep
<1>3. CASE Begin
  BY <1>2, <1>3 DEF Typed, TypeOK, Begin, LogCur, PayCur, chainVars, dbVars
<1>4. CASE RefreshWatch
  BY <1>2, <1>4 DEF Typed, TypeOK, RefreshWatch, LogCur, PayCur, chainVars, dbVars, passVars, LivePayments
<1>5. CASE SelectRecent
  <2>1. todo' \subseteq Logs
    BY <1>5 DEF Typed, TypeOK, SelectRecent, Logs
  <2> QED  BY <1>2, <1>5, <2>1 DEF Typed, TypeOK, SelectRecent, LogCur, PayCur, chainVars, dbVars
<1> QED  BY <1>3, <1>4, <1>5

LEMMA CheckTyped ==
  ASSUME Typed, CheckReceipt  PROVE Typed'
<1>1. PICK i \in todo :
        /\ todo' = todo \ {i}
        /\ \/ UNCHANGED <<tx, cur, pc>> /\ (UNCHANGED faults \/ Fault("receipt"))
           \/ /\ tx' = [tx EXCEPT ![i.t].status = "reorged"]
              /\ cur' = [cur EXCEPT ![Loop] = [kind |-> "payment", x |-> To[i.t]]]
              /\ Goto(Loop, "revert")
              /\ UNCHANGED faults
  BY DEF CheckReceipt
<1>2. i \in Logs /\ i.t \in Transfers /\ To[i.t] \in Payments /\ Loop \in Actors
  BY DepositsAssumption DEF Typed, TypeOK, Logs, Actors
<1>3. faults' \in Nat
  BY <1>1 DEF Fault, Typed, TypeOK
<1>4. CASE UNCHANGED <<tx, cur, pc>>
  BY <1>1, <1>3, <1>4 DEF Typed, TypeOK, InHand, CheckReceipt, chainVars
<1>5. CASE /\ tx' = [tx EXCEPT ![i.t].status = "reorged"]
           /\ cur' = [cur EXCEPT ![Loop] = [kind |-> "payment", x |-> To[i.t]]]
           /\ Goto(Loop, "revert")
  <2> DEFINE r == [kind |-> "payment", x |-> To[i.t]]
  <2>1. r \in PayCur
    BY <1>2 DEF PayCur
  <2>2. cur' = [cur EXCEPT ![Loop] = r] /\ pc' = [pc EXCEPT ![Loop] = "revert"]
    BY <1>5 DEF Goto
  <2> HIDE DEF r
  <2>3. /\ cur' \in [Actors -> {NoCur} \cup LogCur \cup PayCur] /\ pc' \in [Actors -> PCs]
        /\ pc'[Loop] = "revert" /\ cur'[Loop] = r
        /\ \A b \in Actors \ {Loop} : pc'[b] = pc[b] /\ cur'[b] = cur[b]
    BY <1>2, <2>1, <2>2 DEF Typed, TypeOK, LogCur, PayCur, PCs
  <2>4. InHand'
    BY <1>2, <2>1, <2>3, InHandStep DEF Recording
  <2>5. tx' \in [Transfers -> TxRows]
    BY <1>2, <1>5 DEF Typed, TypeOK, TxRows
  <2>6. TypeOK'
    BY <1>1, <1>3, <2>3, <2>5 DEF Typed, TypeOK, CheckReceipt, LogCur, PayCur, TxRows, chainVars
  <2> QED  BY <2>4, <2>6 DEF Typed
<1> QED  BY <1>1, <1>4, <1>5

LEMMA RevertTyped ==
  ASSUME Typed, Revert  PROVE Typed'
<1>1. pc[Loop] = "revert" /\ cur[Loop].x \in Payments
  BY DEF Revert, Typed, InHand, PayCur
<1>2. status' \in [Payments -> Statuses] /\ received' \in [Payments -> Nat]
  BY <1>1, ReceivedType DEF Revert, Typed, TypeOK, Statuses, Live
<1>3. InHand' /\ pc' \in [Actors -> PCs] /\ cur' \in [Actors -> {NoCur} \cup LogCur \cup PayCur]
  <2>1. "check" \in PCs \ (Recording \cup {"revert", "deepen"})
    BY DEF PCs, Recording
  <2>2. pc' = [pc EXCEPT ![Loop] = "check"] /\ cur' = [cur EXCEPT ![Loop] = NoCur]
    BY DEF Revert, Goto
  <2> QED  BY <2>1, <2>2, LoopStep
<1> QED  BY <1>2, <1>3 DEF Typed, TypeOK, Revert, LogCur, PayCur, chainVars, passVars

LEMMA ScanTyped ==
  ASSUME Typed, Scan  PROVE Typed'
<1>1. InHand' /\ pc' \in [Actors -> PCs] /\ cur' \in [Actors -> {NoCur} \cup LogCur \cup PayCur]
  <2>1. "log" \in PCs \ (Recording \cup {"revert", "deepen"})
    BY DEF PCs, Recording
  <2>2. pc' = [pc EXCEPT ![Loop] = "log"] /\ cur' = cur
    BY DEF Scan, Goto
  <2> QED  BY <2>1, <2>2, LoopStep
<1>2. todo' \subseteq Logs /\ upto' \in Heights /\ faults' \in Nat /\ checked' \in Heights
  <2>1. CASE UNCHANGED <<todo, upto, faults>>
    BY <2>1 DEF Scan, Typed, TypeOK
  <2>2. CASE Behind
    <3>1. PICK S \in SUBSET Found :
             /\ todo' = {[t |-> t, block |-> at[t]] : t \in S}
             /\ \/ S = Found /\ upto' = ScanTo /\ UNCHANGED faults
                \/ Fault("query") /\ UNCHANGED upto
      BY <2>2 DEF Scan
    <3>2. todo' \subseteq Logs
      BY <3>1 DEF Typed, TypeOK, Logs, Found
    <3>3. upto' \in Heights /\ faults' \in Nat
      BY <2>2, <3>1, ScanToIs DEF Typed, TypeOK, Fault
    <3> QED  BY <3>2, <3>3 DEF Scan, Typed, TypeOK
  <2> QED  BY <2>1, <2>2 DEF Scan
<1> QED  BY <1>1, <1>2 DEF Typed, TypeOK, Scan, LogCur, PayCur, chainVars, dbVars

LEMMA RecordNextTyped ==
  ASSUME Typed, RecordNext  PROVE Typed'
<1>1. PICK i \in todo : todo' = todo \ {i} /\ Match(Loop, i.t, i.block)
  BY DEF RecordNext
<1>2. i.t \in Transfers /\ i.block \in Heights /\ Loop \in Actors /\ pc[Loop] = "log"
  BY DEF Typed, TypeOK, Logs, Actors, RecordNext
<1>3. /\ listed' \subseteq Payments /\ cur' \in [Actors -> {NoCur} \cup LogCur \cup PayCur]
      /\ pc' \in [Actors -> PCs]
      /\ pc' = pc \/ (pc'[Loop] = "insert" /\ cur'[Loop] \in LogCur)
      /\ \A d \in Actors \ {Loop} : pc'[d] = pc[d] /\ cur'[d] = cur[d]
      /\ pc' = pc => cur' = cur
  BY <1>1, <1>2, MatchTyped
<1>4. InHand'
  BY <1>2, <1>3, InHandStep DEF Recording
<1>5. TypeOK'
  BY <1>1, <1>3 DEF Typed, TypeOK, RecordNext, LogCur, PayCur, chainVars
<1> QED  BY <1>4, <1>5 DEF Typed

LEMMA SettleTyped ==
  ASSUME Typed, Settle  PROVE Typed'
<1>1. PICK i \in ready :
       LET x == i.x
           open == /\ status[x] \in {"confirming", "partial"}
                   /\ i.paid \/ received[x] < Due[x] IN
       /\ ready' = ready \ {i}
       /\ IF open
            THEN /\ status' = [status EXCEPT ![x] = IF i.paid THEN "confirmed" ELSE "partial"]
                 /\ cur' = [cur EXCEPT ![Loop] = [kind |-> "payment", x |-> x]]
                 /\ Goto(Loop, "deepen")
            ELSE UNCHANGED <<status, cur, pc>>
  BY DEF Settle
<1>2. i.x \in Payments /\ Loop \in Actors
  BY DEF Typed, TypeOK, Actors
<1>3. status' \in [Payments -> Statuses]
  BY <1>1, <1>2 DEF Typed, TypeOK, Statuses, Live
<1>4. CASE UNCHANGED <<cur, pc>>
  BY <1>1, <1>3, <1>4 DEF Typed, TypeOK, InHand, Settle, chainVars
<1>5. CASE cur' = [cur EXCEPT ![Loop] = [kind |-> "payment", x |-> i.x]] /\ Goto(Loop, "deepen")
  <2> DEFINE r == [kind |-> "payment", x |-> i.x]
  <2>1. r \in PayCur
    BY <1>2 DEF PayCur
  <2>2. cur' = [cur EXCEPT ![Loop] = r] /\ pc' = [pc EXCEPT ![Loop] = "deepen"]
    BY <1>5 DEF Goto
  <2> HIDE DEF r
  <2>3. /\ cur' \in [Actors -> {NoCur} \cup LogCur \cup PayCur] /\ pc' \in [Actors -> PCs]
        /\ pc'[Loop] = "deepen" /\ cur'[Loop] = r
        /\ \A b \in Actors \ {Loop} : pc'[b] = pc[b] /\ cur'[b] = cur[b]
    BY <1>2, <2>1, <2>2 DEF Typed, TypeOK, LogCur, PayCur, PCs
  <2>4. InHand'
    BY <1>2, <2>1, <2>3, InHandStep DEF Recording
  <2>5. TypeOK'
    BY <1>1, <1>3, <2>3 DEF Typed, TypeOK, Settle, LogCur, PayCur, chainVars
  <2> QED  BY <2>4, <2>5 DEF Typed
<1> QED  BY <1>1, <1>4, <1>5

LEMMA PromoteTyped ==
  ASSUME Typed, SelectReady \/ Deepen \/ DeepenRest \/ WriteCursor
  PROVE  Typed'
<1>0. /\ {"settle", "write", "idle"} \subseteq PCs \ (Recording \cup {"revert", "deepen"})
      /\ 0 \in Heights
  BY DepositsAssumption DEF PCs, Recording, Heights
<1>1. CASE SelectReady
  <2>0. ASSUME NEW y \in Payments  PROVE FullyPaid(y) \in BOOLEAN
    BY DEF FullyPaid
  <2>1. ready' \subseteq [x : Payments, paid : BOOLEAN]
    BY <1>1, <2>0 DEF SelectReady
  <2>2. pc' = [pc EXCEPT ![Loop] = "settle"] /\ cur' = cur
    BY <1>1 DEF SelectReady, Goto
  <2>3. InHand' /\ pc' \in [Actors -> PCs] /\ cur' \in [Actors -> {NoCur} \cup LogCur \cup PayCur]
    BY <1>0, <2>2, LoopStep
  <2> QED  BY <1>1, <2>1, <2>3 DEF Typed, TypeOK, SelectReady, LogCur, PayCur, chainVars, dbVars
<1>2. CASE Deepen
  <2>1. tx' \in [Transfers -> TxRows]
    BY <1>2, ConfirmedType DEF Deepen
  <2>2. pc' = [pc EXCEPT ![Loop] = "settle"] /\ cur' = [cur EXCEPT ![Loop] = NoCur]
    BY <1>2 DEF Deepen, Goto
  <2>3. InHand' /\ pc' \in [Actors -> PCs] /\ cur' \in [Actors -> {NoCur} \cup LogCur \cup PayCur]
    BY <1>0, <2>2, LoopStep
  <2> QED  BY <1>2, <2>1, <2>3 DEF Typed, TypeOK, Deepen, LogCur, PayCur, TxRows, chainVars, passVars
<1>3. CASE DeepenRest
  <2>1. tx' \in [Transfers -> TxRows]
    BY <1>3, ConfirmedType DEF DeepenRest
  <2>2. (\E l \in {"write", "idle"} : pc' = [pc EXCEPT ![Loop] = l]) /\ cur' = cur
        /\ top' \in Heights /\ upto' \in Heights
    BY <1>0, <1>3 DEF DeepenRest, EndPass, Goto, Typed, TypeOK
  <2>3. InHand' /\ pc' \in [Actors -> PCs] /\ cur' \in [Actors -> {NoCur} \cup LogCur \cup PayCur]
    BY <1>0, <2>2, LoopStep
  <2> QED  BY <1>3, <2>1, <2>2, <2>3 DEF Typed, TypeOK, DeepenRest, LogCur, PayCur, TxRows, chainVars
<1>4. CASE WriteCursor
  <2>1. pc' = [pc EXCEPT ![Loop] = "idle"] /\ cur' = cur /\ top' \in Heights /\ upto' \in Heights
    BY <1>0, <1>4 DEF WriteCursor, EndPass, Goto
  <2>2. InHand' /\ pc' \in [Actors -> PCs] /\ cur' \in [Actors -> {NoCur} \cup LogCur \cup PayCur]
    BY <1>0, <2>1, LoopStep
  <2> QED  BY <1>4, <2>1, <2>2 DEF Typed, TypeOK, WriteCursor, LogCur, PayCur, chainVars
<1> QED  BY <1>1, <1>2, <1>3, <1>4

LEMMA StopTyped ==
  ASSUME Typed, Crash \/ \E a \in Actors : Abort(a)
  PROVE  Typed'
<1>0. "idle" \in PCs /\ 0 \in Heights /\ LivePayments \subseteq Payments /\ faults' \in Nat
  BY DepositsAssumption DEF PCs, Heights, LivePayments, Crash, Abort, Fault, Typed, TypeOK
<1>1. CASE Crash
  BY <1>0, <1>1 DEF Typed, TypeOK, InHand, Crash, Recording, Actors, chainVars, dbVars
<1>2. ASSUME NEW a \in Actors, Abort(a)  PROVE Typed'
  <2>1. /\ cur' = [cur EXCEPT ![a] = NoCur] /\ pc' = [pc EXCEPT ![a] = "idle"]
        /\ top' \in Heights /\ todo' \subseteq todo /\ ready' \subseteq ready /\ upto' \in Heights
    BY <1>0, <1>2 DEF Abort, EndPass, Goto, Typed, TypeOK, passVars
  <2>2. /\ \A b \in Actors \ {a} : pc'[b] = pc[b] /\ cur'[b] = cur[b]
        /\ pc'[a] = "idle" /\ pc' \in [Actors -> PCs]
        /\ cur' \in [Actors -> {NoCur} \cup LogCur \cup PayCur]
    BY <1>0, <2>1 DEF Typed, TypeOK, LogCur, PayCur
  <2>3. InHand'
    BY <2>2, InHandStep DEF Recording
  <2> QED  BY <1>0, <1>2, <2>1, <2>2, <2>3 DEF Typed, TypeOK, Abort, LogCur, PayCur, chainVars, dbVars
<1> QED  BY <1>1, <1>2

LEMMA WorldTyped ==
  ASSUME Typed, head >= Start,
         Mine \/ Reorganise \/ Backstop
           \/ \E x \in Payments : Create(x) \/ Expire(x) \/ ReapLate(x) \/ Sweep(x)
  PROVE  Typed'
<1>1. CASE Mine
  <2>1. head' \in Heights /\ head + 1 \in Heights /\ faults' \in Nat
    BY <1>1, DepositsAssumption DEF Mine, Fault, Typed, TypeOK, Heights
  <2> QED  BY <1>1, <2>1 DEF Mine, Typed, TypeOK, InHand, passVars, dbVars
<1>2. CASE Reorganise
  <2>1. PICK t \in Transfers, b \in {0} \cup (head - MaxReorg + 1)..head :
          at[t] > head - MaxReorg /\ b # at[t] /\ at' = [at EXCEPT ![t] = b]
    BY <1>2 DEF Reorganise
  <2>2. b \in Heights
    BY DepositsAssumption DEF Typed, TypeOK, Heights, Start
  <2>3. at' \in [Transfers -> Heights] /\ faults' \in Nat
    BY <1>2, <2>1, <2>2 DEF Reorganise, Typed, TypeOK, Fault
  <2> QED  BY <1>2, <2>3 DEF Reorganise, Typed, TypeOK, InHand, passVars, dbVars
<1>3. CASE Backstop
  BY <1>3 DEF Backstop, LivePayments, Typed, TypeOK, InHand, passVars, chainVars, dbVars
<1>4. ASSUME NEW x \in Payments, Create(x) \/ Expire(x) \/ ReapLate(x) \/ Sweep(x)
      PROVE  Typed'
  <2>1. status' \in [Payments -> Statuses] /\ listed' \subseteq Payments
    BY <1>4 DEF Create, Expire, ReapLate, Sweep, Typed, TypeOK, Statuses, Live
  <2> QED  BY <1>4, <2>1 DEF Create, Expire, ReapLate, Sweep, Typed, TypeOK, InHand, passVars, chainVars
<1> QED  BY <1>1, <1>2, <1>3, <1>4

\* The chain only grows.
LEMMA HeadGrows ==
  ASSUME Typed, [Next]_vars
  PROVE  head' = head \/ (Mine /\ head' = head + 1)
BY DEF Next, vars, chainVars, Mine, Reorganise, Backstop, Crash, Pass, Begin, RefreshWatch, SelectRecent,
       CheckReceipt, Revert, Scan, RecordNext, SelectReady, Settle, Deepen, DeepenRest,
       WriteCursor, Insert, Advance, Refresh, Create, Expire, ReapLate, Sweep, Handle, Deliver,
       Abort

LEMMA NextTyped == TypedInv /\ [Next]_vars => TypedInv'
<1> SUFFICES ASSUME Typed, head >= Start, [Next]_vars  PROVE Typed' /\ head' >= Start
  BY DEF TypedInv, Start
<1>0. head' >= Start
  BY HeadGrows, DepositsAssumption DEF Typed, TypeOK, Heights, Start
<1>1. ASSUME UNCHANGED vars  PROVE Typed'
  BY <1>1 DEF Typed, TypeOK, InHand, vars, chainVars, dbVars, passVars
<1>2. ASSUME Pass  PROVE Typed'
  <2>1. Loop \in Actors
    BY DEF Actors
  <2> QED  BY <1>2, <2>1, RecordTyped, BeginTyped, CheckTyped, RevertTyped, ScanTyped,
              RecordNextTyped, SettleTyped, PromoteTyped DEF Pass
<1>3. ASSUME NEW c \in Callbacks, Handle(c) \/ \E t \in Transfers : Deliver(c, t)
      PROVE  Typed'
  <2>1. c \in Actors
    BY DEF Actors
  <2> QED  BY <1>3, <2>1, RecordTyped, DeliverTyped DEF Handle
<1> QED  BY <1>0, <1>1, <1>2, <1>3, WorldTyped, StopTyped DEF Next

\* Every variable keeps its type.
THEOREM DepositsTyped == Spec => []TypeOK
<1>1. Init => TypedInv
  BY InitTyped, DepositsAssumption DEF Init, Start, TypedInv
<1>2. TypedInv => TypeOK
  BY DEF Typed, TypedInv
<1> QED  BY <1>1, <1>2, NextTyped, PTL DEF Spec

-----------------------------------------------------------------------------
(* The clock: while the listener keeps up, nothing it works with is older     *)
(* than MaxLag blocks.                                                        *)

KeptUp ==
  /\ checked <= head /\ head <= checked + MaxLag
  /\ pc[Loop] # "idle" => checked <= top /\ top <= head
  /\ \A c \in Callbacks : pc[c] # "idle" =>
       cur[c].block <= head /\ head <= cur[c].block + MaxLag

\* Another actor's step leaves a callback alone; its own keeps the log it has.
LEMMA CallbackStep ==
  ASSUME Typed, [Next]_vars, NEW c \in Callbacks, pc'[c] # "idle"
  PROVE  \/ pc[c] # "idle" /\ cur'[c] = cur[c]
         \/ pc[c] = "idle" /\ pc'[c] = "insert" /\ \E t \in Transfers :
              Deliver(c, t)
                /\ cur'[c] = [kind |-> "log", t |-> t, block |-> head, was |-> status[To[t]]]
<1>1. /\ c \in Actors /\ Loop \in Actors /\ c # Loop
      /\ pc \in [Actors -> PCs] /\ DOMAIN cur = Actors
  BY DepositsAssumption DEF Typed, TypeOK, Actors
<1>2. CASE pc'[c] = pc[c] /\ cur'[c] = cur[c]
  BY <1>2
<1>3. CASE Pass
  BY <1>1, <1>2, <1>3
     DEF Pass, Begin, RefreshWatch, SelectRecent, CheckReceipt, Revert, Scan, RecordNext, Match,
         SelectReady, Settle, Deepen, DeepenRest, EndPass, WriteCursor, Insert, Advance,
         Refresh, Recorded, Goto
<1>4. ASSUME NEW d \in Callbacks, Handle(d)
      PROVE  (pc'[c] = pc[c] /\ cur'[c] = cur[c]) \/ (pc[c] # "idle" /\ cur'[c] = cur[c])
  BY <1>1, <1>4 DEF Handle, Insert, Advance, Refresh, Recorded, Goto, Actors
<1>5. ASSUME NEW d \in Callbacks, NEW t \in Transfers, Deliver(d, t), c # d
      PROVE  pc'[c] = pc[c] /\ cur'[c] = cur[c]
  BY <1>1, <1>5 DEF Deliver, Match, Goto, Actors
<1>6. ASSUME NEW t \in Transfers, Deliver(c, t)
      PROVE  pc[c] = "idle" /\ pc'[c] = "insert"
               /\ cur'[c] = [kind |-> "log", t |-> t, block |-> head, was |-> status[To[t]]]
  BY <1>1, <1>6 DEF Deliver, Match, Goto, Actors
<1>7. ASSUME NEW a \in Actors, Abort(a)
      PROVE  pc'[c] = pc[c] /\ cur'[c] = cur[c]
  BY <1>1, <1>7 DEF Abort, EndPass, Goto
<1>8. CASE Crash
  BY <1>1, <1>8 DEF Crash
<1>9. CASE \/ UNCHANGED vars \/ Mine \/ Reorganise \/ Backstop
           \/ \E x \in Payments : Create(x) \/ Expire(x) \/ ReapLate(x) \/ Sweep(x)
  BY <1>2, <1>9 DEF vars, Mine, Reorganise, Backstop, Create, Expire, ReapLate, Sweep
<1> QED  BY <1>2, <1>3, <1>4, <1>5, <1>6, <1>7, <1>8, <1>9 DEF Next

\* A reorg check is completed only by Scan.
LEMMA CheckedStep ==
  ASSUME Typed, [Next]_vars
  PROVE  checked' = checked \/ (Scan /\ checked' = top)
BY DEF Next, vars, Mine, Reorganise, Backstop, Crash, Pass, Begin, RefreshWatch, SelectRecent,
       CheckReceipt, Revert, Scan, RecordNext, SelectReady, Settle, Deepen, DeepenRest,
       WriteCursor, Insert, Advance, Refresh, Create, Expire, ReapLate, Sweep, Handle, Deliver,
       Abort

\* A pass reads the head once, when it begins.
LEMMA TopStep ==
  ASSUME Typed, [Next]_vars, pc'[Loop] # "idle"
  PROVE  (pc[Loop] # "idle" /\ top' = top) \/ (Begin /\ top' = head)
<1>1. Loop \in Actors /\ pc \in [Actors -> PCs] /\ Loop \notin Callbacks
  BY DepositsAssumption DEF Typed, TypeOK, Actors
<1>2. CASE Pass
  BY <1>1, <1>2
     DEF Pass, Begin, RefreshWatch, SelectRecent, CheckReceipt, Revert, Scan, RecordNext, Match,
         SelectReady, Settle, Deepen, DeepenRest, EndPass, WriteCursor, Insert, Advance,
         Refresh, Recorded, Goto, passVars
<1>3. ASSUME NEW c \in Callbacks, Handle(c) \/ \E t \in Transfers : Deliver(c, t)
      PROVE  pc'[Loop] = pc[Loop] /\ top' = top
  BY <1>1, <1>3 DEF Handle, Insert, Advance, Refresh, Recorded, Goto, Deliver, Match, passVars
<1>4. ASSUME NEW a \in Actors, Abort(a)
      PROVE  pc'[Loop] = pc[Loop] /\ top' = top
  BY <1>1, <1>4 DEF Abort, EndPass, Goto, passVars
<1>5. CASE Crash
  BY <1>1, <1>5 DEF Crash
<1>6. CASE \/ UNCHANGED vars \/ Mine \/ Reorganise \/ Backstop
           \/ \E x \in Payments : Create(x) \/ Expire(x) \/ ReapLate(x) \/ Sweep(x)
  BY <1>6 DEF vars, Mine, Reorganise, Backstop, Create, Expire, ReapLate, Sweep, passVars
<1> QED  BY <1>2, <1>3, <1>4, <1>5, <1>6, DepositsAssumption DEF Next

LEMMA KeptUpStep ==
  ASSUME Typed, KeptUp, [Next]_vars, "lag" \notin Faults
  PROVE  KeptUp'
<1>1. /\ head \in Int /\ checked \in Int /\ top \in Int /\ MaxLag \in Int /\ MaxLag > 0
      /\ \A c \in Callbacks : pc[c] # "idle" => cur[c].block \in Int
  BY DepositsAssumption DEF Typed, TypeOK, InHand, Heights, LogCur, Actors
<1>2. head' = head \/ (Mine /\ head' = head + 1 /\ KeepsUp)
  BY HeadGrows DEF Mine, Fault
<1>3. checked' <= head' /\ head' <= checked' + MaxLag
  <2>1. CASE Scan
    BY <1>1, <2>1 DEF Scan, KeptUp, chainVars
  <2>2. CASE checked' = checked
    BY <1>1, <1>2, <2>2 DEF KeptUp, KeepsUp
  <2> QED  BY <2>1, <2>2, CheckedStep
<1>4. ASSUME pc'[Loop] # "idle"  PROVE checked' <= top' /\ top' <= head'
  <2>1. CASE pc[Loop] # "idle" /\ top' = top
    BY <1>1, <1>2, <2>1, CheckedStep DEF KeptUp
  <2>2. CASE Begin /\ top' = head
    BY <1>1, <2>2 DEF Begin, KeptUp, chainVars
  <2> QED  BY <1>4, <2>1, <2>2, TopStep
<1>5. ASSUME NEW c \in Callbacks, pc'[c] # "idle"
      PROVE  cur'[c].block <= head' /\ head' <= cur'[c].block + MaxLag
  <2>1. CASE pc[c] # "idle" /\ cur'[c] = cur[c]
    BY <1>1, <1>2, <2>1 DEF KeptUp, KeepsUp
  <2>2. ASSUME NEW t \in Transfers, Deliver(c, t),
               cur'[c] = [kind |-> "log", t |-> t, block |-> head, was |-> status[To[t]]]
        PROVE  cur'[c].block <= head' /\ head' <= cur'[c].block + MaxLag
    <3>1. head' = head /\ cur'[c].block = head
      BY <2>2 DEF Deliver, chainVars
    <3> QED  BY <1>1, <3>1
  <2> QED  BY <1>5, <2>1, <2>2, CallbackStep
<1> QED  BY <1>3, <1>4, <1>5 DEF KeptUp

-----------------------------------------------------------------------------
(* Who changes a row, a recorder and a payment.                               *)

Counts == {"pending", "confirmed"}

\* A row is inserted, found gone, or deepened.
LEMMA RowStep ==
  ASSUME Typed, [Next]_vars, NEW t \in Transfers
  PROVE  \/ tx'[t] = tx[t]
         \/ \E a \in Actors : /\ Insert(a) /\ cur[a].t = t
                              /\ tx'[t].block = cur[a].block /\ tx'[t].status \in Counts
         \/ CheckReceipt /\ tx'[t].status = "reorged" /\ tx'[t].block = tx[t].block
         \/ /\ Deepen \/ DeepenRest
            /\ tx[t].status = "pending" /\ tx'[t].status = "confirmed" /\ tx'[t].block = tx[t].block
<1>0. tx \in [Transfers -> TxRows] /\ Loop \in Actors /\ Callbacks \subseteq Actors
  BY DEF Typed, TypeOK, TxRows, Actors
<1>1. ASSUME NEW a \in Actors, Insert(a)
      PROVE  \/ tx'[t] = tx[t]
             \/ cur[a].t = t /\ tx'[t].block = cur[a].block /\ tx'[t].status \in Counts
  BY <1>0, <1>1 DEF Insert, Counts, TxRows
<1>2. ASSUME CheckReceipt
      PROVE  \/ tx'[t] = tx[t]
             \/ tx'[t].status = "reorged" /\ tx'[t].block = tx[t].block
  <2>1. PICK i \in todo : tx' = tx \/ tx' = [tx EXCEPT ![i.t].status = "reorged"]
    BY <1>2 DEF CheckReceipt
  <2>2. CASE tx' = tx
    BY <2>2
  <2>3. CASE tx' = [tx EXCEPT ![i.t].status = "reorged"] /\ i.t = t
    <3>1. tx'[t] = [tx[t] EXCEPT !.status = "reorged"]
      BY <1>0, <2>3
    <3>2. tx[t] \in TxRows
      BY <1>0
    <3> QED  BY <3>1, <3>2 DEF TxRows
  <2>4. CASE tx' = [tx EXCEPT ![i.t].status = "reorged"] /\ i.t # t
    BY <1>0, <2>4
  <2> QED  BY <2>1, <2>2, <2>3, <2>4
<1>3. ASSUME NEW S, tx' = Confirmed(S), \A u \in S : tx[u].status = "pending"
      PROVE  \/ tx'[t] = tx[t]
             \/ tx[t].status = "pending" /\ tx'[t].status = "confirmed" /\ tx'[t].block = tx[t].block
  BY <1>0, <1>3 DEF Confirmed, TxRows
<1>4. CASE Deepen
  <2>1. \A u \in PendingDeep(cur[Loop].x) : tx[u].status = "pending"
    BY DEF PendingDeep
  <2> QED  BY <1>3, <1>4, <2>1 DEF Deepen
<1>5. CASE DeepenRest
  <2> DEFINE S == UNION {PendingDeep(x) :
                           x \in {y \in Payments : status[y] \in {"confirmed", "swept"}}}
  <2>1. \A u \in S : tx[u].status = "pending"
    BY DEF PendingDeep
  <2>2. tx' = Confirmed(S)
    BY <1>5 DEF DeepenRest
  <2> HIDE DEF S
  <2> QED  BY <1>3, <1>5, <2>1, <2>2
<1>6. CASE \/ UNCHANGED vars \/ Mine \/ Reorganise \/ Backstop \/ Crash
           \/ \E x \in Payments : Create(x) \/ Expire(x) \/ ReapLate(x) \/ Sweep(x)
           \/ \E a \in Actors : Abort(a) \/ Advance(a) \/ Refresh(a)
           \/ \E c \in Callbacks, u \in Transfers : Deliver(c, u)
  BY <1>6 DEF vars, dbVars, Mine, Reorganise, Backstop, Crash, Create, Expire, ReapLate, Sweep, Abort,
              Advance, Refresh, Deliver
<1>7. CASE \/ Begin \/ RefreshWatch \/ SelectRecent \/ Revert \/ Scan \/ RecordNext
           \/ SelectReady \/ Settle \/ WriteCursor
  BY <1>7 DEF Begin, RefreshWatch, SelectRecent, Revert, Scan, RecordNext, SelectReady, Settle,
              WriteCursor, dbVars
<1> QED  BY <1>0, <1>1, <1>2, <1>4, <1>5, <1>6, <1>7 DEF Next, Pass, Handle

\* A recorder keeps its log, or has just been given one of a live payment.
LEMMA RecorderStep ==
  ASSUME Typed, [Next]_vars, NEW a \in Actors, pc'[a] \in Recording
  PROVE  \/ pc[a] \in Recording /\ cur'[a] = cur[a]
         \/ \E i \in Logs :
              /\ pc'[a] = "insert" /\ Match(a, i.t, i.block)
              /\ cur'[a] = [kind |-> "log", t |-> i.t, block |-> i.block,
                            was |-> status[To[i.t]]]
              /\ status[To[i.t]] \in Live /\ Asset[i.t] = Awaits[To[i.t]]
              /\ \/ a \in Callbacks /\ Deliver(a, i.t) /\ i.block = at[i.t]
                 \/ a = Loop /\ RecordNext /\ i \in todo /\ todo' = todo \ {i}
<1>1. /\ Loop \in Actors /\ Loop \notin Callbacks /\ Callbacks \subseteq Actors
      /\ pc \in [Actors -> PCs] /\ DOMAIN cur = Actors
      /\ at \in [Transfers -> Heights] /\ todo \subseteq Logs
  BY DepositsAssumption DEF Typed, TypeOK, Actors
<1>2. CASE pc'[a] = pc[a] /\ cur'[a] = cur[a]
  BY <1>2
<1>3. ASSUME NEW b \in Actors, Insert(b) \/ Advance(b) \/ Refresh(b)
      PROVE  pc[a] \in Recording /\ cur'[a] = cur[a]
  BY <1>1, <1>3 DEF Insert, Advance, Refresh, Recorded, Goto, Recording
<1>4. ASSUME NEW c \in Callbacks, NEW t \in Transfers, Deliver(c, t), a # c
      PROVE  pc'[a] = pc[a] /\ cur'[a] = cur[a]
  BY <1>1, <1>4 DEF Deliver, Match, Goto
<1>5. ASSUME NEW t \in Transfers, Deliver(a, t), a \in Callbacks
      PROVE  LET i == [t |-> t, block |-> at[t]] IN
             /\ i \in Logs /\ pc'[a] = "insert" /\ Match(a, i.t, i.block)
             /\ cur'[a] = [kind |-> "log", t |-> i.t, block |-> i.block,
                           was |-> status[To[i.t]]]
             /\ status[To[i.t]] \in Live /\ Asset[i.t] = Awaits[To[i.t]]
             /\ Deliver(a, i.t) /\ i.block = at[i.t]
  BY <1>1, <1>5 DEF Deliver, Match, Goto, Logs, Recording
<1>6. CASE RecordNext
  <2>1. PICK i \in todo : todo' = todo \ {i} /\ Match(Loop, i.t, i.block)
    BY <1>6 DEF RecordNext
  <2>2. pc[Loop] = "log"
    BY <1>6 DEF RecordNext
  <2>3. CASE a # Loop
    BY <1>1, <1>2, <2>1, <2>3 DEF Match, Goto
  <2>4. CASE a = Loop
    <3>1. /\ status[To[i.t]] \in Live /\ Asset[i.t] = Awaits[To[i.t]]
          /\ pc' = [pc EXCEPT ![a] = "insert"]
          /\ cur' = [cur EXCEPT ![a] = [kind |-> "log", t |-> i.t, block |-> i.block,
                                        was |-> status[To[i.t]]]]
      BY <1>1, <2>1, <2>2, <2>4 DEF Match, Goto, Recording
    <3>2. i \in Logs /\ pc'[a] = "insert"
          /\ cur'[a] = [kind |-> "log", t |-> i.t, block |-> i.block, was |-> status[To[i.t]]]
      BY <1>1, <3>1
    <3> QED  BY <1>6, <2>1, <2>4, <3>1, <3>2
  <2> QED  BY <2>3, <2>4
<1>7. CASE Begin \/ RefreshWatch \/ SelectRecent \/ CheckReceipt \/ Revert \/ Scan
  BY <1>1, <1>2, <1>7
     DEF Begin, RefreshWatch, SelectRecent, CheckReceipt, Revert, Scan, Goto, Recording
<1>8. CASE SelectReady \/ Settle \/ Deepen \/ DeepenRest \/ WriteCursor
  BY <1>1, <1>2, <1>8
     DEF SelectReady, Settle, Deepen, DeepenRest, EndPass, WriteCursor, Goto, Recording
<1>9. ASSUME NEW b \in Actors, Abort(b)
      PROVE  pc'[a] = pc[a] /\ cur'[a] = cur[a]
  BY <1>1, <1>9 DEF Abort, EndPass, Goto, Recording
<1>10. CASE Crash
  BY <1>1, <1>10 DEF Crash, Recording
<1>11. CASE \/ UNCHANGED vars \/ Mine \/ Reorganise \/ Backstop
            \/ \E x \in Payments : Create(x) \/ Expire(x) \/ ReapLate(x) \/ Sweep(x)
  BY <1>2, <1>11 DEF vars, Mine, Reorganise, Backstop, Create, Expire, ReapLate, Sweep
<1> QED  BY <1>1, <1>2, <1>3, <1>4, <1>5, <1>6, <1>7, <1>8, <1>9, <1>10, <1>11 DEF Next, Pass, Handle

\* A payment is created, expires, is advanced, reverted, settled or swept.
LEMMA StatusStep ==
  ASSUME Typed, [Next]_vars, NEW x \in Payments, status'[x] # status[x]
  PROVE  \/ status[x] = "none" /\ status'[x] = "waiting" /\ UNCHANGED <<tx, received>>
         \/ status[x] = "waiting" /\ status'[x] = "expired"
         \/ status[x] = "waiting" /\ status'[x] = "confirming"
         \/ Revert /\ cur[Loop].x = x /\ status[x] \in {"confirmed", "confirming"}
              /\ status'[x] = "waiting"
         \/ Settle /\ status[x] \in {"confirming", "partial"} /\ UNCHANGED <<tx, received>>
              /\ \E i \in ready : i.x = x /\ status'[x] = IF i.paid THEN "confirmed" ELSE "partial"
         \/ status[x] = "confirmed" /\ status'[x] = "swept" /\ UNCHANGED <<tx, received>>
<1>0. status \in [Payments -> Statuses] /\ Loop \in Actors
  BY DEF Typed, TypeOK, Actors
<1>1. CASE \E y \in Payments : Create(y) \/ Expire(y) \/ ReapLate(y) \/ Sweep(y)
  BY <1>0, <1>1 DEF Create, Expire, ReapLate, Sweep
<1>2. ASSUME NEW a \in Actors, Advance(a) \/ Refresh(a)
      PROVE  status[x] = "waiting" /\ status'[x] = "confirming"
  BY <1>0, <1>2 DEF Advance, Refresh
<1>3. CASE Revert
  BY <1>0, <1>3 DEF Revert
<1>4. CASE Settle
  BY <1>0, <1>4 DEF Settle
<1>5. CASE \/ UNCHANGED vars \/ Mine \/ Reorganise \/ Backstop \/ Crash
           \/ \E a \in Actors : Abort(a) \/ Insert(a)
           \/ \E c \in Callbacks, u \in Transfers : Deliver(c, u)
  BY <1>5 DEF vars, dbVars, Mine, Reorganise, Backstop, Crash, Abort, Insert, Deliver
<1>6. CASE \/ Begin \/ RefreshWatch \/ SelectRecent \/ CheckReceipt \/ Scan \/ RecordNext
           \/ SelectReady \/ Deepen \/ DeepenRest \/ WriteCursor
  BY <1>6 DEF Begin, RefreshWatch, SelectRecent, CheckReceipt, Scan, RecordNext, SelectReady,
              Deepen, DeepenRest, WriteCursor, dbVars
<1>7. Callbacks \subseteq Actors
  BY DEF Actors
<1> QED  BY <1>0, <1>1, <1>2, <1>3, <1>4, <1>5, <1>6, <1>7 DEF Next, Pass, Handle

\* What a payment has received is summed anew, or stays.
LEMMA ReceivedStep ==
  ASSUME Typed, [Next]_vars, NEW x \in Payments
  PROVE  \/ received'[x] = received[x]
         \/ received'[x] = ReceivedSum(x) /\ tx' = tx /\ status[x] \in Live
              /\ \E a \in Actors : Refresh(a)
         \/ received'[x] = ReceivedSum(x) /\ tx' = tx /\ Revert /\ status'[x] = "waiting"
<1>0. received \in [Payments -> Nat] /\ status \in [Payments -> Statuses]
  BY DEF Typed, TypeOK
<1>1. ASSUME NEW a \in Actors, Refresh(a)
      PROVE  \/ received'[x] = received[x]
             \/ received'[x] = ReceivedSum(x) /\ tx' = tx /\ status[x] \in Live
  BY <1>0, <1>1 DEF Refresh
<1>2. CASE Revert
  BY <1>0, <1>2 DEF Revert
<1>3. CASE \/ UNCHANGED vars \/ Mine \/ Reorganise \/ Backstop \/ Crash
           \/ \E y \in Payments : Create(y) \/ Expire(y) \/ ReapLate(y) \/ Sweep(y)
           \/ \E a \in Actors : Abort(a) \/ Insert(a) \/ Advance(a)
           \/ \E c \in Callbacks, u \in Transfers : Deliver(c, u)
  BY <1>3 DEF vars, dbVars, Mine, Reorganise, Backstop, Crash, Abort, Insert, Advance, Deliver,
              Create, Expire, ReapLate, Sweep
<1>4. CASE \/ Begin \/ RefreshWatch \/ SelectRecent \/ CheckReceipt \/ Scan \/ RecordNext
           \/ SelectReady \/ Settle \/ Deepen \/ DeepenRest \/ WriteCursor
  BY <1>4 DEF Begin, RefreshWatch, SelectRecent, CheckReceipt, Scan, RecordNext, SelectReady,
              Settle, Deepen, DeepenRest, WriteCursor, dbVars
<1>5. Callbacks \subseteq Actors /\ Loop \in Actors
  BY DEF Actors
<1> QED  BY <1>1, <1>2, <1>3, <1>4, <1>5 DEF Next, Pass, Handle

-----------------------------------------------------------------------------
(* A confirmed payment is credited with its price.                            *)

\* Nothing has been recorded for a payment that does not exist yet.
Born ==
  \A t \in Transfers : status[To[t]] = "none" =>
    /\ tx[t].status \notin Counts
    /\ \A a \in Actors : pc[a] \in Recording => cur[a].t # t

LEMMA BornStep ==
  ASSUME Typed, Born, [Next]_vars
  PROVE  Born'
<1> SUFFICES ASSUME NEW t \in Transfers, status'[To[t]] = "none"
             PROVE  /\ tx'[t].status \notin Counts
                    /\ \A a \in Actors : pc'[a] \in Recording => cur'[a].t # t
  BY DEF Born, Counts, Recording, Actors
<1>1. status[To[t]] = "none" /\ To[t] \in Payments
  <2>1. To[t] \in Payments
    BY DepositsAssumption
  <2> QED  BY <2>1, StatusStep
<1>2. tx'[t].status \notin Counts
  <2>1. ASSUME NEW a \in Actors, Insert(a)  PROVE cur[a].t # t
    BY <1>1, <2>1 DEF Born, Insert, Recording
  <2> QED  BY <1>1, <2>1, RowStep DEF Born, Counts
<1>3. ASSUME NEW a \in Actors, pc'[a] \in Recording  PROVE cur'[a].t # t
  <2>1. CASE pc[a] \in Recording /\ cur'[a] = cur[a]
    BY <1>1, <2>1 DEF Born
  <2>2. CASE \E i \in Logs : cur'[a] = [kind |-> "log", t |-> i.t, block |-> i.block,
                                        was |-> status[To[i.t]]] /\ status[To[i.t]] \in Live
    BY <1>1, <2>2 DEF Live
  <2> QED  BY <1>3, <2>1, <2>2, RecorderStep
<1> QED  BY <1>2, <1>3

\* The rows whose recorder has not come to the total, and the others of x.
Uncounted(t) ==
  \E a \in Actors : /\ pc[a] \in {"advance", "total"}
                    /\ cur[a].t = t /\ cur[a].block = tx[t].block
Counted(x) == {t \in Rows(x) : ~Uncounted(t)}

\* What is not to be counted any more is in amount_received.
CountedIsReceived ==
  \A x \in Payments : status[x] \in Live => Total(Counted(x)) <= received[x]

\* A recorder that has inserted its row comes to its total.
LEMMA TotalComes ==
  ASSUME Typed, [Next]_vars, "torn" \notin Faults,
         NEW a \in Actors, pc[a] \in {"advance", "total"}, ~Refresh(a)
  PROVE  pc'[a] \in {"advance", "total"} /\ cur'[a] = cur[a]
<1>1. /\ Loop \in Actors /\ Loop \notin Callbacks /\ Callbacks \subseteq Actors
      /\ pc \in [Actors -> PCs] /\ DOMAIN cur = Actors
  BY DepositsAssumption DEF Typed, TypeOK, Actors
<1>2. ASSUME NEW b \in Actors, Insert(b) \/ Advance(b) \/ Refresh(b)
      PROVE  pc'[a] \in {"advance", "total"} /\ cur'[a] = cur[a]
  BY <1>1, <1>2 DEF Insert, Advance, Refresh, Recorded, Goto
<1>3. ASSUME NEW c \in Callbacks, NEW t \in Transfers, Deliver(c, t)
      PROVE  pc'[a] \in {"advance", "total"} /\ cur'[a] = cur[a]
  BY <1>1, <1>3 DEF Deliver, Match, Goto
<1>4. CASE Begin \/ RefreshWatch \/ SelectRecent \/ CheckReceipt \/ Revert \/ Scan \/ RecordNext
  BY <1>1, <1>4
     DEF Begin, RefreshWatch, SelectRecent, CheckReceipt, Revert, Scan, RecordNext, Match, Goto
<1>5. CASE SelectReady \/ Settle \/ Deepen \/ DeepenRest \/ WriteCursor
  BY <1>1, <1>5
     DEF SelectReady, Settle, Deepen, DeepenRest, EndPass, WriteCursor, Goto
<1>6. ASSUME NEW b \in Actors, Abort(b)
      PROVE  pc'[a] \in {"advance", "total"} /\ cur'[a] = cur[a]
  BY <1>1, <1>6 DEF Abort, EndPass, Goto, Fault, Torn
<1>7. ~Crash
  BY DEF Crash, Fault, Torn
<1>8. CASE \/ UNCHANGED vars \/ Mine \/ Reorganise \/ Backstop
            \/ \E x \in Payments : Create(x) \/ Expire(x) \/ ReapLate(x) \/ Sweep(x)
  BY <1>8 DEF vars, Mine, Reorganise, Backstop, Create, Expire, ReapLate, Sweep
<1> QED  BY <1>1, <1>2, <1>3, <1>4, <1>5, <1>6, <1>7, <1>8 DEF Next, Pass, Handle

\* Unless it is summed anew, no row of x becomes counted.
LEMMA CountedStep ==
  ASSUME Typed, [Next]_vars, "torn" \notin Faults, NEW x,
         \A a \in Actors : ~Refresh(a) \/ To[cur[a].t] # x
  PROVE  Counted(x)' \subseteq Counted(x)
<1> SUFFICES ASSUME NEW t \in Transfers, To[t] = x, tx'[t].status \in Counts, ~Uncounted(t)'
             PROVE  t \in Counted(x)
  BY DEF Counted, Rows, Counts
<1>1. ASSUME NEW a \in Actors, Insert(a), cur[a].t = t, tx'[t].block = cur[a].block
      PROVE  FALSE
  <2>1. a \in DOMAIN pc
    BY DEF Typed, TypeOK
  <2>2. pc'[a] \in {"advance", "total"} /\ cur'[a] = cur[a]
    BY <1>1, <2>1 DEF Insert, Goto
  <2> QED  BY <1>1, <2>2 DEF Uncounted
<1>2. tx[t].status \in Counts /\ tx'[t].block = tx[t].block
  BY <1>1, RowStep DEF Counts
<1>3. ASSUME NEW a \in Actors, pc[a] \in {"advance", "total"}, cur[a].t = t,
             cur[a].block = tx[t].block
      PROVE  FALSE
  <2>1. pc'[a] \in {"advance", "total"} /\ cur'[a] = cur[a]
    BY <1>3, TotalComes
  <2> QED  BY <1>2, <1>3, <2>1 DEF Uncounted
<1> QED  BY <1>2, <1>3 DEF Counted, Uncounted, Rows, Counts

LEMMA CountedIsReceivedStep ==
  ASSUME Typed, Born, CountedIsReceived, [Next]_vars, "torn" \notin Faults, Typed'
  PROVE  CountedIsReceived'
<1> SUFFICES ASSUME NEW x \in Payments, status'[x] \in Live
             PROVE  Total(Counted(x)') <= received'[x]
  BY DEF CountedIsReceived
<1>0. /\ Counted(x) \in SUBSET Transfers /\ Rows(x) \in SUBSET Transfers
      /\ Counted(x)' \in SUBSET Transfers /\ Counted(x)' \subseteq Rows(x)'
      /\ received'[x] \in Nat /\ received[x] \in Nat
  BY DEF Counted, Rows, Typed, TypeOK
<1>1. CASE received'[x] = ReceivedSum(x) /\ tx' = tx
  <2>1. Rows(x)' = Rows(x)
    BY <1>1 DEF Rows
  <2> QED  BY <1>0, <1>1, <2>1, TotalGrows DEF ReceivedSum
<1>2. CASE received'[x] = received[x] /\ ~(received'[x] = ReceivedSum(x) /\ tx' = tx)
  <2>1. ASSUME NEW a \in Actors, Refresh(a)  PROVE To[cur[a].t] # x
    <3> SUFFICES ASSUME To[cur[a].t] = x  PROVE FALSE
      OBVIOUS
    <3>1. status[x] \in Live => received'[x] = ReceivedSum(x) /\ tx' = tx
      BY <2>1 DEF Refresh, Typed, TypeOK
    <3>2. status[x] \notin Live => status'[x] = status[x]
      BY <2>1 DEF Refresh
    <3> QED  BY <1>2, <3>1, <3>2
  <2>2. Counted(x)' \subseteq Counted(x)
    BY <2>1, CountedStep
  <2>3. CASE status[x] \in Live
    <3>1. Total(Counted(x)) <= received[x]
      BY <2>3 DEF CountedIsReceived
    <3>2. /\ Total(Counted(x)') <= Total(Counted(x))
          /\ Total(Counted(x)') \in Nat /\ Total(Counted(x)) \in Nat
      BY <1>0, <2>2, TotalGrows
    <3> QED  BY <1>0, <1>2, <3>1, <3>2
  <2>4. CASE status[x] \notin Live
    <3>1. status[x] = "none"
      <4>1. ~(Revert /\ cur[Loop].x = x /\ status[x] \in {"confirmed", "confirming"})
        BY <1>2 DEF Revert, Typed, TypeOK
      <4> QED  BY <2>4, <4>1, StatusStep DEF Live
    <3>2. Counted(x)' = {}
      BY <2>2, <3>1 DEF Counted, Rows, Born, Counts
    <3>3. Total({}) = 0
      <4>1. Total({}) = SumOf(Amount, {})
        BY DEF Total, SumOf
      <4> QED  BY <4>1, SumEmpty
    <3> QED  BY <1>0, <3>2, <3>3
  <2> QED  BY <2>3, <2>4
<1> QED  BY <1>1, <1>2, ReceivedStep

\* A payment found paid has the rows, and the credit, until it is settled.
Promised ==
  pc[Loop] \in {"settle", "deepen"} => \A i \in ready :
    /\ status[i.x] # "none"
    /\ i.paid => /\ Total(Rows(i.x)) >= Due[i.x]
                 /\ status[i.x] \in Live => received[i.x] >= Due[i.x]

\* What is being settled was selected, and shrinks.
LEMMA ReadyStep ==
  ASSUME Typed, [Next]_vars, pc'[Loop] \in {"settle", "deepen"}
  PROVE  SelectReady \/ (pc[Loop] \in {"settle", "deepen"} /\ ready' \subseteq ready)
<1>1. /\ Loop \in Actors /\ Loop \notin Callbacks /\ Callbacks \subseteq Actors
      /\ pc \in [Actors -> PCs]
  BY DepositsAssumption DEF Typed, TypeOK, Actors
<1>2. ASSUME NEW c \in Callbacks, Handle(c) \/ \E t \in Transfers : Deliver(c, t)
      PROVE  pc'[Loop] = pc[Loop] /\ ready' = ready
  BY <1>1, <1>2 DEF Handle, Insert, Advance, Refresh, Recorded, Goto, Deliver, Match, passVars
<1>3. ASSUME Insert(Loop) \/ Advance(Loop) \/ Refresh(Loop)
      PROVE  FALSE
  BY <1>1, <1>3 DEF Insert, Advance, Refresh, Recorded, Goto
<1>4. CASE Begin \/ RefreshWatch \/ SelectRecent \/ CheckReceipt \/ Revert \/ Scan \/ RecordNext
  BY <1>1, <1>4
     DEF Begin, RefreshWatch, SelectRecent, CheckReceipt, Revert, Scan, RecordNext, Match, Goto
<1>5. CASE Settle \/ Deepen \/ DeepenRest \/ WriteCursor
  BY <1>1, <1>5 DEF Settle, Deepen, DeepenRest, EndPass, WriteCursor, Goto, passVars
<1>6. ASSUME NEW b \in Actors, Abort(b)
      PROVE  pc'[Loop] = pc[Loop] /\ ready' \subseteq ready
  BY <1>1, <1>6 DEF Abort, EndPass, Goto, passVars
<1>7. ~Crash
  BY <1>1 DEF Crash
<1>8. CASE \/ UNCHANGED vars \/ Mine \/ Reorganise \/ Backstop
            \/ \E x \in Payments : Create(x) \/ Expire(x) \/ ReapLate(x) \/ Sweep(x)
  BY <1>8 DEF vars, Mine, Reorganise, Backstop, Create, Expire, ReapLate, Sweep, passVars
<1> QED  BY <1>1, <1>2, <1>3, <1>4, <1>5, <1>6, <1>7, <1>8 DEF Next, Pass

\* Rows leave a payment only in a reorg check.
LEMMA RowsStay ==
  ASSUME Typed, [Next]_vars, ~CheckReceipt, NEW x
  PROVE  Rows(x) \subseteq Rows(x)'
BY RowStep DEF Rows, Counts

\* A row over the depth is older than anything a callback has in hand.
LEMMA DeepIsCounted ==
  ASSUME Typed, KeptUp, Required > MaxLag, pc[Loop] = "log", NEW x
  PROVE  {t \in Rows(x) : Deep(t)} \subseteq Counted(x)
<1> SUFFICES ASSUME NEW t \in Transfers, Deep(t), NEW a \in Actors,
                    pc[a] \in {"advance", "total"}, cur[a].block = tx[t].block
             PROVE  FALSE
  BY DEF Counted, Uncounted, Rows
<1>1. a \in Callbacks
  BY DEF Actors
<1>2. head <= tx[t].block + MaxLag /\ top <= head
  BY <1>1 DEF KeptUp
<1>3. /\ head \in Int /\ top \in Int /\ tx[t].block \in Int
      /\ Required \in Int /\ MaxLag \in Int
  BY DepositsAssumption DEF Typed, TypeOK, Heights
<1> QED  BY <1>2, <1>3 DEF Deep

LEMMA PromisedStep ==
  ASSUME Typed, Typed', KeptUp, Born, CountedIsReceived, Promised, [Next]_vars,
         Required > MaxLag
  PROVE  Promised'
<1> SUFFICES ASSUME pc'[Loop] \in {"settle", "deepen"}, NEW i \in ready'
             PROVE  /\ status'[i.x] # "none"
                    /\ i.paid => /\ Total(Rows(i.x)') >= Due[i.x]
                                 /\ status'[i.x] \in Live => received'[i.x] >= Due[i.x]
  BY DEF Promised
<1> DEFINE x == i.x
<1>0. /\ x \in Payments /\ Due[x] \in Nat /\ received[x] \in Nat /\ received'[x] \in Nat
      /\ Rows(x) \in SUBSET Transfers /\ Rows(x)' \in SUBSET Transfers
      /\ Counted(x) \in SUBSET Transfers
  BY DepositsAssumption DEF Typed, TypeOK, Rows, Counted
<1>1. CASE SelectReady
  <2>1. /\ x \in Payments /\ status[x] \in Live /\ i.paid = FullyPaid(x) /\ pc[Loop] = "log"
    BY <1>1 DEF SelectReady, Live
  <2>2. status' = status /\ received' = received /\ Rows(x)' = Rows(x)
    BY <1>1 DEF SelectReady, dbVars, Rows
  <2>3. ASSUME FullyPaid(x)  PROVE Total(Rows(x)) >= Due[x] /\ received[x] >= Due[x]
    <3> DEFINE D == {t \in Rows(x) : Deep(t)}
    <3>1. D \subseteq Counted(x) /\ D \subseteq Rows(x)
      BY <2>1, DeepIsCounted
    <3>2. Total(D) >= Due[x]
      BY <2>3 DEF FullyPaid
    <3> HIDE DEF D
    <3>3. /\ Total(D) <= Total(Counted(x)) /\ Total(D) <= Total(Rows(x))
          /\ Total(D) \in Nat /\ Total(Counted(x)) \in Nat /\ Total(Rows(x)) \in Nat
      BY <1>0, <3>1, TotalGrows
    <3>4. Total(Counted(x)) <= received[x]
      BY <2>1 DEF CountedIsReceived
    <3> QED  BY <1>0, <3>2, <3>3, <3>4
  <2> QED  BY <2>1, <2>2, <2>3 DEF Live
<1>2. CASE pc[Loop] \in {"settle", "deepen"} /\ ready' \subseteq ready
  <2>1. /\ status[x] # "none"
        /\ i.paid => /\ Total(Rows(x)) >= Due[x]
                     /\ status[x] \in Live => received[x] >= Due[x]
    BY <1>2 DEF Promised
  <2>2. ~CheckReceipt /\ ~Revert
    BY <1>2 DEF CheckReceipt, Revert
  <2>3. status'[x] # "none" /\ (status'[x] \in Live => status[x] \in Live)
    BY <1>0, <2>1, <2>2, StatusStep DEF Live
  <2>4. /\ Total(Rows(x)) <= Total(Rows(x)')
        /\ Total(Rows(x)) \in Nat /\ Total(Rows(x)') \in Nat
    BY <1>0, <2>2, RowsStay, TotalGrows
  <2>5. received'[x] = received[x] \/ received'[x] = Total(Rows(x))
    BY <1>0, <2>2, ReceivedStep DEF ReceivedSum
  <2> QED  BY <1>0, <2>1, <2>3, <2>4, <2>5
<1> QED  BY <1>1, <1>2, ReadyStep

LEMMA PaidStep ==
  ASSUME Typed, Promised, PaidIsCredited, [Next]_vars
  PROVE  PaidIsCredited'
<1> SUFFICES ASSUME NEW x \in Payments, status'[x] \in {"confirmed", "swept"}
             PROVE  received'[x] >= Due[x]
  BY DEF PaidIsCredited
<1>1. CASE status'[x] = status[x]
  <2>1. status[x] \notin Live /\ received[x] >= Due[x]
    BY <1>1 DEF Live, PaidIsCredited
  <2>2. received'[x] = received[x]
    BY <1>1, <2>1, ReceivedStep DEF Live
  <2> QED  BY <2>1, <2>2
<1>2. CASE status'[x] # status[x]
  <2>1. \/ /\ Settle /\ status[x] \in Live /\ received' = received
           /\ \E i \in ready : i.x = x /\ i.paid
        \/ status[x] = "confirmed" /\ received' = received
    BY <1>2, StatusStep DEF Live
  <2>2. ASSUME Settle, status[x] \in Live, NEW i \in ready, i.x = x, i.paid
        PROVE  received[x] >= Due[x]
    BY <2>2 DEF Settle, Promised
  <2> QED  BY <2>1, <2>2 DEF PaidIsCredited
<1> QED  BY <1>1, <1>2

CreditInv ==
  TypedInv /\ KeptUp /\ Born /\ CountedIsReceived /\ Promised /\ PaidIsCredited

LEMMA InitCredited == Init => CreditInv
<1> SUFFICES ASSUME Init  PROVE CreditInv
  OBVIOUS
<1>1. TypedInv
  BY InitTyped, DepositsAssumption DEF Init, TypedInv, Start
<1>2. KeptUp
  BY DepositsAssumption DEF Init, KeptUp, Start, Actors
<1>3. Born /\ CountedIsReceived /\ Promised /\ PaidIsCredited
  BY DepositsAssumption
     DEF Init, Born, CountedIsReceived, Promised, PaidIsCredited, Counts, NoRow, Live,
         Recording, Actors
<1> QED  BY <1>1, <1>2, <1>3 DEF CreditInv

LEMMA CreditStep ==
  ASSUME "lag" \notin Faults, "torn" \notin Faults, Required > MaxLag, CreditInv, [Next]_vars
  PROVE  CreditInv'
<1>1. TypedInv' /\ Typed /\ Typed'
  BY NextTyped DEF CreditInv, TypedInv
<1> QED  BY <1>1, KeptUpStep, BornStep, CountedIsReceivedStep, PromisedStep, PaidStep DEF CreditInv

\* A payment is confirmed only with its price in amount_received, though promotion
\* reads the rows and the sum is written by whoever records: as long as no recording
\* is cut short after its insert, and ends before the chain is MaxLag blocks
\* further, which is fewer than the confirmations required.
THEOREM CreditedInFull ==
  ASSUME "lag" \notin Faults, "torn" \notin Faults, Required > MaxLag
  PROVE  Spec => []PaidIsCredited
<1>1. CreditInv /\ [Next]_vars => CreditInv'
  BY CreditStep
<1>2. CreditInv => PaidIsCredited
  BY DEF CreditInv
<1> QED  BY <1>1, <1>2, InitCredited, PTL DEF Spec

-----------------------------------------------------------------------------
(* The pass: its phases, its logs, and what is recorded.                      *)

\* After the scan, whose reorg check is the last one completed.
Later == {"log", "insert", "advance", "total", "settle", "deepen", "write"}

InPhase ==
  /\ cursor + ReorgDepth <= checked
  /\ pc[Loop] \in Later => checked = top
  /\ upto > 0 => pc[Loop] \in Later /\ upto + ReorgDepth <= top
  /\ pc[Loop] \in {"settle", "deepen", "write"} => todo = {}

\* The logs of a pass are behind the safe head, and are still what the chain holds.
Safe(i) == at[i.t] = i.block /\ i.block > 0 /\ i.block + ReorgDepth <= top

LoopLogs ==
  /\ pc[Loop] \in {"log"} \cup Recording => \A i \in todo : Safe(i)
  /\ pc[Loop] \in Recording => Safe(cur[Loop])

\* A row is of a mined transfer that counts for its payment.
Worth ==
  /\ \A t \in Transfers :
       tx[t].status \in Counts => tx[t].block > 0 /\ Asset[t] = Awaits[To[t]]
  /\ \A a \in Actors : pc[a] \in Recording =>
       cur[a].block > 0 /\ Asset[cur[a].t] = Awaits[To[cur[a].t]]

\* What is not a step of the pass leaves the pass alone, or ends it.
LEMMA OutsidePass ==
  ASSUME Typed, [Next]_vars, ~Pass
  PROVE  /\ checked' = checked /\ cursor' = cursor
         /\ \/ /\ pc'[Loop] = pc[Loop] /\ cur'[Loop] = cur[Loop]
               /\ top' = top /\ todo' = todo /\ ready' = ready /\ upto' = upto
            \/ pc'[Loop] = "idle" /\ todo' = {} /\ ready' = {} /\ upto' = 0
<1>1. /\ Loop \in Actors /\ Loop \notin Callbacks /\ Callbacks \subseteq Actors
      /\ pc \in [Actors -> PCs] /\ DOMAIN cur = Actors
  BY DepositsAssumption DEF Typed, TypeOK, Actors
<1>2. ASSUME NEW c \in Callbacks, Handle(c) \/ \E t \in Transfers : Deliver(c, t)
      PROVE  /\ pc'[Loop] = pc[Loop] /\ cur'[Loop] = cur[Loop]
             /\ UNCHANGED <<checked, cursor, passVars>>
  BY <1>1, <1>2 DEF Handle, Insert, Advance, Refresh, Recorded, Goto, Deliver, Match, dbVars
<1>3. ASSUME NEW a \in Actors, Abort(a)
      PROVE  /\ checked' = checked /\ cursor' = cursor
             /\ \/ /\ pc'[Loop] = pc[Loop] /\ cur'[Loop] = cur[Loop]
                   /\ UNCHANGED passVars
                \/ pc'[Loop] = "idle" /\ todo' = {} /\ ready' = {} /\ upto' = 0
  BY <1>1, <1>3 DEF Abort, EndPass, Goto, dbVars
<1>4. CASE Crash
  BY <1>1, <1>4 DEF Crash, dbVars
<1>5. CASE \/ UNCHANGED vars \/ Mine \/ Reorganise \/ Backstop
           \/ \E x \in Payments : Create(x) \/ Expire(x) \/ ReapLate(x) \/ Sweep(x)
  BY <1>5 DEF vars, Mine, Reorganise, Backstop, Create, Expire, ReapLate, Sweep, passVars, dbVars
<1> QED  BY <1>2, <1>3, <1>4, <1>5 DEF Next, passVars

LEMMA InPhaseStep ==
  ASSUME Typed, KeptUp, InPhase, [Next]_vars
  PROVE  InPhase'
<1>1. /\ Loop \in Actors /\ pc \in [Actors -> PCs] /\ "idle" \notin Later
      /\ checked \in Int /\ top \in Int /\ cursor \in Int /\ upto \in Int /\ ReorgDepth \in Int
  BY DepositsAssumption DEF Typed, TypeOK, Actors, Heights, Later
<1>2. CASE ~Pass
  <2>1. CASE pc'[Loop] = "idle" /\ upto' = 0
    BY <1>1, <1>2, <2>1, OutsidePass DEF InPhase
  <2>2. CASE pc'[Loop] = pc[Loop] /\ top' = top /\ todo' = todo /\ upto' = upto
    BY <1>2, <2>2, OutsidePass DEF InPhase
  <2> QED  BY <1>2, <2>1, <2>2, OutsidePass
<1>3. CASE Begin \/ RefreshWatch \/ SelectRecent \/ CheckReceipt \/ Revert
  <2>1. pc[Loop] \notin Later /\ pc'[Loop] \notin Later
    BY <1>1, <1>3 DEF Begin, RefreshWatch, SelectRecent, CheckReceipt, Revert, Goto, Later
  <2>2. UNCHANGED <<cursor, checked, upto>>
    BY <1>3 DEF Begin, RefreshWatch, SelectRecent, CheckReceipt, Revert, dbVars, passVars
  <2> QED  BY <2>1, <2>2 DEF InPhase, Later
<1>4. CASE Scan
  <2>1. pc[Loop] = "check" /\ pc'[Loop] = "log" /\ checked' = top /\ top' = top /\ cursor' = cursor
    BY <1>1, <1>4 DEF Scan, Goto, dbVars
  <2>2. upto = 0 \/ upto < 0
    BY <1>1, <2>1 DEF InPhase, Later
  <2>3. upto' = upto \/ (upto' = ScanTo /\ Behind)
    BY <1>4 DEF Scan
  <2>4. upto' > 0 => upto' + ReorgDepth <= top
    BY <1>1, <2>2, <2>3, ScanToIs
  <2>5. cursor + ReorgDepth <= top
    BY <1>1, <2>1 DEF InPhase, KeptUp
  <2> QED  BY <2>1, <2>4, <2>5 DEF InPhase, Later
<1>5. CASE RecordNext \/ Insert(Loop) \/ Advance(Loop) \/ Refresh(Loop)
  <2>1. /\ pc[Loop] \in {"log"} \cup Recording /\ pc'[Loop] \in {"log"} \cup Recording
        /\ UNCHANGED <<cursor, checked, upto, top>>
    BY <1>1, <1>5
       DEF RecordNext, Match, Insert, Advance, Refresh, Recorded, Goto, Recording, dbVars, passVars
  <2> QED  BY <2>1 DEF InPhase, Later, Recording
<1>6. CASE SelectReady \/ Settle \/ Deepen
  <2>1. /\ pc[Loop] \in Later /\ pc'[Loop] \in {"settle", "deepen"}
        /\ UNCHANGED <<cursor, checked, upto, top>> /\ todo' = {}
    BY <1>1, <1>6 DEF SelectReady, Settle, Deepen, Goto, Later, InPhase, dbVars, passVars
  <2> QED  BY <2>1 DEF InPhase, Later
<1>7. CASE DeepenRest
  <2>1. /\ pc[Loop] = "settle" /\ UNCHANGED <<cursor, checked, todo>>
        /\ \/ pc'[Loop] = "write" /\ upto' = upto /\ top' = top
           \/ pc'[Loop] = "idle" /\ upto' = 0
    BY <1>1, <1>7 DEF DeepenRest, EndPass, Goto
  <2> QED  BY <2>1 DEF InPhase, Later
<1>8. CASE WriteCursor
  <2>1. /\ pc[Loop] = "write" /\ cursor' = upto /\ checked' = checked
        /\ pc'[Loop] = "idle" /\ upto' = 0
    BY <1>1, <1>8 DEF WriteCursor, EndPass, Goto
  <2>2. upto + ReorgDepth <= checked
    <3>1. CASE upto > 0
      BY <2>1, <3>1 DEF InPhase, Later
    <3>2. CASE ~(upto > 0)
      <4>1. cursor + ReorgDepth <= checked /\ cursor >= 0
        BY <1>1 DEF InPhase, Typed, TypeOK, Heights
      <4> QED  BY <1>1, <3>2, <4>1
    <3> QED  BY <3>1, <3>2
  <2> QED  BY <2>1, <2>2 DEF InPhase, Later
<1> QED  BY <1>2, <1>3, <1>4, <1>5, <1>6, <1>7, <1>8 DEF Pass

\* A transfer is mined, or was in the last blocks and moves.
LEMMA AtStep ==
  ASSUME Typed, [Next]_vars, NEW t \in Transfers
  PROVE  \/ at'[t] = at[t]
         \/ Mine /\ at[t] = 0 /\ at'[t] = head + 1 /\ status[To[t]] # "none"
         \/ Reorganise /\ at[t] > head - MaxReorg
              /\ (at'[t] = 0 \/ (at'[t] > head - MaxReorg /\ at'[t] <= head))
<1>0. at \in [Transfers -> Heights] /\ head \in Int /\ MaxReorg \in Int
  BY DepositsAssumption DEF Typed, TypeOK, Heights
<1>1. CASE Mine
  BY <1>0, <1>1 DEF Mine
<1>2. CASE Reorganise
  <2>1. PICK u \in Transfers, b \in {0} \cup (head - MaxReorg + 1)..head :
          at[u] > head - MaxReorg /\ at' = [at EXCEPT ![u] = b]
    BY <1>2 DEF Reorganise
  <2> QED  BY <1>0, <1>2, <2>1
<1>3. CASE ~Mine /\ ~Reorganise
  <2>1. at' = at
    BY <1>3 DEF Next, vars, chainVars, Backstop, Crash, Pass, Begin, RefreshWatch, SelectRecent,
       CheckReceipt, Revert, Scan, RecordNext, SelectReady, Settle, Deepen, DeepenRest,
       WriteCursor, Insert, Advance, Refresh, Create, Expire, ReapLate, Sweep, Handle, Deliver,
       Abort
  <2> QED  BY <2>1
<1> QED  BY <1>1, <1>2, <1>3

\* Nothing behind the safe head of a pass moves.
LEMMA SafeStays ==
  ASSUME Typed, KeptUp, [Next]_vars, MaxReorg <= ReorgDepth, pc[Loop] # "idle", top' = top,
         NEW i \in Logs, Safe(i)
  PROVE  at'[i.t] = i.block
<1>1. /\ i.t \in Transfers /\ at[i.t] \in Int /\ i.block \in Int /\ top \in Int /\ head \in Int
      /\ MaxReorg \in Int /\ ReorgDepth \in Int
  BY DepositsAssumption DEF Typed, TypeOK, Heights, Logs
<1>2. at[i.t] > 0 /\ at[i.t] <= head - MaxReorg /\ at[i.t] = i.block
  BY <1>1 DEF Safe, KeptUp
<1> QED  BY <1>1, <1>2, AtStep

LEMMA LoopLogsStep ==
  ASSUME Typed, KeptUp, LoopLogs, [Next]_vars, MaxReorg <= ReorgDepth
  PROVE  LoopLogs'
<1>1. /\ Loop \in Actors /\ pc \in [Actors -> PCs] /\ todo \subseteq Logs
      /\ pc[Loop] \in Recording => cur[Loop] \in LogCur
      /\ "idle" \notin {"log"} \cup Recording
  BY DEF Typed, TypeOK, InHand, Actors, Recording
<1>2. ASSUME pc[Loop] \in {"log"} \cup Recording, top' = top, NEW i \in todo
      PROVE  at'[i.t] = i.block /\ i.block > 0 /\ i.block + ReorgDepth <= top'
  <2>1. Safe(i) /\ pc[Loop] # "idle"
    BY <1>2 DEF LoopLogs, Recording
  <2>2. at'[i.t] = i.block
    BY <1>1, <1>2, <2>1, SafeStays
  <2> QED  BY <1>2, <2>1, <2>2 DEF Safe
<1>3. ASSUME pc[Loop] \in Recording, top' = top
      PROVE  at'[cur[Loop].t] = cur[Loop].block /\ cur[Loop].block > 0
               /\ cur[Loop].block + ReorgDepth <= top'
  <2> DEFINE i == [t |-> cur[Loop].t, block |-> cur[Loop].block]
  <2>1. i \in Logs /\ Safe(i) /\ pc[Loop] # "idle"
    BY <1>1, <1>3 DEF LoopLogs, LogCur, Logs, Safe, Recording
  <2>2. at'[i.t] = i.block
    BY <1>3, <2>1, SafeStays
  <2> QED  BY <1>3, <2>1, <2>2 DEF Safe
<1>4. CASE pc'[Loop] \notin {"log"} \cup Recording
  BY <1>4 DEF LoopLogs
<1>5. CASE Scan
  <2>1. pc'[Loop] = "log" /\ top' = top /\ at' = at
    BY <1>1, <1>5 DEF Scan, Goto, chainVars
  <2>2. ASSUME NEW i \in todo'
        PROVE  at[i.t] = i.block /\ i.block > 0 /\ i.block + ReorgDepth <= top
    <3>1. Behind /\ \E t \in Found : i = [t |-> t, block |-> at[t]]
      BY <1>5 DEF Scan
    <3>2. PICK t \in Transfers : i = [t |-> t, block |-> at[t]] /\ at[t] \in cursor + 1 .. ScanTo
      BY <3>1 DEF Found
    <3>3. /\ cursor \in Int /\ cursor >= 0 /\ ScanTo \in Int /\ ScanTo <= top - ReorgDepth
          /\ top \in Int /\ ReorgDepth \in Int /\ at[t] \in Int
      BY DepositsAssumption, ScanToIs DEF Typed, TypeOK, Heights
    <3>4. at[t] > 0 /\ at[t] <= ScanTo
      BY <3>2, <3>3
    <3> QED  BY <3>2, <3>3, <3>4
  <2> QED  BY <2>1, <2>2 DEF LoopLogs, Safe, Recording
<1>6. CASE RecordNext
  <2>1. PICK i \in todo : todo' = todo \ {i} /\ Match(Loop, i.t, i.block)
    BY <1>6 DEF RecordNext
  <2>2. pc[Loop] = "log" /\ top' = top
    BY <1>6 DEF RecordNext
  <2>3. \A j \in todo' : Safe(j)'
    BY <1>2, <2>1, <2>2 DEF Safe
  <2>4. \/ pc' = pc
        \/ cur'[Loop].t = i.t /\ cur'[Loop].block = i.block
    BY <1>1, <2>1 DEF Match, Typed, TypeOK
  <2>5. pc' # pc => Safe(cur[Loop])'
    BY <1>2, <2>1, <2>2, <2>4 DEF Safe
  <2> QED  BY <2>2, <2>3, <2>5 DEF LoopLogs, Recording
<1>7. CASE Insert(Loop) \/ Advance(Loop)
  <2>1. pc[Loop] \in Recording /\ top' = top /\ todo' = todo /\ cur' = cur
    BY <1>7 DEF Insert, Advance, Recording, passVars
  <2> QED  BY <1>2, <1>3, <2>1 DEF LoopLogs, Safe
<1>8. CASE Refresh(Loop)
  <2>1. pc[Loop] \in Recording /\ top' = top /\ todo' = todo /\ pc'[Loop] = "log"
    BY <1>1, <1>8 DEF Refresh, Recorded, Goto, Recording, passVars
  <2> QED  BY <1>2, <2>1 DEF LoopLogs, Safe, Recording
<1>9. CASE \/ Begin \/ RefreshWatch \/ SelectRecent \/ CheckReceipt \/ Revert \/ SelectReady
           \/ Settle \/ Deepen \/ DeepenRest \/ WriteCursor
  <2>1. pc'[Loop] \notin {"log"} \cup Recording
    BY <1>1, <1>9 DEF Begin, RefreshWatch, SelectRecent, CheckReceipt, Revert, SelectReady,
           Settle, Deepen, DeepenRest, WriteCursor, EndPass, Goto, Recording
  <2> QED  BY <1>4, <2>1
<1>10. CASE ~Pass
  <2>1. CASE pc'[Loop] = pc[Loop] /\ cur'[Loop] = cur[Loop] /\ top' = top /\ todo' = todo
    BY <1>2, <1>3, <2>1 DEF LoopLogs, Safe
  <2> QED  BY <1>1, <1>4, <1>10, <2>1, OutsidePass
<1> QED  BY <1>5, <1>6, <1>7, <1>8, <1>9, <1>10 DEF Pass

LEMMA WorthStep ==
  ASSUME TypedInv, LoopLogs, Worth, [Next]_vars
  PROVE  Worth'
<1>0. Typed /\ head >= Start /\ Start \in Int /\ Start > 0 /\ head \in Int
  BY DepositsAssumption DEF TypedInv, Typed, TypeOK, Heights, Start
<1>1. ASSUME NEW t \in Transfers, tx'[t].status \in Counts
      PROVE  tx'[t].block > 0 /\ Asset[t] = Awaits[To[t]]
  <2>1. ASSUME NEW a \in Actors, Insert(a), cur[a].t = t
        PROVE  cur[a].block > 0 /\ Asset[t] = Awaits[To[t]]
    BY <2>1 DEF Worth, Insert, Recording
  <2> QED  BY <1>0, <1>1, <2>1, RowStep DEF Worth, Counts
<1>2. ASSUME NEW a \in Actors, pc'[a] \in Recording
      PROVE  cur'[a].block > 0 /\ Asset[cur'[a].t] = Awaits[To[cur'[a].t]]
  <2>1. CASE pc[a] \in Recording /\ cur'[a] = cur[a]
    BY <2>1 DEF Worth
  <2>2. ASSUME NEW i \in Logs, \/ a \in Callbacks /\ Deliver(a, i.t) /\ i.block = at[i.t]
                               \/ RecordNext /\ i \in todo
        PROVE  i.block > 0
    BY <1>0, <2>2 DEF Deliver, RecordNext, LoopLogs, Safe
  <2>3. ASSUME pc[a] \notin Recording \/ cur'[a] # cur[a]
        PROVE  \E i \in Logs : i.block > 0 /\ Asset[i.t] = Awaits[To[i.t]]
                 /\ cur'[a] = [kind |-> "log", t |-> i.t, block |-> i.block,
                               was |-> status[To[i.t]]]
    BY <1>0, <1>2, <2>2, <2>3, RecorderStep
  <2>4. ASSUME NEW i \in Logs, i.block > 0 /\ Asset[i.t] = Awaits[To[i.t]],
               cur'[a] = [kind |-> "log", t |-> i.t, block |-> i.block, was |-> status[To[i.t]]]
        PROVE  cur'[a].block > 0 /\ Asset[cur'[a].t] = Awaits[To[cur'[a].t]]
    <3>1. cur'[a].t = i.t /\ cur'[a].block = i.block
      BY <2>4
    <3> QED  BY <2>4, <3>1
  <2> QED  BY <2>1, <2>3, <2>4
<1> QED  BY <1>1, <1>2 DEF Worth, Counts, Recording, Actors

-----------------------------------------------------------------------------
(* A confirmed payment is covered by what the chain holds.                    *)

\* A reorganisation, or a callback, can still be behind a wrong row at block b
\* when the chain is at height h.
Near(b, h) == h < b + MaxReorg \/ h <= b + MaxLag

\* A row that is not what the chain holds is younger than the last reorg check,
\* or the check of this pass will come to it.
WrongIsYoung ==
  \A t \in Transfers : (tx[t].status \in Counts /\ at[t] # tx[t].block) =>
    /\ Near(tx[t].block, checked)
    /\ pc[Loop] \in {"check", "revert"} =>
         Near(tx[t].block, top) \/ [t |-> t, block |-> tx[t].block] \in todo

\* In a reorg check, the candidates are those selected, less those checked.
LEMMA CandidatesStep ==
  ASSUME Typed, [Next]_vars, pc'[Loop] \in {"check", "revert"}
  PROVE  \/ SelectRecent
         \/ /\ pc[Loop] \in {"check", "revert"} /\ top' = top
            /\ todo' = todo \/ CheckReceipt
<1>1. Loop \in Actors /\ pc \in [Actors -> PCs]
  BY DEF Typed, TypeOK, Actors
<1>2. CASE ~Pass
  BY <1>2, OutsidePass
<1>3. CASE CheckReceipt \/ Revert
  BY <1>1, <1>3 DEF CheckReceipt, Revert, Goto, passVars
<1>4. CASE Begin \/ RefreshWatch \/ Scan \/ RecordNext \/ SelectReady \/ Settle \/ Deepen
  BY <1>1, <1>4
     DEF Begin, RefreshWatch, Scan, RecordNext, Match, SelectReady, Settle, Deepen, Goto
<1>5. CASE DeepenRest \/ WriteCursor \/ Insert(Loop) \/ Advance(Loop) \/ Refresh(Loop)
  BY <1>1, <1>5 DEF DeepenRest, EndPass, WriteCursor, Insert, Advance, Refresh, Recorded, Goto
<1> QED  BY <1>2, <1>3, <1>4, <1>5 DEF Pass

LEMMA WrongIsYoungStep ==
  ASSUME TypedInv, KeptUp, LoopLogs, Worth, WrongIsYoung, [Next]_vars, "receipt" \notin Faults,
         MaxReorg + MaxLag <= ReorgDepth, 2 * MaxLag < ReorgDepth
  PROVE  WrongIsYoung'
<1>0. /\ Typed /\ head \in Int /\ checked \in Int /\ top \in Int
      /\ MaxReorg \in Int /\ MaxLag \in Int /\ MaxLag > 0 /\ ReorgDepth \in Int
      /\ Loop \in Actors /\ Actors = {Loop} \cup Callbacks
  BY DepositsAssumption DEF TypedInv, Typed, TypeOK, Heights, Actors
<1> SUFFICES ASSUME NEW t \in Transfers, tx'[t].status \in Counts, at'[t] # tx'[t].block
             PROVE  /\ Near(tx'[t].block, checked')
                    /\ pc'[Loop] \in {"check", "revert"} =>
                         Near(tx'[t].block, top') \/ [t |-> t, block |-> tx'[t].block] \in todo'
  BY DEF WrongIsYoung, Near, Counts
<1> DEFINE b == tx'[t].block
<1>1. b \in Int /\ at[t] \in Int /\ tx[t].block \in Int
  <2>1. Typed'
    BY NextTyped DEF TypedInv
  <2> QED  BY <1>0, <2>1 DEF Typed, TypeOK, Heights
<1>2. ASSUME NEW h \in Int, Near(b, h), checked <= h, pc[Loop] # "idle" => top <= h,
             checked' = checked, pc'[Loop] = "idle" \/ (pc'[Loop] = pc[Loop] /\ top' = top)
      PROVE  Near(b, checked') /\ (pc'[Loop] \in {"check", "revert"} => Near(b, top'))
  BY <1>0, <1>1, <1>2 DEF Near
<1>3. CASE \E a \in Actors : Insert(a) /\ cur[a].t = t /\ b = cur[a].block
  <2>1. PICK a \in Actors : Insert(a) /\ cur[a].t = t /\ b = cur[a].block
    BY <1>3
  <2>2. pc[a] = "insert" /\ at' = at /\ checked' = checked /\ top' = top
    BY <2>1 DEF Insert, chainVars, passVars
  <2>3. a # Loop
    BY <2>1, <2>2 DEF LoopLogs, Safe, Recording
  <2>4. head <= b + MaxLag
    BY <1>0, <2>1, <2>2, <2>3 DEF KeptUp
  <2>5. pc'[Loop] = pc[Loop]
    BY <1>0, <2>1, <2>3 DEF Insert, Goto, Typed, TypeOK
  <2> QED  BY <1>0, <1>2, <2>2, <2>4, <2>5 DEF KeptUp, Near
<1>4. CASE tx[t].status \in Counts /\ tx[t].block = b /\ at[t] = b
  <2>1. b > 0
    BY <1>4 DEF Worth
  <2>2. Reorganise /\ at[t] > head - MaxReorg
    BY <1>0, <1>4, <2>1, AtStep
  <2>3. checked' = checked /\ pc' = pc /\ top' = top
    BY <2>2 DEF Reorganise, passVars
  <2>4. Near(b, head)
    BY <1>0, <1>1, <1>4, <2>2 DEF Near
  <2> QED  BY <1>0, <1>2, <2>3, <2>4 DEF KeptUp
<1>5. CASE tx[t].status \in Counts /\ tx[t].block = b /\ at[t] # b
  <2>1. /\ Near(b, checked)
        /\ pc[Loop] \in {"check", "revert"} => Near(b, top) \/ [t |-> t, block |-> b] \in todo
    BY <1>5 DEF WrongIsYoung
  <2>2. Near(b, checked')
    <3>1. CASE Scan /\ checked' = top
      BY <2>1, <3>1 DEF Scan
    <3> QED  BY <1>0, <2>1, <3>1, CheckedStep
  <2>3. ASSUME pc'[Loop] \in {"check", "revert"}
        PROVE  Near(b, top') \/ [t |-> t, block |-> b] \in todo'
    <3>1. CASE SelectRecent
      <4>1. top <= checked + MaxLag
        BY <1>0, <3>1 DEF SelectRecent, KeptUp
      <4>2. b > top - ReorgDepth
        BY <1>0, <1>1, <2>1, <4>1 DEF Near
      <4> QED  BY <1>5, <3>1, <4>2 DEF SelectRecent, Counts
    <3>2. CASE CheckReceipt /\ pc[Loop] \in {"check", "revert"} /\ top' = top
      <4>1. CASE Near(b, top)
        BY <3>2, <4>1
      <4>2. CASE [t |-> t, block |-> b] \in todo
        <5>1. PICK i \in todo :
                 /\ todo' = todo \ {i}
                 /\ \/ at[i.t] = i.block
                    \/ tx' = [tx EXCEPT ![i.t].status = "reorged"]
          BY <3>2 DEF CheckReceipt, Fault
        <5>2. ASSUME i = [t |-> t, block |-> b]  PROVE FALSE
          <6>1. tx' = [tx EXCEPT ![t].status = "reorged"]
            BY <1>5, <5>1, <5>2
          <6>2. tx \in [Transfers -> TxRows]
            BY <1>0 DEF Typed, TypeOK, TxRows
          <6>3. tx'[t] = [tx[t] EXCEPT !.status = "reorged"]
            BY <6>1, <6>2
          <6>4. tx[t] \in TxRows
            BY <6>2
          <6>5. tx'[t].status = "reorged"
            BY <6>3, <6>4 DEF TxRows
          <6> QED  BY <6>5 DEF Counts
        <5> QED  BY <4>2, <5>1, <5>2
      <4> QED  BY <2>1, <3>2, <4>1, <4>2
    <3>3. CASE pc[Loop] \in {"check", "revert"} /\ top' = top /\ todo' = todo
      BY <2>1, <3>3
    <3> QED  BY <1>0, <2>3, <3>1, <3>2, <3>3, CandidatesStep
  <2> QED  BY <2>2, <2>3
<1>6. \/ \E a \in Actors : Insert(a) /\ cur[a].t = t /\ b = cur[a].block
      \/ tx[t].status \in Counts /\ tx[t].block = b
  BY <1>0, RowStep DEF Counts
<1> QED  BY <1>3, <1>4, <1>5, <1>6

\* What is at its depth stays.
LEMMA CoveringGrows ==
  ASSUME Typed, [Next]_vars, MaxReorg <= Required, NEW x
  PROVE  Covering(x) \subseteq Covering(x)'
<1> SUFFICES ASSUME NEW t \in Incoming(x), at[t] > 0, head - at[t] >= Required
             PROVE  at'[t] > 0 /\ head' - at'[t] >= Required
  BY DEF Covering, Incoming
<1>1. /\ head \in Int /\ MaxReorg \in Int /\ Required \in Int /\ t \in Transfers /\ at[t] \in Int
  BY DepositsAssumption DEF Typed, TypeOK, Heights, Incoming
<1>2. at'[t] = at[t]
  BY <1>1, AtStep
<1> QED  BY <1>1, <1>2, HeadGrows

\* A payment found paid is covered.
PaidIsCovered ==
  pc[Loop] \in {"settle", "deepen"} =>
    \A i \in ready : i.paid => Total(Covering(i.x)) >= Due[i.x]

LEMMA CoverStays ==
  ASSUME Typed, Typed', [Next]_vars, MaxReorg <= Required, NEW x \in Payments,
         Total(Covering(x)) >= Due[x]
  PROVE  Total(Covering(x)') >= Due[x]
<1>1. Covering(x) \in SUBSET Transfers /\ Covering(x)' \in SUBSET Transfers /\ Due[x] \in Nat
  BY DepositsAssumption DEF Covering, Incoming
<1>2. Covering(x) \subseteq Covering(x)'
  BY CoveringGrows
<1>3. Total(Covering(x)) <= Total(Covering(x)')
      /\ Total(Covering(x)) \in Nat /\ Total(Covering(x)') \in Nat
  BY <1>1, <1>2, TotalGrows
<1> QED  BY <1>1, <1>3

LEMMA DeepIsCovering ==
  ASSUME Typed, KeptUp, InPhase, Worth, WrongIsYoung, pc[Loop] = "log", NEW x,
         MaxReorg <= Required, MaxLag < Required
  PROVE  {t \in Rows(x) : Deep(t)} \subseteq Covering(x)
<1> SUFFICES ASSUME NEW t \in Transfers, To[t] = x, tx[t].status \in Counts, Deep(t)
             PROVE  t \in Covering(x)
  BY DEF Rows, Counts
<1>1. /\ head \in Int /\ top \in Int /\ tx[t].block \in Int /\ at[t] \in Int
      /\ MaxReorg \in Int /\ MaxLag \in Int /\ Required \in Int
  BY DepositsAssumption DEF Typed, TypeOK, Heights
<1>2. checked = top /\ top <= head
  BY DEF InPhase, Later, KeptUp
<1>3. at[t] = tx[t].block
  BY <1>1, <1>2 DEF WrongIsYoung, Near, Deep
<1>4. at[t] > 0 /\ Asset[t] = Awaits[x]
  BY <1>3 DEF Worth
<1>5. head - at[t] >= Required
  BY <1>1, <1>2, <1>3 DEF Deep
<1> QED  BY <1>4, <1>5 DEF Covering, Incoming

LEMMA PaidIsCoveredStep ==
  ASSUME Typed, Typed', KeptUp, InPhase, Worth, WrongIsYoung, PaidIsCovered, [Next]_vars,
         MaxReorg <= Required, MaxLag < Required
  PROVE  PaidIsCovered'
<1> SUFFICES ASSUME pc'[Loop] \in {"settle", "deepen"}, NEW i \in ready', i.paid
             PROVE  Total(Covering(i.x)') >= Due[i.x]
  BY DEF PaidIsCovered
<1>0. i.x \in Payments /\ Due[i.x] \in Nat
  BY DepositsAssumption DEF Typed, TypeOK
<1>1. Total(Covering(i.x)) >= Due[i.x]
  <2>1. CASE SelectReady
    <3> DEFINE D == {t \in Rows(i.x) : Deep(t)}
    <3>1. FullyPaid(i.x) /\ pc[Loop] = "log"
      BY <2>1 DEF SelectReady
    <3>2. Total(D) >= Due[i.x]
      BY <3>1 DEF FullyPaid
    <3>3. D \subseteq Covering(i.x)
      BY <3>1, DeepIsCovering
    <3> HIDE DEF D
    <3>4. Covering(i.x) \in SUBSET Transfers
      BY DEF Covering, Incoming
    <3>5. Total(D) <= Total(Covering(i.x)) /\ Total(D) \in Nat /\ Total(Covering(i.x)) \in Nat
      BY <3>3, <3>4, TotalGrows
    <3> QED  BY <1>0, <3>2, <3>5
  <2>2. CASE pc[Loop] \in {"settle", "deepen"} /\ ready' \subseteq ready
    BY <2>2 DEF PaidIsCovered
  <2> QED  BY <2>1, <2>2, ReadyStep
<1> QED  BY <1>0, <1>1, CoverStays

LEMMA CoveredStep ==
  ASSUME Typed, Typed', PaidIsCovered, ConfirmedIsCovered, [Next]_vars, MaxReorg <= Required
  PROVE  ConfirmedIsCovered'
<1> SUFFICES ASSUME NEW x \in Payments, status'[x] \in {"confirmed", "swept"}
             PROVE  Total(Covering(x)') >= Due[x]
  BY DEF ConfirmedIsCovered, Covering
<1>1. CASE status[x] \in {"confirmed", "swept"}
  <2>1. Total(Covering(x)) >= Due[x]
    BY <1>1 DEF ConfirmedIsCovered, Covering
  <2> QED  BY <2>1, CoverStays
<1>2. CASE status[x] \notin {"confirmed", "swept"}
  <2>1. Settle /\ \E i \in ready : i.x = x /\ i.paid
    BY <1>2, StatusStep
  <2>2. Total(Covering(x)) >= Due[x]
    BY <2>1 DEF Settle, PaidIsCovered
  <2> QED  BY <2>2, CoverStays
<1> QED  BY <1>1, <1>2

CoverInv ==
  /\ TypedInv /\ KeptUp /\ InPhase /\ LoopLogs /\ Worth
  /\ WrongIsYoung /\ PaidIsCovered /\ ConfirmedIsCovered

LEMMA InitPass == Init => TypedInv /\ KeptUp /\ InPhase /\ LoopLogs /\ Worth
<1> SUFFICES ASSUME Init  PROVE TypedInv /\ KeptUp /\ InPhase /\ LoopLogs /\ Worth
  OBVIOUS
<1>1. TypedInv /\ KeptUp
  BY InitCredited DEF CreditInv
<1>2. InPhase
  BY DepositsAssumption DEF Init, InPhase, Later, Start, Actors
<1>3. LoopLogs /\ Worth
  BY DEF Init, LoopLogs, Worth, Counts, NoRow, Recording, Actors
<1> QED  BY <1>1, <1>2, <1>3

LEMMA InitCover == Init => CoverInv
<1> SUFFICES ASSUME Init  PROVE WrongIsYoung /\ PaidIsCovered /\ ConfirmedIsCovered
  BY InitPass DEF CoverInv
<1> QED  BY DEF Init, WrongIsYoung, PaidIsCovered, ConfirmedIsCovered, Counts, NoRow, Actors

LEMMA CoverStep ==
  ASSUME "lag" \notin Faults, "receipt" \notin Faults,
         MaxReorg <= Required, MaxLag < Required,
         MaxReorg + MaxLag <= ReorgDepth, 2 * MaxLag < ReorgDepth,
         CoverInv, [Next]_vars
  PROVE  CoverInv'
<1>0. MaxReorg <= ReorgDepth
  BY DepositsAssumption
<1>1. TypedInv' /\ Typed /\ Typed'
  BY NextTyped DEF CoverInv, TypedInv
<1>2. KeptUp' /\ InPhase' /\ LoopLogs' /\ Worth'
  BY <1>0, <1>1, KeptUpStep, InPhaseStep, LoopLogsStep, WorthStep DEF CoverInv
<1>3. WrongIsYoung' /\ PaidIsCovered' /\ ConfirmedIsCovered'
  BY <1>1, WrongIsYoungStep, PaidIsCoveredStep, CoveredStep DEF CoverInv
<1> QED  BY <1>1, <1>2, <1>3 DEF CoverInv

\* A payment is confirmed on transfers that the chain holds at their depth, and
\* that it keeps: as long as the listener keeps up and no receipt it asks for is
\* refused, and the depths are over what the chain rewrites.
THEOREM ConfirmedOnTheChain ==
  ASSUME "lag" \notin Faults, "receipt" \notin Faults,
         MaxReorg <= Required, MaxLag < Required,
         MaxReorg + MaxLag <= ReorgDepth, 2 * MaxLag < ReorgDepth
  PROVE  Spec => []ConfirmedIsCovered
<1>1. CoverInv /\ [Next]_vars => CoverInv'
  BY CoverStep
<1>2. CoverInv => ConfirmedIsCovered
  BY DEF CoverInv
<1> QED  BY <1>1, <1>2, InitCover, PTL DEF Spec

-----------------------------------------------------------------------------
(* The listener implements PaymentPromise, for each payment.                  *)

\* The chain moves, or the database does.
LEMMA ChainOrRows ==
  ASSUME [Next]_vars
  PROVE  UNCHANGED chainVars \/ UNCHANGED dbVars
BY DEF Next, vars, chainVars, Mine, Reorganise, Backstop, Crash, Pass, Begin, RefreshWatch,
       SelectRecent, CheckReceipt, Revert, Scan, RecordNext, SelectReady, Settle, Deepen,
       DeepenRest, WriteCursor, Insert, Advance, Refresh, Create, Expire, ReapLate, Sweep,
       Handle, Deliver, Abort

\* An expiry writes no total.
LEMMA ExpiryKeepsTotal ==
  ASSUME Typed, [Next]_vars, NEW x \in Payments, status[x] = "waiting", status'[x] = "expired"
  PROVE  received'[x] = received[x]
<1>1. status \in [Payments -> Statuses]
  BY DEF Typed, TypeOK
<1>2. ASSUME NEW a \in Actors, Refresh(a)  PROVE status'[x] # "expired"
  BY <1>1, <1>2 DEF Refresh
<1> QED  BY <1>2, ReceivedStep

LEMMA PromiseInit == ASSUME Init, NEW x \in Payments  PROVE Promise(x)!Init
BY DEF Init, Promise!Init, Place, Live

\* While the chain stands, the cover of x does.
LEMMA CoveringStands ==
  ASSUME UNCHANGED chainVars, NEW x
  PROVE  Covering(x)' = Covering(x)
BY DEF Covering, Incoming, chainVars

\* A step that leaves the status of x alone only counts its money.
LEMMA PromiseStands ==
  ASSUME Typed, Typed', [Next]_vars, NEW x \in Payments, MaxReorg <= Required,
         status'[x] = status[x]
  PROVE  Promise(x)!Fund \/ Promise(x)!Credit
<1>1. CASE received'[x] = received[x]
  <2>1. Total(Covering(x)) >= Due[x] => Total(Covering(x)') >= Due[x]
    BY CoverStays
  <2> QED  BY <1>1, <2>1 DEF Promise!Fund
<1>2. CASE received'[x] # received[x]
  <2>1. status[x] \in Live
    BY <1>2, ReceivedStep DEF Live
  <2>2. ~UNCHANGED dbVars
    BY <1>2 DEF dbVars
  <2>3. Covering(x)' = Covering(x)
    BY <2>2, ChainOrRows, CoveringStands
  <2> QED  BY <2>1, <2>3 DEF Promise!Credit, Place
<1> QED  BY <1>1, <1>2

\* A step that moves it is a move of the promise, or is within an open payment.
LEMMA PromiseMoves ==
  ASSUME Typed, ConfirmedIsCovered', PaidIsCredited', [Next]_vars, NEW x \in Payments,
         status'[x] # status[x]
  PROVE  Promise(x)!Next
<1>1. Covering(x)' = Covering(x)
  BY ChainOrRows, CoveringStands DEF dbVars
<1>2. CASE status[x] = "none" /\ status'[x] = "waiting" /\ received' = received
  BY <1>1, <1>2 DEF Promise!Next, Promise!Create, Promise!Move, Place, Live
<1>3. CASE status[x] = "waiting" /\ status'[x] = "expired"
  BY <1>1, <1>3, ExpiryKeepsTotal DEF Promise!Next, Promise!Expire, Promise!Move, Place, Live
<1>4. CASE status[x] \in Live /\ status'[x] \in Live
  BY <1>1, <1>4 DEF Promise!Next, Promise!Credit, Place
<1>5. CASE status[x] = "confirmed" /\ status'[x] = "waiting"
  BY <1>1, <1>5 DEF Promise!Next, Promise!Reopen, Promise!Move, Place, Live
<1>6. CASE status[x] \in Live /\ status'[x] = "confirmed" /\ received' = received
  <2>1. Total(Covering(x)) >= Due[x] /\ received[x] >= Due[x]
    BY <1>1, <1>6 DEF ConfirmedIsCovered, PaidIsCredited
  <2> QED  BY <1>1, <1>6, <2>1 DEF Promise!Next, Promise!Pay, Promise!Move, Place, Live
<1>7. CASE status[x] = "confirmed" /\ status'[x] = "swept" /\ received' = received
  BY <1>1, <1>7 DEF Promise!Next, Promise!Sweep, Promise!Move, Place, Live
<1> QED  BY <1>2, <1>3, <1>4, <1>5, <1>6, <1>7, StatusStep DEF Live

\* Whatever the subscription, the passes, the expiry tick and the sweep interleave
\* with, each payment behaves as PaymentPromise says: it is paid once its price is
\* held for good and credited, its credit is frozen from then on, and what is swept
\* or expired stays so.  The hypotheses are those of the two theorems before.
THEOREM DepositsKeepPromise ==
  ASSUME "lag" \notin Faults, "receipt" \notin Faults, "torn" \notin Faults,
         MaxReorg <= Required, MaxLag < Required,
         MaxReorg + MaxLag <= ReorgDepth, 2 * MaxLag < ReorgDepth
  PROVE  Spec => KeepsPromise
<1>0. Required > MaxLag
  BY DepositsAssumption
<1>1. CoverInv /\ [Next]_vars => CoverInv'
  BY CoverStep
<1>2. CreditInv /\ [Next]_vars => CreditInv'
  BY <1>0, CreditStep
<1>3. Init => \A x \in Payments : Promise(x)!Init
  BY PromiseInit
<1>4. CoverInv /\ CoverInv' /\ CreditInv' /\ [Next]_vars =>
        [\A x \in Payments : [Promise(x)!Next]_(Promise(x)!vars)]_vars
  <2> SUFFICES ASSUME CoverInv, CoverInv', CreditInv', [Next]_vars, NEW x \in Payments
               PROVE  Promise(x)!Next
    OBVIOUS
  <2>1. Typed /\ Typed' /\ ConfirmedIsCovered' /\ PaidIsCredited'
    BY DEF CoverInv, TypedInv, CreditInv
  <2>2. CASE status'[x] = status[x]
    BY <2>1, <2>2, PromiseStands DEF Promise!Next
  <2>3. CASE status'[x] # status[x]
    BY <2>1, <2>3, PromiseMoves
  <2> QED  BY <2>2, <2>3
<1> QED  BY <1>1, <1>2, <1>3, <1>4, InitCover, InitCredited, PTL DEF Spec, KeepsPromise

-----------------------------------------------------------------------------
(* Only a revert of a confirmed payment leaves a transfer behind the cursor.  *)

\* A transfer to a live payment that was never taken back, of the asset it awaits.
Awaited(t) == status[To[t]] \in Live /\ To[t] \notin back /\ t \in Incoming(To[t])

\* A row in the right block.
Right(t) == tx[t].status \in Counts /\ tx[t].block = at[t]

\* Only addresses that have been given out receive.
Known == \A t \in Transfers : at[t] > 0 => status[To[t]] # "none"

\* What a callback has in hand is where it was, or was moved since.
HeldMoves ==
  \A c \in Callbacks : pc[c] \in Recording =>
    LET i == cur[c] IN at[i.t] \in {0, i.block} \/ at[i.t] > i.block - MaxReorg

\* The watch set of a pass leaves out no payment with a transfer to be scanned.
Watched ==
  pc[Loop] \in {"select", "check", "revert"} => \A t \in Transfers :
    Awaited(t) /\ To[t] \notin watch => at[t] = 0 \/ at[t] > top - MaxReorg

\* A row the reorg check may take away is not behind the cursor.
Ahead ==
  pc[Loop] \in {"check", "revert"} =>
    \A i \in todo : Awaited(i.t) => at[i.t] = 0 \/ at[i.t] > cursor

\* Behind the cursor to be written all is recorded, or in hand.
Taken ==
  upto > 0 => \A t \in Transfers : Awaited(t) /\ at[t] > 0 /\ at[t] <= upto =>
    \/ Right(t)
    \/ [t |-> t, block |-> at[t]] \in todo
    \/ pc[Loop] = "insert" /\ cur[Loop].t = t /\ cur[Loop].block = at[t]

LEMMA KnownStep ==
  ASSUME TypedInv, Known, [Next]_vars
  PROVE  Known'
<1> SUFFICES ASSUME NEW t \in Transfers, at'[t] > 0  PROVE status'[To[t]] # "none"
  BY DEF Known
<1>0. /\ Typed /\ To[t] \in Payments /\ head \in Int /\ MaxReorg \in Int /\ at[t] \in Int
      /\ head >= MaxReorg
  BY DepositsAssumption DEF TypedInv, Typed, TypeOK, Heights, Start
<1>1. at[t] > 0 => status[To[t]] # "none"
  BY DEF Known
<1>2. status[To[t]] # "none"
  BY <1>0, <1>1, AtStep
<1> QED  BY <1>0, <1>2, StatusStep

\* A transfer that becomes awaited is in no block yet.
LEMMA AwaitedStep ==
  ASSUME Typed, Known, [Next]_vars, Remember, NEW t \in Transfers, Awaited(t)', ~Awaited(t)
  PROVE  ~(at[t] > 0)
<1>1. To[t] \in Payments /\ To[t] \notin back /\ To[t] \notin TakenBack
  BY DepositsAssumption DEF Awaited, Remember
<1>2. /\ status'[To[t]] \in Live /\ status[To[t]] \notin Live
      /\ status[To[t]] \in Statuses
  BY <1>1 DEF Awaited, Incoming, Typed, TypeOK
<1>3. ~(status[To[t]] = "confirmed" /\ status'[To[t]] = "waiting")
  BY <1>1 DEF TakenBack
<1>4. status[To[t]] = "none"
  BY <1>1, <1>2, <1>3, StatusStep DEF Live
<1> QED  BY <1>4 DEF Known

\* What is in no block, or over a height of the last blocks, stays so.
LEMMA YoungStays ==
  ASSUME TypedInv, [Next]_vars, NEW t \in Transfers, NEW h \in Int, h <= head - MaxReorg,
         at[t] = 0 \/ at[t] > h
  PROVE  at'[t] = 0 \/ at'[t] > h
<1>1. Typed /\ head \in Int /\ MaxReorg \in Int /\ MaxReorg >= 0 /\ at[t] \in Int
  BY DepositsAssumption DEF TypedInv, Typed, TypeOK, Heights
<1>2. at'[t] \in Int
  BY NextTyped DEF TypedInv, Typed, TypeOK, Heights
<1>3. \/ at'[t] = at[t] \/ at'[t] = head + 1 \/ at'[t] = 0 \/ at'[t] > head - MaxReorg
  BY <1>1, AtStep
<1> QED  BY <1>1, <1>2, <1>3

LEMMA HeldMovesStep ==
  ASSUME TypedInv, KeptUp, HeldMoves, [Next]_vars
  PROVE  HeldMoves'
<1> SUFFICES ASSUME NEW c \in Callbacks, pc'[c] \in Recording
             PROVE  LET i == cur'[c] IN
                      at'[i.t] \in {0, i.block} \/ at'[i.t] > i.block - MaxReorg
  BY DEF HeldMoves, Recording
<1>0. /\ Typed /\ pc'[c] # "idle" /\ c \in Actors
      /\ head \in Int /\ MaxReorg \in Int /\ MaxReorg >= 0
  BY DepositsAssumption DEF TypedInv, Typed, TypeOK, Heights, Recording, Actors
<1>1. CASE pc[c] # "idle" /\ cur'[c] = cur[c]
  <2>1. pc[c] \in Recording
    BY <1>1 DEF TypedInv, Typed, InHand
  <2>2. cur[c] \in LogCur
    BY <1>0, <2>1 DEF Typed, InHand
  <2>3. /\ cur[c].t \in Transfers /\ cur[c].block \in Int
        /\ cur[c].block <= head /\ at[cur[c].t] \in Int
    BY <1>0, <1>1, <2>2 DEF LogCur, Heights, KeptUp, Typed, TypeOK
  <2>4. at[cur[c].t] \in {0, cur[c].block} \/ at[cur[c].t] > cur[c].block - MaxReorg
    BY <2>1 DEF HeldMoves
  <2>5. \/ at'[cur[c].t] = at[cur[c].t] \/ at'[cur[c].t] = head + 1
        \/ at'[cur[c].t] = 0 \/ at'[cur[c].t] > head - MaxReorg
    BY <1>0, <2>3, AtStep
  <2>6. at'[cur[c].t] \in Int
    BY <2>3, NextTyped DEF TypedInv, Typed, TypeOK, Heights
  <2> QED  BY <1>0, <1>1, <2>3, <2>4, <2>5, <2>6
<1>2. ASSUME NEW t \in Transfers, Deliver(c, t),
             cur'[c] = [kind |-> "log", t |-> t, block |-> head, was |-> status[To[t]]]
      PROVE  at'[cur'[c].t] = cur'[c].block
  <2>1. at' = at /\ at[t] = head
    BY <1>2 DEF Deliver, chainVars
  <2> QED  BY <1>2, <2>1
<1> QED  BY <1>0, <1>1, <1>2, CallbackStep

\* The watch set is what was live at a moment after the head was read.
LEMMA WatchStep ==
  ASSUME Typed, [Next]_vars, pc'[Loop] \in {"select", "check", "revert"}
  PROVE  \/ watch' = LivePayments /\ status' = status
         \/ watch' = watch /\ pc[Loop] \in {"select", "check", "revert"} /\ top' = top
<1>1. Loop \in Actors /\ Loop \notin Callbacks /\ pc \in [Actors -> PCs]
  BY DepositsAssumption DEF Typed, TypeOK, Actors
<1>2. CASE ~Pass
  <2>1. watch' = watch \/ (watch' = LivePayments /\ status' = status)
    BY <1>2 DEF Next, vars, dbVars, Mine, Reorganise, Backstop, Crash, Create, Expire, ReapLate,
                Sweep, Handle, Insert, Advance, Refresh, Deliver, Abort
  <2> QED  BY <1>2, <2>1, OutsidePass
<1>3. CASE RefreshWatch
  BY <1>3 DEF RefreshWatch, dbVars
<1>4. CASE SelectRecent \/ CheckReceipt \/ Revert
  BY <1>1, <1>4 DEF SelectRecent, CheckReceipt, Revert, Goto, passVars
<1>5. CASE Begin \/ Scan \/ RecordNext \/ SelectReady \/ Settle \/ Deepen
  BY <1>1, <1>5 DEF Begin, Scan, RecordNext, Match, SelectReady, Settle, Deepen, Goto
<1>6. CASE DeepenRest \/ WriteCursor \/ Insert(Loop) \/ Advance(Loop) \/ Refresh(Loop)
  BY <1>1, <1>6 DEF DeepenRest, EndPass, WriteCursor, Insert, Advance, Refresh, Recorded, Goto
<1> QED  BY <1>2, <1>3, <1>4, <1>5, <1>6 DEF Pass

LEMMA WatchedStep ==
  ASSUME TypedInv, KeptUp, Known, Watched, [Next]_vars, Remember
  PROVE  Watched'
<1> SUFFICES ASSUME pc'[Loop] \in {"select", "check", "revert"}, NEW t \in Transfers,
                    Awaited(t)', To[t] \notin watch'
             PROVE  at'[t] = 0 \/ at'[t] > top' - MaxReorg
  BY DEF Watched
<1>0. /\ Typed /\ To[t] \in Payments /\ head \in Int /\ top \in Int /\ at[t] \in Int /\ at[t] >= 0
      /\ MaxReorg \in Int
  BY DepositsAssumption DEF TypedInv, Typed, TypeOK, Heights
<1>1. ~(watch' = LivePayments /\ status' = status)
  BY <1>0 DEF LivePayments, Awaited
<1>2. watch' = watch /\ pc[Loop] \in {"select", "check", "revert"} /\ top' = top
  BY <1>0, <1>1, WatchStep
<1>3. top - MaxReorg \in Int /\ top - MaxReorg <= head - MaxReorg
  BY <1>0, <1>2 DEF KeptUp
<1>4. at[t] = 0 \/ at[t] > top - MaxReorg
  <2>1. CASE Awaited(t)
    BY <1>2, <2>1 DEF Watched
  <2>2. CASE ~Awaited(t)
    BY <1>0, <2>2, AwaitedStep
  <2> QED  BY <2>1, <2>2
<1> QED  BY <1>2, <1>3, <1>4, YoungStays

LEMMA CursorStep ==
  ASSUME Typed, [Next]_vars
  PROVE  cursor' = cursor \/ WriteCursor
BY DEF Next, vars, dbVars, Mine, Reorganise, Backstop, Crash, Pass, Begin, RefreshWatch, SelectRecent,
       CheckReceipt, Revert, Scan, RecordNext, SelectReady, Settle, Deepen, DeepenRest,
       Insert, Advance, Refresh, Create, Expire, ReapLate, Sweep, Handle, Deliver,
       Abort

\* What is found behind the last blocks has been there.
LEMMA OldStays ==
  ASSUME TypedInv, [Next]_vars, NEW t \in Transfers, NEW h \in Int, h <= head - MaxReorg,
         at'[t] > 0, at'[t] <= h
  PROVE  at'[t] = at[t]
<1>1. Typed /\ head \in Int /\ MaxReorg \in Int /\ MaxReorg >= 0
  BY DepositsAssumption DEF TypedInv, Typed, TypeOK, Heights
<1>2. at'[t] \in Int
  BY NextTyped DEF TypedInv, Typed, TypeOK, Heights
<1> QED  BY <1>1, <1>2, AtStep

LEMMA AheadStep ==
  ASSUME TypedInv, KeptUp, InPhase, Known, Ahead, NoneMissed, [Next]_vars, Remember,
         MaxReorg <= ReorgDepth
  PROVE  Ahead'
<1> SUFFICES ASSUME pc'[Loop] \in {"check", "revert"}, NEW i \in todo', Awaited(i.t)'
             PROVE  at'[i.t] = 0 \/ at'[i.t] > cursor'
  BY DEF Ahead
<1>0. /\ Typed /\ head \in Int /\ cursor \in Int /\ top \in Int /\ checked \in Int
      /\ MaxReorg \in Int /\ ReorgDepth \in Int /\ Loop \in Actors /\ pc \in [Actors -> PCs]
  BY DepositsAssumption DEF TypedInv, Typed, TypeOK, Heights, Actors
<1>1. i.t \in Transfers /\ at[i.t] \in Int /\ at[i.t] >= 0
  BY NextTyped DEF TypedInv, Typed, TypeOK, Logs, Heights
<1>2. cursor' = cursor
  BY <1>0, CursorStep DEF WriteCursor, EndPass, Goto
<1>3. cursor <= head - MaxReorg /\ cursor + ReorgDepth <= checked
  BY <1>0 DEF InPhase, KeptUp
<1>4. at[i.t] = 0 \/ at[i.t] > cursor
  <2>1. CASE ~Awaited(i.t)
    BY <1>0, <1>1, <2>1, AwaitedStep
  <2>2. CASE Awaited(i.t) /\ i \in todo /\ pc[Loop] \in {"check", "revert"}
    BY <2>2 DEF Ahead
  <2>3. CASE Awaited(i.t) /\ SelectRecent
    <3>1. tx[i.t].block > top - ReorgDepth /\ tx[i.t].block \in Int
      BY <1>0, <2>3 DEF SelectRecent, Typed, TypeOK, Heights
    <3>2. checked <= top
      BY <2>3 DEF SelectRecent, KeptUp
    <3>3. at[i.t] \in 1..cursor => tx[i.t].block = at[i.t]
      BY <1>1, <2>3 DEF NoneMissed, Awaited
    <3> QED  BY <1>0, <1>1, <1>3, <3>1, <3>2, <3>3
  <2>4. SelectRecent \/ (pc[Loop] \in {"check", "revert"} /\ i \in todo)
    BY <1>0, CandidatesStep DEF CheckReceipt
  <2> QED  BY <2>1, <2>2, <2>3, <2>4
<1> QED  BY <1>0, <1>1, <1>2, <1>3, <1>4, YoungStays

\* A right row behind the safe head stays right, unless the reorg check takes it.
LEMMA RightStays ==
  ASSUME TypedInv, KeptUp, LoopLogs, HeldMoves, Ahead, [Next]_vars,
         MaxReorg + MaxLag <= ReorgDepth,
         NEW t \in Transfers, Awaited(t), Right(t), at[t] > 0, at'[t] = at[t],
         at[t] <= head - ReorgDepth, at[t] <= cursor \/ pc[Loop] # "check"
  PROVE  Right(t)'
<1>0. /\ Typed /\ head \in Int /\ at[t] \in Int /\ cursor \in Int
      /\ MaxReorg \in Int /\ MaxLag \in Int /\ ReorgDepth \in Int
      /\ Actors = {Loop} \cup Callbacks
  BY DepositsAssumption DEF TypedInv, Typed, TypeOK, Heights, Actors
<1>1. ASSUME NEW a \in Actors, Insert(a), cur[a].t = t  PROVE cur[a].block = at[t]
  <2>0. pc[a] = "insert" /\ pc[a] \in Recording /\ pc[a] # "idle"
    BY <1>1 DEF Insert, Recording
  <2>1. CASE a = Loop
    BY <1>1, <2>0, <2>1 DEF LoopLogs, Safe
  <2>2. CASE a \in Callbacks
    <3>1. cur[a].block \in Int
      BY <1>0, <2>0 DEF Typed, InHand, LogCur, Heights
    <3>2. at[t] = cur[a].block \/ at[t] > cur[a].block - MaxReorg
      BY <1>0, <1>1, <2>0, <2>2 DEF HeldMoves
    <3>3. head <= cur[a].block + MaxLag
      BY <2>0, <2>2 DEF KeptUp
    <3> QED  BY <1>0, <3>1, <3>2, <3>3
  <2> QED  BY <1>0, <2>1, <2>2
<1>2. ASSUME CheckReceipt  PROVE tx'[t] = tx[t]
  <2>1. PICK i \in todo : \/ tx' = tx
                          \/ at[i.t] # i.block /\ tx' = [tx EXCEPT ![i.t].status = "reorged"]
    BY <1>2 DEF CheckReceipt
  <2>2. pc[Loop] = "check"
    BY <1>2 DEF CheckReceipt
  <2>3. i.t # t
    BY <1>0, <2>2 DEF Ahead
  <2> QED  BY <1>0, <2>1, <2>3 DEF Typed, TypeOK
<1>3. \/ tx'[t] = tx[t]
      \/ \E a \in Actors : /\ Insert(a) /\ cur[a].t = t
                           /\ tx'[t].block = cur[a].block /\ tx'[t].status \in Counts
      \/ tx'[t].status \in Counts /\ tx'[t].block = tx[t].block
  BY <1>0, <1>2, RowStep DEF Counts
<1> QED  BY <1>1, <1>3 DEF Right, Counts

LEMMA NoneMissedStep ==
  ASSUME TypedInv, KeptUp, InPhase, LoopLogs, Known, HeldMoves, Ahead, Taken, NoneMissed,
         [Next]_vars, Remember, MaxReorg + MaxLag <= ReorgDepth
  PROVE  NoneMissed'
<1> SUFFICES ASSUME NEW t \in Transfers, at'[t] \in 1..cursor', Awaited(t)'
             PROVE  Right(t)'
  BY DEF NoneMissed, Awaited, Right, Counts
<1>0. /\ Typed /\ head \in Int /\ cursor \in Int /\ checked \in Int /\ upto \in Int
      /\ MaxReorg \in Int /\ MaxLag \in Int /\ MaxLag > 0 /\ ReorgDepth \in Int /\ at[t] \in Int
      /\ at'[t] \in Int /\ cursor' \in Int
  BY DepositsAssumption, NextTyped DEF TypedInv, Typed, TypeOK, Heights
<1>1. CASE WriteCursor
  <2>1. /\ cursor' = upto /\ at' = at /\ status' = status /\ tx' = tx /\ pc[Loop] = "write"
    BY <1>1 DEF WriteCursor, chainVars
  <2>2. Awaited(t)
    BY <2>1 DEF Awaited, Incoming, Remember
  <2>3. todo = {}
    BY <2>1 DEF InPhase
  <2>4. Right(t)
    BY <1>0, <2>1, <2>2, <2>3 DEF Taken
  <2> QED  BY <2>1, <2>4 DEF Right
<1>2. CASE cursor' = cursor
  <2>1. cursor <= head - MaxReorg /\ cursor <= head - ReorgDepth
    BY <1>0 DEF InPhase, KeptUp
  <2>2. at'[t] = at[t] /\ at[t] > 0 /\ at[t] <= cursor
    BY <1>0, <1>2, <2>1, OldStays
  <2>3. Awaited(t)
    BY <1>0, <2>2, AwaitedStep
  <2>4. Right(t)
    BY <1>0, <2>2, <2>3 DEF NoneMissed, Awaited, Right, Counts
  <2>5. at[t] <= head - ReorgDepth
    BY <1>0, <2>1, <2>2
  <2> QED  BY <2>2, <2>3, <2>4, <2>5, RightStays
<1> QED  BY <1>0, <1>1, <1>2, CursorStep

\* Between the scan and the cursor a log is taken, inserted, or left as it is.
LEMMA HandsStep ==
  ASSUME Typed, InPhase, [Next]_vars, upto' > 0, ~Scan
  PROVE  /\ upto' = upto /\ pc[Loop] \in Later /\ top' = top
         /\ \/ RecordNext \/ Insert(Loop)
            \/ /\ todo' = todo
               /\ pc[Loop] = "insert" => pc'[Loop] = "insert" /\ cur'[Loop] = cur[Loop]
<1>0. Loop \in Actors /\ pc \in [Actors -> PCs] /\ ~(0 > 0)
  BY DEF Typed, TypeOK, Actors
<1>1. CASE ~Pass
  <2>1. /\ pc'[Loop] = pc[Loop] /\ cur'[Loop] = cur[Loop]
        /\ top' = top /\ todo' = todo /\ upto' = upto
    BY <1>0, <1>1, OutsidePass
  <2> QED  BY <2>1 DEF InPhase
<1>2. CASE Begin \/ RefreshWatch \/ SelectRecent \/ CheckReceipt \/ Revert
  <2>1. upto' = upto /\ pc[Loop] \notin Later
    BY <1>2 DEF Begin, RefreshWatch, SelectRecent, CheckReceipt, Revert, Later, passVars
  <2> QED  BY <2>1 DEF InPhase
<1>3. CASE RecordNext \/ Insert(Loop)
  <2>1. upto' = upto /\ top' = top
    BY <1>3 DEF RecordNext, Insert, passVars
  <2> QED  BY <1>3, <2>1 DEF InPhase
<1>4. CASE \/ Advance(Loop) \/ Refresh(Loop) \/ SelectReady \/ Settle \/ Deepen \/ DeepenRest
  <2>1. upto' = upto /\ top' = top /\ todo' = todo /\ pc[Loop] # "insert"
    BY <1>0, <1>4 DEF Advance, Refresh, SelectReady, Settle, Deepen, DeepenRest, EndPass, passVars
  <2> QED  BY <2>1 DEF InPhase
<1>5. ~WriteCursor
  BY <1>0 DEF WriteCursor, EndPass
<1> QED  BY <1>1, <1>2, <1>3, <1>4, <1>5 DEF Pass

LEMMA ScanTakes ==
  ASSUME TypedInv, KeptUp, InPhase, Watched, NoneMissed, Scan, upto' > 0, MaxReorg <= ReorgDepth,
         NEW t \in Transfers, Awaited(t), at[t] > 0, at[t] <= upto'
  PROVE  Right(t) \/ [t |-> t, block |-> at[t]] \in todo'
<1>0. /\ Typed /\ at[t] \in Int /\ cursor \in Int /\ top \in Int /\ upto \in Int
      /\ MaxReorg \in Int /\ ReorgDepth \in Int /\ pc[Loop] = "check"
  BY DepositsAssumption DEF TypedInv, Typed, TypeOK, Heights, Scan
<1>1. ~(upto > 0)
  BY <1>0 DEF InPhase, Later
<1>2. upto' = ScanTo /\ todo' = {[t |-> u, block |-> at[u]] : u \in Found}
  BY <1>0, <1>1 DEF Scan
<1>3. CASE at[t] <= cursor
  BY <1>0, <1>3 DEF NoneMissed, Awaited, Right, Counts
<1>4. CASE at[t] > cursor
  <2>1. ScanTo \in Int /\ ScanTo <= top - ReorgDepth
    BY <1>0, ScanToIs
  <2>2. To[t] \in watch
    BY <1>0, <1>2, <2>1 DEF Watched
  <2>3. t \in Found
    BY <1>0, <1>2, <1>4, <2>1, <2>2 DEF Found
  <2> QED  BY <1>2, <2>3
<1> QED  BY <1>0, <1>3, <1>4

LEMMA TakenStep ==
  ASSUME TypedInv, KeptUp, InPhase, LoopLogs, Known, HeldMoves, Watched, Ahead, Taken, NoneMissed,
         [Next]_vars, Remember, MaxReorg + MaxLag <= ReorgDepth
  PROVE  Taken'
<1> SUFFICES ASSUME upto' > 0, NEW t \in Transfers, Awaited(t)', at'[t] > 0, at'[t] <= upto'
             PROVE  \/ Right(t)'
                    \/ [t |-> t, block |-> at'[t]] \in todo'
                    \/ /\ pc'[Loop] = "insert" /\ cur'[Loop].t = t
                       /\ cur'[Loop].block = at'[t]
  BY DEF Taken
<1>0. /\ Typed /\ head \in Int /\ top \in Int /\ upto \in Int /\ MaxReorg \in Int /\ MaxLag \in Int
      /\ MaxLag > 0 /\ ReorgDepth \in Int /\ at[t] \in Int /\ at'[t] \in Int /\ upto' \in Int
      /\ MaxReorg <= ReorgDepth /\ Loop \in Actors /\ pc \in [Actors -> PCs] /\ DOMAIN cur = Actors
      /\ tx \in [Transfers -> TxRows]
  BY DepositsAssumption, NextTyped DEF TypedInv, Typed, TypeOK, Heights, Actors, TxRows
<1>1. CASE Scan
  <2>1. at' = at /\ status' = status /\ tx' = tx
    BY <1>1 DEF Scan, chainVars, dbVars
  <2>2. Awaited(t)
    BY <2>1 DEF Awaited, Incoming, Remember
  <2>3. Right(t) \/ [t |-> t, block |-> at[t]] \in todo'
    BY <1>0, <1>1, <2>1, <2>2, ScanTakes
  <2> QED  BY <2>1, <2>3 DEF Right
<1>2. CASE ~Scan
  <2>1. /\ upto' = upto /\ pc[Loop] \in Later /\ top' = top
        /\ \/ RecordNext \/ Insert(Loop)
           \/ /\ todo' = todo
              /\ pc[Loop] = "insert" => pc'[Loop] = "insert" /\ cur'[Loop] = cur[Loop]
    BY <1>0, <1>2, HandsStep
  <2>2. upto <= head - ReorgDepth /\ upto <= head - MaxReorg
    BY <1>0, <2>1 DEF InPhase, KeptUp, Later
  <2>3. at'[t] = at[t] /\ at[t] > 0 /\ at[t] <= upto
    BY <1>0, <2>1, <2>2, OldStays
  <2>4. Awaited(t)
    BY <1>0, <2>3, AwaitedStep
  <2>5. CASE Right(t)
    <3>1. at[t] <= head - ReorgDepth /\ pc[Loop] # "check"
      BY <1>0, <2>1, <2>2, <2>3 DEF Later
    <3> QED  BY <2>3, <2>4, <2>5, <3>1, RightStays
  <2>6. CASE [t |-> t, block |-> at[t]] \in todo
    <3>1. CASE todo' = todo
      BY <2>3, <2>6, <3>1
    <3>2. CASE RecordNext
      <4>1. PICK i \in todo : todo' = todo \ {i} /\ Match(Loop, i.t, i.block)
        BY <3>2 DEF RecordNext
      <4>2. CASE i # [t |-> t, block |-> at[t]]
        BY <2>3, <2>6, <4>1, <4>2
      <4>3. CASE i = [t |-> t, block |-> at[t]]
        <5>1. i.t = t /\ i.block = at[t]
          BY <4>3
        <5>2. /\ cur' = [cur EXCEPT ![Loop] = [kind |-> "log", t |-> t, block |-> at[t],
                                               was |-> status[To[t]]]]
              /\ pc' = [pc EXCEPT ![Loop] = "insert"]
          BY <2>4, <4>1, <5>1 DEF Match, Goto, Awaited, Incoming
        <5>3. pc'[Loop] = "insert" /\ cur'[Loop].t = t /\ cur'[Loop].block = at[t]
          BY <1>0, <5>2
        <5> QED  BY <2>3, <5>3
      <4> QED  BY <4>2, <4>3
    <3>3. CASE Insert(Loop)
      BY <2>3, <2>6, <3>3 DEF Insert, passVars
    <3> QED  BY <2>1, <3>1, <3>2, <3>3
  <2>7. CASE pc[Loop] = "insert" /\ cur[Loop].t = t /\ cur[Loop].block = at[t]
    <3>1. CASE Insert(Loop)
      <4>1. tx'[t].status \in Counts /\ tx'[t].block = at[t]
        BY <1>0, <2>7, <3>1 DEF Insert, Counts
      <4> QED  BY <2>3, <4>1 DEF Right, Counts
    <3>2. ~RecordNext
      BY <2>7 DEF RecordNext
    <3> QED  BY <2>1, <2>3, <2>7, <3>1, <3>2
  <2> QED  BY <2>1, <2>3, <2>4, <2>5, <2>6, <2>7 DEF Taken
<1> QED  BY <1>1, <1>2

MissInv ==
  /\ TypedInv /\ KeptUp /\ InPhase /\ LoopLogs /\ Known /\ HeldMoves
  /\ Watched /\ Ahead /\ Taken /\ NoneMissed

\* The cursor passes no transfer that a live payment awaits and that has no row in its
\* right block, unless a pass has taken the payment back from confirmed to waiting, and
\* while the listener keeps up: what the watch set of a pass leaves out is too young to
\* be scanned.
THEOREM OnlyRevertsMiss ==
  ASSUME "lag" \notin Faults, MaxReorg + MaxLag <= ReorgDepth
  PROVE  HistorySpec => []NoneMissed
<1>0. MaxReorg <= ReorgDepth
  BY DepositsAssumption
<1>1. HistoryInit => MissInv
  <2> SUFFICES ASSUME HistoryInit
               PROVE  Known /\ HeldMoves /\ Watched /\ Ahead /\ Taken /\ NoneMissed
    BY InitPass DEF HistoryInit, MissInv
  <2> QED  BY DEF HistoryInit, Init, Known, HeldMoves, Watched, Ahead, Taken, NoneMissed,
                  Recording, Actors
<1>2. MissInv /\ [HistoryNext]_historyVars => MissInv'
  <2> SUFFICES ASSUME MissInv, [HistoryNext]_historyVars  PROVE MissInv'
    OBVIOUS
  <2>0. [Next]_vars
    BY DEF HistoryNext, historyVars
  <2>1. Remember
    <3>1. CASE UNCHANGED historyVars
      BY <3>1 DEF historyVars, vars, dbVars, Remember, TakenBack
    <3> QED  BY <3>1 DEF HistoryNext
  <2>2. TypedInv' /\ Typed /\ Typed'
    BY <2>0, NextTyped DEF MissInv, TypedInv
  <2>3. KeptUp' /\ InPhase' /\ LoopLogs' /\ Known' /\ HeldMoves'
    BY <1>0, <2>0, <2>2, KeptUpStep, InPhaseStep, LoopLogsStep, KnownStep, HeldMovesStep
       DEF MissInv
  <2>4. Watched' /\ Ahead' /\ Taken' /\ NoneMissed'
    BY <1>0, <2>0, <2>1, WatchedStep, AheadStep, TakenStep, NoneMissedStep DEF MissInv
  <2> QED  BY <2>2, <2>3, <2>4 DEF MissInv
<1>3. MissInv => NoneMissed
  BY DEF MissInv
<1> QED  BY <1>1, <1>2, <1>3, PTL DEF HistorySpec

-----------------------------------------------------------------------------
(* The listeners of Tron and of Bitcoin: theorems about Scan.                 *)

H == INSTANCE Scan WITH Required <- Depths

INSTANCE Filing

\* The inductive invariant.

ScanRows == [status : {"pending", "confirmed"}, t : Transfers, block : H!Heights]

\* What the proof needs of the types.
HistoryTyped ==
  /\ status \in [Payments -> H!Statuses]
  /\ counted \in [Payments -> SUBSET Transfers]
  /\ row \in [H!Keys -> {H!NoRow} \cup ScanRows]
  /\ at \in [Transfers -> H!Heights] /\ head \in H!Heights
  /\ pc \in [Payments -> {"idle", "fetch", "record", "insert", "total"}]
  /\ todo \in [Payments -> SUBSET Transfers]
  /\ cur \in [Payments -> Transfers \cup {H!NoCur}]
  /\ listed \subseteq Transfers
  /\ \A i \in ready : i.x \in Payments

Mined == {t \in Transfers : at[t] > 0}

\* An address exists before it is paid, and Bitcoin mines no foreign asset.
MinedIsKnown ==
  \A t \in Mined : /\ status[To[t]] # "none"
                   /\ chain = "BTC" => t \in H!Incoming(To[t])

\* The scan of an address has transfers to it in hand, out of some block.
ScanInHand ==
  \A x \in Payments :
    /\ \A t \in todo[x] : t \in Mined /\ To[t] = x
    /\ pc[x] \in {"insert", "total"} => cur[x] \in Transfers

\* A total is a total of rows.
CountedIsRecorded == \A x \in Payments : counted[x] \subseteq H!Recorded(x)

\* What Bitcoin files is of a payment that is over, and was not of its total:
\* as the total of such a payment stands, it will not be.
FiledIsOver ==
  chain = "BTC" =>
    \A t \in listed : status[To[t]] \notin H!Live \cup {"none"} /\ t \notin counted[To[t]]

ScanInv == HistoryTyped /\ MinedIsKnown /\ ScanInHand /\ CountedIsRecorded /\ FiledIsOver

-----------------------------------------------------------------------------

LEMMA InitScan == H!ScanAssumption /\ H!Init => ScanInv
BY DEF H!ScanAssumption, H!Init, ScanInv, HistoryTyped, H!Statuses, H!Live, H!Heights,
    MinedIsKnown, Mined, ScanInHand,
       CountedIsRecorded, FiledIsOver, H!Recorded, H!NoRow, H!Keys

\* No statement of the scan takes a row away or gives it to another transfer.
LEMMA ScanRowsStay ==
  ASSUME HistoryTyped, NEW x \in Payments,
         \A k \in H!Keys : row[k] # H!NoRow => row'[k] # H!NoRow /\ row'[k].t = row[k].t
  PROVE  H!Recorded(x) \subseteq H!Recorded(x)'
BY DEF H!Recorded, H!Keys

\* A transfer that has no row is of no total.
LEMMA NoRowNotCounted ==
  ASSUME H!ScanAssumption, HistoryTyped, CountedIsRecorded, NEW t \in Transfers,
         row[Key[t]] = H!NoRow
  PROVE  t \notin counted[To[t]]
BY DEF H!ScanAssumption, CountedIsRecorded, H!Recorded, HistoryTyped

\* What leaves the rows, totals and chain alone keeps the invariant, when the
\* payments do not come back to life and the scan drops what it does not keep.
LEMMA ScanKept ==
  ASSUME H!ScanAssumption, ScanInv, UNCHANGED <<H!chainVars, counted, row, listed>>,
         status' \in [Payments -> H!Statuses],
         \A x \in Payments : status'[x] = "none" => status[x] = "none",
         \A x \in Payments : status[x] \notin H!Live \cup {"none"} => status'[x] \notin H!Live,
         todo' \in [Payments -> SUBSET Transfers],
         \A x \in Payments : todo'[x] \subseteq todo[x],
         pc' \in [Payments -> {"idle", "fetch", "record", "insert", "total"}],
         cur' \in [Payments -> Transfers \cup {H!NoCur}],
         \A x \in Payments : pc'[x] \in {"insert", "total"} => cur'[x] \in Transfers,
         \A i \in ready' : i.x \in Payments
  PROVE  ScanInv'
<1>1. HistoryTyped'
  BY DEF ScanInv, HistoryTyped, H!chainVars
<1>2. MinedIsKnown'
  BY DEF H!ScanAssumption, ScanInv, HistoryTyped, MinedIsKnown, Mined, H!Incoming, H!chainVars
<1>3. ScanInHand'
  BY DEF ScanInv, ScanInHand, Mined, H!chainVars
<1>4. CountedIsRecorded'
  BY DEF ScanInv, CountedIsRecorded, H!Recorded
<1>5. FiledIsOver'
  BY DEF H!ScanAssumption, ScanInv, HistoryTyped, FiledIsOver, H!chainVars
<1> QED  BY <1>1, <1>2, <1>3, <1>4, <1>5 DEF ScanInv

-----------------------------------------------------------------------------
(* The steps that ScanKept does not cover.                                    *)

\* A block puts transfers on the chain, to addresses that exist.
LEMMA MineStep == H!ScanAssumption /\ ScanInv /\ H!Mine => ScanInv'
<1> SUFFICES ASSUME H!ScanAssumption, ScanInv, H!Mine  PROVE ScanInv'
  OBVIOUS
<1>1. at' \in [Transfers -> H!Heights] /\ head' \in H!Heights
  BY DEF H!ScanAssumption, H!Mine, ScanInv, HistoryTyped, H!Heights
<1>2. \A t \in Transfers : at'[t] > 0 =>
        \/ at[t] > 0
        \/ t \in H!OnChain /\ status[To[t]] # "none"
  BY DEF H!Mine, ScanInv, HistoryTyped, H!Heights
<1>3. \A t \in Transfers : at[t] > 0 => at'[t] > 0
  BY DEF H!Mine, ScanInv, HistoryTyped, H!Heights
<1>4. MinedIsKnown'
  BY <1>2
  DEF H!ScanAssumption, H!Mine, ScanInv, MinedIsKnown, Mined, H!OnChain, H!Strangers,
      H!Incoming, H!dbVars
<1>5. ScanInHand'
  BY <1>3 DEF H!Mine, ScanInv, ScanInHand, Mined, H!scanVars
<1> QED
  BY <1>1, <1>4, <1>5
  DEF H!Mine, ScanInv, HistoryTyped, CountedIsRecorded, H!Recorded, FiledIsOver, H!dbVars,
      H!scanVars,
      H!tickVars

\* A feed returns mined transfers to the address.
LEMMA FetchStep ==
  ASSUME H!ScanAssumption, ScanInv, NEW x \in Payments, H!Fetch(x)
  PROVE  ScanInv'
<1>1. /\ todo' \in [Payments -> SUBSET Transfers]
      /\ \A y \in Payments : \A t \in todo'[y] : t \in Mined /\ To[t] = y
  <2>1. PICK F \in SUBSET {t \in Mined : To[t] = x} :
          todo' = todo \/ todo' = [todo EXCEPT ![x] = F]
    BY DEF H!Fetch, Mined
  <2>2. F \in SUBSET Transfers /\ todo \in [Payments -> SUBSET Transfers]
    BY <2>1 DEF ScanInv, HistoryTyped, Mined
  <2> QED  BY <2>1, <2>2 DEF ScanInv, ScanInHand
<1>2. /\ pc' \in [Payments -> {"idle", "fetch", "record", "insert", "total"}]
      /\ \A y \in Payments : pc'[y] \in {"insert", "total"} => pc[y] \in {"insert", "total"}
  BY DEF H!Fetch, ScanInv, HistoryTyped
<1>3. UNCHANGED <<chain, head, at, status, counted, row, listed, cur, ready>>
  BY DEF H!Fetch, H!chainVars, H!dbVars, H!tickVars
<1> QED
  BY <1>1, <1>2, <1>3
  DEF ScanInv, HistoryTyped, ScanInHand, MinedIsKnown, Mined, H!Incoming,
      CountedIsRecorded, H!Recorded,
      FiledIsOver

\* What a transfer is filed as when nobody awaits it: on Bitcoin its payment is
\* over, as it was mined and is in the only asset, and has not counted it.
LEMMA FileStep ==
  ASSUME H!ScanAssumption, ScanInv, NEW t \in Mined, ~H!Creditable(t), H!File(t),
         UNCHANGED <<chain, status, counted>>
  PROVE  listed' \subseteq Transfers /\ FiledIsOver'
<1>1. listed' \subseteq listed \cup {t}
  BY DEF H!File
<1>2. CASE chain = "BTC" /\ row[Key[t]] = H!NoRow
  <2>1. status[To[t]] \notin H!Live \cup {"none"}
    BY <1>2 DEF ScanInv, MinedIsKnown, H!Creditable
  <2>2. t \notin counted[To[t]]
    BY <1>2, NoRowNotCounted DEF ScanInv, Mined
  <2> QED  BY <1>1, <2>1, <2>2 DEF ScanInv, HistoryTyped, FiledIsOver, Mined
<1>3. CASE ~(chain = "BTC" /\ row[Key[t]] = H!NoRow)
  BY <1>1, <1>3 DEF ScanInv, HistoryTyped, FiledIsOver, Mined, H!File
<1> QED  BY <1>2, <1>3

\* Of a transfer in hand, either it is the one to record next, or it is filed, or
\* it is left.
LEMMA RecordStep ==
  ASSUME H!ScanAssumption, ScanInv, NEW x \in Payments, H!Record(x)
  PROVE  ScanInv'
<1>1. PICK t \in todo[x] :
        \/ /\ cur' = [cur EXCEPT ![x] = t]
           /\ pc' = [pc EXCEPT ![x] = "insert"]
           /\ UNCHANGED <<todo, listed>>
        \/ ~H!Creditable(t) /\ H!File(t) /\ H!Done(x, t) /\ UNCHANGED cur
        \/ H!Done(x, t) /\ UNCHANGED <<cur, listed>>
  BY DEF H!Record
<1>2. pc[x] = "record" /\ UNCHANGED <<chain, head, at, status, counted, row, ready>>
  BY DEF H!Record, H!chainVars, H!tickVars
<1>3. t \in Mined /\ t \in Transfers
  BY DEF ScanInv, ScanInHand, Mined
<1>4. /\ todo' \in [Payments -> SUBSET Transfers]
      /\ \A y \in Payments : todo'[y] \subseteq todo[y]
      /\ pc' \in [Payments -> {"idle", "fetch", "record", "insert", "total"}]
      /\ cur' \in [Payments -> Transfers \cup {H!NoCur}]
      /\ \A y \in Payments : pc'[y] \in {"insert", "total"} => cur'[y] \in Transfers
  BY <1>1, <1>2, <1>3 DEF ScanInv, HistoryTyped, ScanInHand, H!Done
<1>5. listed' \subseteq Transfers /\ FiledIsOver'
  BY <1>1, <1>2, <1>3, FileStep DEF ScanInv, HistoryTyped, FiledIsOver
<1> QED
  BY <1>2, <1>4, <1>5
  DEF ScanInv, HistoryTyped, ScanInHand, MinedIsKnown, Mined, H!Incoming,
      CountedIsRecorded, H!Recorded

\* A row is inserted, or its block is corrected.
LEMMA InsertStep ==
  ASSUME H!ScanAssumption, ScanInv, NEW x \in Payments, H!Insert(x)
  PROVE  ScanInv'
<1>1. cur[x] \in Transfers /\ UNCHANGED <<chain, head, at, status, counted, listed, todo, cur, ready>>
  BY DEF H!Insert, ScanInv, ScanInHand, H!chainVars, H!tickVars
<1>2. Key[cur[x]] \in H!Keys /\ at[cur[x]] \in H!Heights
  BY <1>1 DEF H!Keys, ScanInv, HistoryTyped
<1>3. /\ row' \in [H!Keys -> {H!NoRow} \cup ScanRows]
      /\ \A k \in H!Keys : row[k] # H!NoRow => row'[k] # H!NoRow /\ row'[k].t = row[k].t
  <2> DEFINE k0 == Key[cur[x]]
  <2>1. /\ row \in [H!Keys -> {H!NoRow} \cup ScanRows]
        /\ \/ row[k0] = H!NoRow /\ row' = [row EXCEPT ![k0] =
                [status |-> "pending", t |-> cur[x], block |-> at[cur[x]]]]
           \/ row[k0] # H!NoRow /\ row' = [row EXCEPT ![k0].block = at[cur[x]]]
           \/ row' = row
    BY DEF H!Insert, ScanInv, HistoryTyped
  <2>2. CASE row' = row
    BY <2>1, <2>2
  <2>3. CASE row[k0] = H!NoRow /\ row' = [row EXCEPT ![k0] =
               [status |-> "pending", t |-> cur[x], block |-> at[cur[x]]]]
    BY <1>1, <1>2, <2>1, <2>3 DEF ScanRows
  <2>4. CASE row[k0] # H!NoRow /\ row' = [row EXCEPT ![k0].block = at[cur[x]]]
    <3>1. row' = [row EXCEPT ![k0] = [row[k0] EXCEPT !.block = at[cur[x]]]]
      BY <2>4
    <3>2. row[k0] \in ScanRows
      BY <1>2, <2>1, <2>4
    <3>3. [row[k0] EXCEPT !.block = at[cur[x]]] \in ScanRows
            /\ [row[k0] EXCEPT !.block = at[cur[x]]].t = row[k0].t
      BY <1>2, <3>2 DEF ScanRows
    <3>4. [row[k0] EXCEPT !.block = at[cur[x]]] # H!NoRow
      BY <3>3 DEF ScanRows, H!NoRow
    <3> QED  BY <1>2, <2>1, <3>1, <3>3, <3>4
  <2> QED  BY <2>1, <2>2, <2>3, <2>4
<1>4. CountedIsRecorded'
  BY <1>1, <1>3, ScanRowsStay DEF ScanInv, CountedIsRecorded
<1>5. /\ pc' \in [Payments -> {"idle", "fetch", "record", "insert", "total"}]
      /\ \A y \in Payments : pc'[y] \in {"insert", "total"} => cur[y] \in Transfers
  BY <1>1 DEF H!Insert, ScanInv, HistoryTyped, ScanInHand
<1> QED
  BY <1>1, <1>3, <1>4, <1>5
  DEF ScanInv, HistoryTyped, ScanInHand, MinedIsKnown, Mined, H!Incoming, FiledIsOver

\* A live payment is given the total of its rows; one that is over keeps its own.
LEMMA CountStep ==
  ASSUME H!ScanAssumption, ScanInv, NEW x \in Payments, H!Count(x)
  PROVE  ScanInv'
<1>1. UNCHANGED <<chain, head, at, row, listed, ready>>
  BY DEF H!Count, H!chainVars, H!tickVars
<1>2. /\ todo' \in [Payments -> SUBSET Transfers]
      /\ \A y \in Payments : todo'[y] \subseteq todo[y]
      /\ pc' \in [Payments -> {"idle", "fetch", "record", "insert", "total"}]
      /\ cur' \in [Payments -> Transfers \cup {H!NoCur}]
      /\ \A y \in Payments : pc'[y] \in {"insert", "total"} => cur'[y] \in Transfers
  BY DEF H!Count, H!Done, ScanInv, HistoryTyped, ScanInHand
<1>3. CASE status[x] \in H!Live
  <2>1. /\ status' \in [Payments -> H!Statuses]
        /\ \A y \in Payments : y # x => status'[y] = status[y] /\ counted'[y] = counted[y]
        /\ status'[x] \in H!Live /\ counted'[x] = H!Recorded(x)
        /\ counted' \in [Payments -> SUBSET Transfers]
    BY <1>3 DEF H!Count, ScanInv, HistoryTyped, H!Statuses, H!Live, H!Recorded
  <2>2. MinedIsKnown'
    BY <1>1, <2>1 DEF H!ScanAssumption, ScanInv, MinedIsKnown, Mined, H!Incoming, H!Live
  <2>3. CountedIsRecorded'
    BY <1>1, <2>1 DEF ScanInv, CountedIsRecorded, H!Recorded
  <2>4. FiledIsOver'
    BY <1>1, <1>3, <2>1 DEF H!ScanAssumption, ScanInv, HistoryTyped, FiledIsOver
  <2> QED
    BY <1>1, <1>2, <2>1, <2>2, <2>3, <2>4 DEF ScanInv, HistoryTyped, ScanInHand, Mined
<1>4. CASE status[x] \notin H!Live
  <2>1. UNCHANGED <<counted, status>>
    BY <1>4 DEF H!Count
  <2> QED  BY <1>1, <1>2, <2>1, ScanKept DEF H!chainVars, ScanInv, HistoryTyped
<1> QED  BY <1>3, <1>4

\* The pending rows of a payment become confirmed ones.
LEMMA ConfirmRowsStep == H!ScanAssumption /\ ScanInv /\ H!ConfirmRows => ScanInv'
<1> SUFFICES ASSUME H!ScanAssumption, ScanInv, H!ConfirmRows  PROVE ScanInv'
  OBVIOUS
<1>1. /\ UNCHANGED <<chain, head, at, status, counted, listed, todo, cur, pc>>
      /\ ready' = ready
  BY DEF H!ConfirmRows, H!chainVars, H!scanVars
<1>2. \A k \in H!Keys : (\E t \in H!Pending(tick) : Key[t] = k) => row[k] \in ScanRows
  BY DEF H!Pending, H!Recorded, ScanInv, HistoryTyped, H!Keys
<1>3. /\ row' \in [H!Keys -> {H!NoRow} \cup ScanRows]
      /\ \A k \in H!Keys : row[k] # H!NoRow => row'[k] # H!NoRow /\ row'[k].t = row[k].t
  BY <1>2 DEF H!ConfirmRows, ScanInv, HistoryTyped, ScanRows, H!NoRow
<1>4. CountedIsRecorded'
  BY <1>1, <1>3, ScanRowsStay DEF ScanInv, CountedIsRecorded
<1> QED
  BY <1>1, <1>3, <1>4
  DEF ScanInv, HistoryTyped, ScanInHand, MinedIsKnown, Mined, H!Incoming, FiledIsOver

\* A promotion or a hold is of a payment that is confirming or partial.
LEMMA SettleStep == H!ScanAssumption /\ ScanInv /\ H!Settle => ScanInv'
<1> SUFFICES ASSUME H!ScanAssumption, ScanInv, H!Settle  PROVE ScanInv'
  OBVIOUS
<1>1. \/ UNCHANGED status
      \/ \E x \in Payments, s \in {"confirmed", "partial"} :
           status[x] \in {"confirming", "partial"} /\ status' = [status EXCEPT ![x] = s]
  BY DEF H!Settle, ScanInv, HistoryTyped
<1> QED
  BY <1>1, ScanKept
    DEF H!Settle, ScanInv, HistoryTyped, ScanInHand, H!Statuses, H!Live, H!chainVars,
        H!scanVars

-----------------------------------------------------------------------------

\* The addresses a pass takes are at the start of their scan.
LEMMA TakeStep ==
  ASSUME H!ScanAssumption, ScanInv, NEW S, H!Take(S),
         UNCHANGED <<H!chainVars, H!dbVars, todo, cur, ready>>
  PROVE  ScanInv'
<1>1. pc' \in [Payments -> {"idle", "fetch", "record", "insert", "total"}]
  BY DEF H!Take, ScanInv, HistoryTyped
<1>2. \A x \in Payments : pc'[x] \in {"insert", "total"} => cur'[x] \in Transfers
  BY DEF H!Take, ScanInv, ScanInHand
<1> QED  BY <1>1, <1>2, ScanKept DEF ScanInv, HistoryTyped, H!dbVars

\* Every step keeps the invariant.
LEMMA NextScan == H!ScanAssumption /\ ScanInv /\ [H!Next]_H!vars => ScanInv'
<1> SUFFICES ASSUME H!ScanAssumption, ScanInv, [H!Next]_H!vars  PROVE ScanInv'
  OBVIOUS
<1> USE DEF ScanInv, HistoryTyped, ScanInHand, H!chainVars, H!dbVars, H!scanVars, H!tickVars
<1>1. CASE H!Mine
  BY <1>1, MineStep
<1>2. CASE H!Refresh \/ H!Deadline
  BY <1>2, ScanKept DEF H!Refresh, H!Deadline
<1>3. CASE H!BeginPass \/ H!TakeNext
  <2>1. /\ \E S : H!Take(S)
        /\ UNCHANGED <<H!chainVars, H!dbVars, todo, cur, ready>>
    BY <1>3, Zenon DEF H!BeginPass, H!TakeNext
  <2> QED  BY <2>1, TakeStep
<1>4. CASE H!SelectReady \/ H!AbortTick
  <2>1. \A i \in ready' : i.x \in Payments
    BY <1>4 DEF H!SelectReady, H!AbortTick
  <2>2. UNCHANGED <<H!chainVars, H!dbVars, H!scanVars>>
    BY <1>4 DEF H!SelectReady, H!AbortTick
  <2> QED  BY <2>1, <2>2, ScanKept
<1>5. CASE H!Settle
  BY <1>5, SettleStep
<1>6. CASE H!ConfirmRows
  BY <1>6, ConfirmRowsStep
<1>7. CASE H!Crash
  BY <1>7, ScanKept DEF H!Crash
<1>8. CASE \E x \in Payments : H!Create(x) \/ H!Expire(x)
  BY <1>8, ScanKept DEF H!Create, H!Expire, H!Statuses, H!Live
<1>9. CASE \E x \in Payments : H!Fetch(x) \/ H!Record(x) \/ H!Insert(x) \/ H!Count(x)
  BY <1>9, FetchStep, RecordStep, InsertStep, CountStep
<1>10. CASE \E x \in Payments : H!EndScan(x) \/ H!AbortScan(x)
  <2>1. PICK x \in Payments : H!EndScan(x) \/ H!AbortScan(x)
    BY <1>10
  <2>2. /\ \E l \in {"idle", "fetch"} : pc' = [pc EXCEPT ![x] = l]
        /\ todo' = todo \/ todo' = [todo EXCEPT ![x] = {}]
        /\ cur' = cur \/ cur' = [cur EXCEPT ![x] = H!NoCur]
        /\ UNCHANGED <<H!chainVars, H!dbVars, ready>>
    BY <2>1 DEF H!EndScan, H!AbortScan
  <2>3. /\ pc' \in [Payments -> {"idle", "fetch", "record", "insert", "total"}]
        /\ \A y \in Payments : pc'[y] \in {"insert", "total"} => cur'[y] \in Transfers
    BY <2>2
  <2>4. /\ todo' \in [Payments -> SUBSET Transfers]
        /\ \A y \in Payments : todo'[y] \subseteq todo[y]
        /\ cur' \in [Payments -> Transfers \cup {H!NoCur}]
    BY <2>2
  <2> QED  BY <2>2, <2>3, <2>4, ScanKept
<1>11. CASE UNCHANGED H!vars
  BY <1>11, ScanKept DEF H!vars
<1> QED
  BY <1>1, <1>2, <1>3, <1>4, <1>5, <1>6, <1>7, <1>8, <1>9, <1>10, <1>11
    DEF H!Next, H!Tick, H!Scan

\* What the Bitcoin listener lists for recovery was not counted towards a payment
\* that was confirmed, for any faults, depth and width of the scan.
THEOREM ListedIsNotPaid ==
  ASSUME H!ScanAssumption
  PROVE  H!Spec => []ListedIsStray
<1>1. ScanInv => ListedIsStray
  BY DEF ScanInv, FiledIsOver, ListedIsStray
<1> QED  BY <1>1, InitScan, NextScan, PTL DEF H!Spec
-----------------------------------------------------------------------------
(* The listeners of Tron and of Bitcoin implement PaymentPromise too.          *)

LEMMA ScanTotal ==
  ASSUME H!ScanAssumption, NEW S \in SUBSET Transfers, NEW R \in SUBSET S
  PROVE  H!Total(R) \in Nat /\ H!Total(S) \in Nat /\ H!Total(R) <= H!Total(S)
<1>1. \A T : H!Total(T) = SumOf(Amount, T)
  BY DEF H!Total, SumOf, H!MapThenSumSet, MapThenSumSet, H!MapThenFoldSet, MapThenFoldSet
<1>2. IsFiniteSet(S) /\ IsFiniteSet(R)
  <2>1. \A T : H!IsFiniteSet(T) => IsFiniteSet(T)
    BY DEF H!IsFiniteSet, IsFiniteSet
  <2>2. IsFiniteSet(Transfers)
    BY <2>1 DEF H!ScanAssumption
  <2> QED  BY <2>2, FS_Subset
<1>3. \A t \in S : Amount[t] \in Nat
  BY DEF H!ScanAssumption
<1> QED  BY <1>1, <1>2, <1>3, SumType, SumSubset

\* What covers a payment still does when there is more of it.
LEMMA EnoughGrows ==
  ASSUME H!ScanAssumption, NEW x \in Payments, NEW S \in SUBSET Transfers, NEW R \in SUBSET S,
         H!Enough(R, x)
  PROVE  H!Enough(S, x)
<1>1. Due[x] \in Nat
  BY DEF H!ScanAssumption
<1> QED  BY <1>1, ScanTotal DEF H!Enough

\* The rows are of money of their payment's address.
RowsAreMoney ==
  \A k \in H!Keys : row[k] # H!NoRow => \E x \in Payments : row[k].t \in H!Held(x)

\* So is what a scan is recording.
HandIsMoney ==
  \A x \in Payments : pc[x] \in {"insert", "total"} => cur[x] \in H!Held(x)

\* A payment found paid is covered: a total that was enough does not shrink.
FoundIsCovered == \A i \in ready : i.paid => H!Covered(i.x)

MoneyInv == RowsAreMoney /\ HandIsMoney /\ FoundIsCovered

LEMMA InitMoney == H!ScanAssumption /\ H!Init => MoneyInv
BY DEF H!ScanAssumption, H!Init, MoneyInv, RowsAreMoney, HandIsMoney, FoundIsCovered, H!Keys

LEMMA RecordedIsHeld ==
  ASSUME H!ScanAssumption, RowsAreMoney, NEW x \in Payments
  PROVE  H!Recorded(x) \subseteq H!Held(x)
BY DEF RowsAreMoney, H!Recorded, H!Keys, H!Held, H!Incoming

\* No reorganisation is modelled here: what is held stays.
LEMMA HeldGrows ==
  ASSUME ScanInv, [H!Next]_H!vars, NEW x
  PROVE  H!Held(x) \subseteq H!Held(x)'
<1>1. UNCHANGED <<head, at>> \/ H!Mine
  BY DEF H!Next, H!vars, H!chainVars, H!Refresh, H!BeginPass, H!TakeNext, H!Deadline, H!Tick,
         H!SelectReady, H!Settle, H!ConfirmRows, H!AbortTick, H!Crash, H!Create, H!Expire,
         H!Scan, H!Fetch, H!Record, H!Insert, H!Count, H!EndScan, H!AbortScan
<1>2. CASE UNCHANGED <<head, at>>
  BY <1>2 DEF H!Held, H!Incoming
<1>3. CASE H!Mine
  BY <1>3 DEF H!Mine, H!Held, H!Incoming, ScanInv, HistoryTyped, H!Heights
<1> QED  BY <1>1, <1>2, <1>3

\* A row that was not there is of what a scan had in hand.
LEMMA ScanRowStep ==
  ASSUME H!ScanAssumption, ScanInv, [H!Next]_H!vars, NEW k \in H!Keys, row'[k] # H!NoRow
  PROVE  \/ row[k] # H!NoRow /\ row'[k].t = row[k].t
         \/ \E x \in Payments : pc[x] = "insert" /\ row'[k].t = cur[x]
<1>1. \/ row' = row \/ H!ConfirmRows \/ \E x \in Payments : H!Insert(x)
  BY DEF H!Next, H!vars, H!dbVars, H!Mine, H!Refresh, H!BeginPass, H!TakeNext, H!Deadline, H!Tick,
         H!SelectReady, H!Settle, H!AbortTick, H!Crash, H!Create, H!Expire,
         H!Scan, H!Fetch, H!Record, H!Count, H!EndScan, H!AbortScan
<1>2. CASE H!ConfirmRows
  <2>1. row'[k] = row[k] \/ (row[k] # H!NoRow /\ row'[k] = [row[k] EXCEPT !.status = "confirmed"])
    BY <1>2 DEF H!ConfirmRows, H!Pending, H!Recorded
  <2>2. row[k] \in {H!NoRow} \cup ScanRows
    BY DEF ScanInv, HistoryTyped
  <2> QED  BY <2>1, <2>2 DEF ScanRows
<1>3. ASSUME NEW x \in Payments, H!Insert(x)
      PROVE  \/ row[k] # H!NoRow /\ row'[k].t = row[k].t
             \/ pc[x] = "insert" /\ row'[k].t = cur[x]
  <2>1. row'[k] = row[k] \/ k = Key[cur[x]]
    BY <1>3 DEF H!Insert, ScanInv, HistoryTyped
  <2>2. row[k] \in {H!NoRow} \cup ScanRows
    BY DEF ScanInv, HistoryTyped
  <2>3. CASE k = Key[cur[x]] /\ row[k] = H!NoRow
    BY <1>3, <2>3 DEF H!Insert, ScanInv, HistoryTyped
  <2>4. CASE k = Key[cur[x]] /\ row[k] # H!NoRow
    <3>1. row'[k] = [row[k] EXCEPT !.block = at[cur[x]]]
      BY <1>3, <2>4 DEF H!Insert, ScanInv, HistoryTyped
    <3> QED  BY <2>2, <2>4, <3>1 DEF ScanRows
  <2> QED  BY <2>1, <2>3, <2>4
<1> QED  BY <1>1, <1>2, <1>3

\* What a scan comes to hold it takes from its feed, and a live payment awaits it.
LEMMA HandStep ==
  ASSUME ScanInv, [H!Next]_H!vars, NEW x \in Payments, pc'[x] \in {"insert", "total"}
  PROVE  \/ pc[x] \in {"insert", "total"} /\ cur'[x] = cur[x]
         \/ cur'[x] \in todo[x] /\ H!Creditable(cur'[x])
<1>0. /\ pc \in [Payments -> {"idle", "fetch", "record", "insert", "total"}]
      /\ cur \in [Payments -> Transfers \cup {H!NoCur}]
  BY DEF ScanInv, HistoryTyped
<1>1. CASE \/ UNCHANGED H!vars \/ H!Mine \/ H!Refresh \/ H!Deadline \/ H!Tick \/ H!AbortTick
           \/ \E y \in Payments : H!Create(y) \/ H!Expire(y)
  BY <1>1 DEF H!vars, H!scanVars, H!Mine, H!Refresh, H!Deadline, H!Tick, H!SelectReady, H!Settle,
              H!ConfirmRows, H!AbortTick, H!Create, H!Expire
<1>2. CASE H!BeginPass \/ H!TakeNext
  <2>1. cur' = cur /\ \E S : H!Take(S)
    BY <1>2, Zenon DEF H!BeginPass, H!TakeNext
  <2> QED  BY <2>1 DEF H!Take
<1>3. CASE H!Crash
  BY <1>3 DEF H!Crash
<1>4. ASSUME NEW y \in Payments, H!Fetch(y) \/ H!Insert(y) \/ H!EndScan(y)
      PROVE  pc[x] \in {"insert", "total"} /\ cur'[x] = cur[x]
  BY <1>0, <1>4 DEF H!Fetch, H!Insert, H!EndScan
<1>5. ASSUME NEW y \in Payments, H!Count(y) \/ H!AbortScan(y)
      PROVE  pc[x] \in {"insert", "total"} /\ cur'[x] = cur[x]
  BY <1>0, <1>5 DEF H!Count, H!Done, H!AbortScan
<1>6. ASSUME NEW y \in Payments, H!Record(y)
      PROVE  \/ pc[x] \in {"insert", "total"} /\ cur'[x] = cur[x]
             \/ cur'[x] \in todo[x] /\ H!Creditable(cur'[x])
  BY <1>0, <1>6 DEF H!Record, H!Done
<1> QED  BY <1>1, <1>2, <1>3, <1>4, <1>5, <1>6 DEF H!Next, H!Scan

\* A total is written of a live payment, and is the total of its rows.
LEMMA CountedMoves ==
  ASSUME ScanInv, [H!Next]_H!vars, NEW x \in Payments
  PROVE  \/ counted'[x] = counted[x]
         \/ /\ status[x] \in H!Live /\ status'[x] \in H!Live
            /\ counted'[x] = H!Recorded(x) /\ at' = at
<1>1. \/ counted' = counted \/ \E y \in Payments : H!Count(y)
  BY DEF H!Next, H!vars, H!dbVars, H!Mine, H!Refresh, H!BeginPass, H!TakeNext, H!Deadline, H!Tick,
         H!SelectReady, H!Settle, H!ConfirmRows, H!AbortTick, H!Crash, H!Create, H!Expire,
         H!Scan, H!Fetch, H!Record, H!Insert, H!EndScan, H!AbortScan
<1>2. ASSUME NEW y \in Payments, H!Count(y)
      PROVE  \/ counted'[x] = counted[x]
             \/ /\ status[x] \in H!Live /\ status'[x] \in H!Live
                /\ counted'[x] = H!Recorded(x) /\ at' = at
  BY <1>2 DEF H!Count, H!Live, H!chainVars, ScanInv, HistoryTyped
<1> QED  BY <1>1, <1>2

\* So a covered payment stays covered.
LEMMA CoveredStays ==
  ASSUME H!ScanAssumption, ScanInv, [H!Next]_H!vars, NEW x \in Payments, H!Covered(x)
  PROVE  H!Covered(x)'
<1>1. CASE counted'[x] = counted[x]
  BY <1>1 DEF H!Covered, H!Enough
<1>2. CASE counted'[x] = H!Recorded(x)
  <2>1. counted[x] \subseteq H!Recorded(x) /\ H!Recorded(x) \in SUBSET Transfers
    BY DEF ScanInv, CountedIsRecorded, H!Recorded
  <2>2. H!Enough(H!Recorded(x), x)
    BY <2>1, EnoughGrows DEF H!Covered
  <2> QED  BY <1>2, <2>2 DEF H!Covered, H!Enough
<1> QED  BY <1>1, <1>2, CountedMoves

LEMMA MoneyStep ==
  ASSUME H!ScanAssumption, ScanInv, ScanInv', MoneyInv, [H!Next]_H!vars
  PROVE  MoneyInv'
<1>1. RowsAreMoney'
  <2> SUFFICES ASSUME NEW k \in H!Keys, row'[k] # H!NoRow
               PROVE  \E x \in Payments : row'[k].t \in H!Held(x)'
    BY DEF RowsAreMoney, H!Keys, H!NoRow
  <2>1. \E x \in Payments : row'[k].t \in H!Held(x)
    BY ScanRowStep DEF MoneyInv, RowsAreMoney, HandIsMoney
  <2> QED  BY <2>1, HeldGrows
<1>2. HandIsMoney'
  <2> SUFFICES ASSUME NEW x \in Payments, pc'[x] \in {"insert", "total"}
               PROVE  cur'[x] \in H!Held(x)'
    BY DEF HandIsMoney
  <2>1. CASE pc[x] \in {"insert", "total"} /\ cur'[x] = cur[x]
    BY <2>1, HeldGrows DEF MoneyInv, HandIsMoney
  <2>2. CASE cur'[x] \in todo[x] /\ H!Creditable(cur'[x])
    <3>1. cur'[x] \in Mined /\ To[cur'[x]] = x
      BY <2>2 DEF ScanInv, ScanInHand
    <3>2. cur'[x] \in H!Held(x)
      BY <2>2, <3>1 DEF H!Creditable, H!Held, Mined
    <3> QED  BY <3>2, HeldGrows
  <2> QED  BY <2>1, <2>2, HandStep
<1>3. FoundIsCovered'
  <2> SUFFICES ASSUME NEW i \in ready', i.paid  PROVE H!Covered(i.x)'
    BY DEF FoundIsCovered
  <2>0. i.x \in Payments
    BY DEF ScanInv, HistoryTyped
  <2>1. i \in ready \/ H!Covered(i.x)
    <3>1. ready' \subseteq ready \/ H!SelectReady
      BY DEF H!Next, H!vars, H!tickVars, H!Mine, H!Refresh, H!BeginPass, H!TakeNext, H!Deadline,
             H!Tick, H!Settle, H!ConfirmRows, H!AbortTick, H!Crash, H!Create,
             H!Expire, H!Scan, H!Fetch, H!Record, H!Insert, H!Count, H!EndScan, H!AbortScan
    <3>2. CASE H!SelectReady
      <4>1. PICK x \in Payments : i = [x |-> x, paid |-> H!Covered(x)]
        BY <3>2 DEF H!SelectReady
      <4>2. i.x = x /\ i.paid = H!Covered(x)
        BY <4>1
      <4> QED  BY <4>2
    <3> QED  BY <3>1, <3>2
  <2>2. H!Covered(i.x)
    BY <2>1 DEF MoneyInv, FoundIsCovered
  <2> QED  BY <2>0, <2>2, CoveredStays
<1> QED  BY <1>1, <1>2, <1>3 DEF MoneyInv

\* A payment is created, expires, is advanced, held as partial or promoted.
LEMMA ScanStatusStep ==
  ASSUME ScanInv, [H!Next]_H!vars, NEW x \in Payments, status'[x] # status[x]
  PROVE  /\ at' = at
         /\ \/ status[x] = "none" /\ status'[x] = "waiting" /\ counted' = counted
            \/ status[x] = "waiting" /\ status'[x] = "expired" /\ counted' = counted
            \/ status[x] \in H!Live /\ status'[x] \in H!Live
            \/ /\ status[x] \in H!Live /\ status'[x] = "confirmed" /\ counted' = counted
               /\ \E i \in ready : i.x = x /\ i.paid
<1>0. status \in [Payments -> H!Statuses]
  BY DEF ScanInv, HistoryTyped
<1>1. CASE \E y \in Payments : H!Create(y) \/ H!Expire(y)
  BY <1>0, <1>1 DEF H!Create, H!Expire, H!chainVars
<1>2. ASSUME NEW y \in Payments, H!Count(y)
      PROVE  at' = at /\ status[x] \in H!Live /\ status'[x] \in H!Live
  BY <1>0, <1>2 DEF H!Count, H!chainVars, H!Live
<1>3. CASE H!Settle
  BY <1>0, <1>3 DEF H!Settle, H!chainVars, H!Live
<1>4. CASE status' = status
  BY <1>4
<1>5. \/ status' = status \/ H!Settle
      \/ \E y \in Payments : H!Create(y) \/ H!Expire(y) \/ H!Count(y)
  BY DEF H!Next, H!vars, H!dbVars, H!Mine, H!Refresh, H!BeginPass, H!TakeNext, H!Deadline, H!Tick,
         H!SelectReady, H!ConfirmRows, H!AbortTick, H!Crash,
         H!Scan, H!Fetch, H!Record, H!Insert, H!EndScan, H!AbortScan
<1> QED  BY <1>1, <1>2, <1>3, <1>4, <1>5

\* While the chain stands, what is held does.
LEMMA HeldStands ==
  ASSUME at' = at, NEW x
  PROVE  H!Enough(H!Held(x), x)' = H!Enough(H!Held(x), x)
BY DEF H!Enough, H!Held, H!Incoming

LEMMA ScanPromiseStands ==
  ASSUME H!ScanAssumption, ScanInv, [H!Next]_H!vars, NEW x \in Payments, status'[x] = status[x]
  PROVE  H!Promise(x)!Fund \/ H!Promise(x)!Credit
<1>1. CASE counted'[x] = counted[x]
  <2>1. H!Covered(x)' = H!Covered(x)
    BY <1>1 DEF H!Covered, H!Enough
  <2>2. H!Held(x) \in SUBSET Transfers /\ H!Held(x)' \in SUBSET Transfers
    BY DEF H!Held, H!Incoming
  <2>3. H!Enough(H!Held(x), x) => H!Enough(H!Held(x)', x)
    BY <2>2, HeldGrows, EnoughGrows
  <2>4. H!Enough(H!Held(x), x)' = H!Enough(H!Held(x)', x)
    BY DEF H!Enough
  <2> QED  BY <1>1, <2>1, <2>3, <2>4 DEF H!Promise!Fund
<1>2. CASE status[x] \in H!Live /\ at' = at
  <2>1. H!Covered(x)' \in BOOLEAN
    BY DEF H!Covered, H!Enough
  <2> QED  BY <1>2, <2>1, HeldStands DEF H!Promise!Credit, H!Place
<1> QED  BY <1>1, <1>2, CountedMoves

LEMMA ScanPromiseMoves ==
  ASSUME H!ScanAssumption, ScanInv, MoneyInv, [H!Next]_H!vars, NEW x \in Payments,
         status'[x] # status[x]
  PROVE  H!Promise(x)!Next
<1>1. H!Enough(H!Held(x), x)' = H!Enough(H!Held(x), x)
  BY ScanStatusStep, HeldStands
<1>2. H!Covered(x)' \in BOOLEAN /\ (counted' = counted => H!Covered(x)' = H!Covered(x))
  BY DEF H!Covered, H!Enough
<1>3. CASE status[x] = "none" /\ status'[x] = "waiting" /\ counted' = counted
  BY <1>1, <1>2, <1>3 DEF H!Promise!Next, H!Promise!Create, H!Promise!Move, H!Place, H!Live
<1>4. CASE status[x] = "waiting" /\ status'[x] = "expired" /\ counted' = counted
  BY <1>1, <1>2, <1>4 DEF H!Promise!Next, H!Promise!Expire, H!Promise!Move, H!Place, H!Live
<1>5. CASE status[x] \in H!Live /\ status'[x] \in H!Live
  BY <1>1, <1>2, <1>5 DEF H!Promise!Next, H!Promise!Credit, H!Place
<1>6. CASE /\ status[x] \in H!Live /\ status'[x] = "confirmed" /\ counted' = counted
           /\ \E i \in ready : i.x = x /\ i.paid
  <2>1. H!Covered(x)
    BY <1>6 DEF MoneyInv, FoundIsCovered
  <2>2. counted[x] \subseteq H!Held(x) /\ H!Held(x) \in SUBSET Transfers
    BY RecordedIsHeld DEF ScanInv, CountedIsRecorded, MoneyInv, H!Held, H!Incoming
  <2>3. H!Enough(H!Held(x), x)
    BY <2>1, <2>2, EnoughGrows DEF H!Covered
  <2> QED
    BY <1>1, <1>2, <1>6, <2>1, <2>3
    DEF H!Promise!Next, H!Promise!Pay, H!Promise!Move, H!Place, H!Live
<1> QED  BY <1>3, <1>4, <1>5, <1>6, ScanStatusStep

\* The scans, the promotion tick and the expiry tick keep the same promise, for any
\* depth, width and faults: what is promoted on a total that a tick read earlier is
\* covered by money in the asset the payment awaits, and its total is not written
\* again.
THEOREM ScanKeepsPromise ==
  ASSUME H!ScanAssumption
  PROVE  H!Spec => H!KeepsPromise
<1>1. ScanInv /\ [H!Next]_H!vars => ScanInv'
  BY NextScan
<1>2. ScanInv /\ ScanInv' /\ MoneyInv /\ [H!Next]_H!vars => MoneyInv'
  BY MoneyStep
<1>3. H!Init => \A x \in Payments : H!Promise(x)!Init
  BY DEF H!Init, H!Promise!Init, H!Place, H!Live, H!Covered, H!Enough
<1>4. ScanInv /\ MoneyInv /\ [H!Next]_H!vars =>
        [\A x \in Payments : [H!Promise(x)!Next]_(H!Promise(x)!vars)]_H!vars
  <2> SUFFICES ASSUME ScanInv, MoneyInv, [H!Next]_H!vars, NEW x \in Payments
               PROVE  H!Promise(x)!Next
    OBVIOUS
  <2>1. CASE status'[x] = status[x]
    BY <2>1, ScanPromiseStands DEF H!Promise!Next
  <2>2. CASE status'[x] # status[x]
    BY <2>2, ScanPromiseMoves
  <2> QED  BY <2>1, <2>2
<1> QED
  BY <1>1, <1>2, <1>3, <1>4, InitScan, InitMoney, PTL DEF H!Spec, H!KeepsPromise
=============================================================================
