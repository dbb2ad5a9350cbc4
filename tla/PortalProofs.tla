---------------------------- MODULE PortalProofs ----------------------------
(* TLAPS proofs about Portal, for any number of requests, calls, rows,       *)
(* recoveries, logins and tabs, and any faults.                              *)
EXTENDS Portal, FiniteSetTheorems, TLAPS

-----------------------------------------------------------------------------
(* The inductive invariants.                                                 *)

\* Requests that may yet add a payment or payout, or free the key: a handler
\* before its commit, one whose answer will send DEL, a DEL that is on its way.
Pending ==
  {r \in Requests :
     \/ request[r].at = "running"
     \/ request[r].at = "ran" /\ request[r].owns /\ request[r].reply = {}
     \/ command[r] = "DEL"}

\* What the key lets through, each counted once: what was made, what is pending,
\* and the next request if the key is free.
Spent  == cause["lapse"] + cause["redis"] + cause["enqueue"] + cause["vanished"]
Vacant == IF record.state = "free" THEN 1 ELSE 0
Budget == Cardinality(made) + Cardinality(Pending) + Vacant <= 1 + Spent

\* Commands come after answers.
AfterAnswer == \A r \in Requests : command[r] # "none" => request[r].at = "done"

\* A stored reply is the reply to the stored call.
RecordIsTrue == \A m \in record.reply : m.call = record.call

CallsInv == IsFiniteSet(made) /\ Budget /\ AfterAnswer /\ RecordIsTrue /\ ReplyIsMine /\ OnePerOrder

\* While nothing was found unmoved, a recovery has its row to itself.
RowIsClaimed ==
  \A k \in Clicks : click[k].at \in Underway => status[click[k].row] \in {"sweeping", "swept"}

RecoveryInv == trouble["unmoved"] = 0 => RowIsClaimed /\ OneRecovery

\* Approval a was answered with yes, and no tab can claim it any more.
Used(a) ==
  answer[a] = "approved" /\ login[a] = "open" /\ approval[a].status \in {"consumed", "none"}

Holding(t) == tab[t].at \in {"claimed", "issuing"}

SignInInv ==
  /\ \A a \in Logins : approval[a].status = "approved" => answer[a] = "approved"
  /\ \A t \in Tabs : tab[t].at = "collecting" => login[tab[t].login] = "open"
  /\ \A t \in Tabs : Holding(t) => Used(tab[t].login)
  /\ \A t, u \in Tabs : Holding(t) /\ Holding(u) /\ tab[t].login = tab[u].login => t = u
  /\ \A s \in sessions : Used(s.login) /\ \A t \in Tabs : Holding(t) => tab[t].login # s.login
  /\ OneSessionPerApproval

PortalInv == CallsInv /\ RecoveryInv /\ SignInInv

-----------------------------------------------------------------------------
(* Type correctness.                                                         *)

\* The initial states have the types.
LEMMA InitType == Init => TypeOK
<1> SUFFICES ASSUME Init  PROVE TypeOK
  OBVIOUS
<1> USE RequestsAssumption, RecoveryAssumption
<1>1. RequestsTypeOK
  BY DEF Init, RequestsInit, RequestsTypeOK, Free, Things, Marks, Places
<1>2. RecoveryTypeOK
  BY DEF Init, RecoveryInit, RecoveryTypeOK, Underway
<1>3. SignInTypeOK
  BY DEF Init, SignInInit, SignInTypeOK
<1> QED  BY <1>1, <1>2, <1>3 DEF Init, TypeOK

\* A fault is counted and changes no other count.
LEMMA SufferCounts ==
  ASSUME RequestsTypeOK, NEW c \in Causes, Suffer(c)
  PROVE  /\ cause' \in [Causes -> Nat]
         /\ cause'[c] = cause[c] + 1
         /\ \A d \in Causes : cause'[d] >= cause[d]
BY DEF RequestsTypeOK, Suffer

\* What the steps do with a request keeps its type.
LEMMA MarkTypes ==
  ASSUME NEW x \in Marks, NEW p \in Places, NEW S \in SUBSET Things
  PROVE  /\ [x EXCEPT !.at = p] \in Marks
         /\ [x EXCEPT !.at = p, !.reply = S] \in Marks
         /\ [x EXCEPT !.at = p, !.owns = TRUE] \in Marks
BY DEF Marks

\* The steps of a request keep the types.
LEMMA RequestType ==
  ASSUME RequestsTypeOK, NEW r \in Requests,
         \/ Reserve(r) \/ ReserveFails(r) \/ Look(r) \/ LookFails(r)
         \/ Create(r) \/ CreateUnqueued(r) \/ Refuse(r)
         \/ Answer(r) \/ Land(r) \/ LandFails(r) \/ Crash(r)
  PROVE  RequestsTypeOK'
<1>a. request \in [Requests -> Marks] /\ request[r] \in Marks
  BY DEF RequestsTypeOK
<1>b. Thing(r) \in Things /\ {Thing(r)} \in SUBSET Things /\ asked[r] \in Calls
  BY DEF Thing, Things, RequestsTypeOK
<1>c. "redis" \in Causes /\ "enqueue" \in Causes /\ "crash" \in Causes /\ "vanished" \in Causes
  BY DEF Causes, Faults
<1>d. \A c \in Causes : Suffer(c) => cause' \in [Causes -> Nat]
  BY SufferCounts
<1>e. \A p \in Places : To(r, p) => request' \in [Requests -> Marks]
  BY <1>a, MarkTypes DEF To
<1>f. /\ "taken" \in Places /\ "running" \in Places /\ "ran" \in Places
      /\ "done" \in Places /\ "dead" \in Places
  BY DEF Places
<1>g. Own(r) => request' \in [Requests -> Marks]
  BY <1>a, <1>f, MarkTypes DEF Own
<1>h. record.reply \in SUBSET Things /\ request[r].reply \in SUBSET Things
  BY <1>a DEF RequestsTypeOK, Marks
<1> USE DEF RequestsTypeOK
<1>1. CASE Reserve(r)
  BY <1>b, <1>1, <1>e, <1>f, <1>g DEF Reserve, InFlight
<1>2. CASE ReserveFails(r)
  BY <1>b, <1>2, <1>c, <1>d, <1>e, <1>f DEF ReserveFails, InFlight
<1>3. CASE Look(r)
  <2>1. request' \in [Requests -> Marks]
    <3>1. CASE To(r, "running")
      BY <3>1, <1>e, <1>f
    <3>2. CASE ~To(r, "running")
      <4> DEFINE seen == IF record.call = asked[r] THEN record.reply ELSE {}
      <4>1. seen \in SUBSET Things
        BY <1>h
      <4>2. request' = [request EXCEPT ![r] = [@ EXCEPT !.at = "done", !.reply = seen]]
        BY <1>3, <3>2 DEF Look
      <4> HIDE DEF seen
      <4>3. [request[r] EXCEPT !.at = "done", !.reply = seen] \in Marks
        BY <4>1, <1>a, <1>f, MarkTypes
      <4> QED  BY <1>a, <4>2, <4>3
    <3> QED  BY <3>1, <3>2
  <2> QED  BY <1>3, <1>c, <2>1 DEF Look
<1>4. CASE LookFails(r)
  BY <1>4, <1>c, <1>d, <1>e, <1>f DEF LookFails
<1>5. CASE Create(r)
  <2>1. request' \in [Requests -> Marks]
    BY <1>5, <1>a, <1>b, <1>f, MarkTypes DEF Create
  <2>2. made' \subseteq Things /\ reserved' \in Nat
    BY <1>5, <1>b DEF Create, Commit
  <2> QED  BY <1>5, <2>1, <2>2 DEF Create
<1>6. CASE CreateUnqueued(r)
  BY <1>b, <1>6, <1>c, <1>d, <1>e, <1>f DEF CreateUnqueued, Commit
<1>7. CASE Refuse(r)
  BY <1>7, <1>e, <1>f DEF Refuse
<1>8. CASE Answer(r)
  BY <1>8, <1>e, <1>f DEF Answer
<1>9. CASE Land(r)
  BY <1>b, <1>h, <1>9 DEF Land, Complete, Free
<1>10. CASE LandFails(r)
  BY <1>10, <1>c, <1>d DEF LandFails
<1>11. CASE Crash(r)
  BY <1>11, <1>c, <1>d, <1>e, <1>f DEF Crash
<1> QED
  BY <1>1, <1>2, <1>3, <1>4, <1>5, <1>6, <1>7, <1>8, <1>9, <1>10, <1>11

\* So do all steps of module Requests.
LEMMA RequestsType == ASSUME RequestsTypeOK, RequestsNext  PROVE RequestsTypeOK'
<1>1. CASE Lapse
  <2>1. cause' \in [Causes -> Nat]
    BY <1>1, SufferCounts DEF Lapse, Causes, Faults
  <2> QED  BY <1>1, <2>1 DEF Lapse, Free, RequestsTypeOK
<1> QED  BY <1>1, RequestType DEF RequestsNext

\* A trouble is counted and changes no other count.
LEMMA TroubleCounts ==
  ASSUME trouble \in [Strikes -> Nat], NEW t \in Strikes, Trouble(t)
  PROVE  /\ trouble' \in [Strikes -> Nat]
         /\ trouble'["unmoved"] >= trouble["unmoved"]
BY DEF Trouble, Strikes

\* The steps of a recovery keep the types, those of the balance too.
LEMMA ClickType ==
  ASSUME RecoveryTypeOK, reserved \in Nat, NEW k \in Clicks,
         \/ \E d \in Rows : Claim(k, d)
         \/ Recover(k) \/ SweepThrows(k) \/ StatementFails(k) \/ MarkFails(k) \/ Dies(k)
  PROVE  RecoveryTypeOK' /\ reserved' \in Nat
<1> DEFINE at == Underway \cup {"new", "ended", "done", "dead"}
           clicks == [at : at, row : Rows \cup {None}, amount : Nat]
           d == click[k].row
<1>a. click \in [Clicks -> clicks] /\ click[k] \in clicks
  BY DEF RecoveryTypeOK
<1>b. /\ click[k].at \in Underway => d \in Rows
      /\ d \in Rows => moved[d] \in Nat /\ came[d] \in Nat /\ Held(d) \in Nat
      /\ click[k].amount \in Nat
  BY <1>a DEF RecoveryTypeOK, Held
<1>c. \A p \in at : Step(k, p) /\ (p \in Underway => d \in Rows) =>
        /\ click' \in [Clicks -> clicks]
        /\ \A j \in Clicks : click'[j].at \in Underway => click'[j].row \in Rows
  BY <1>a DEF Step, RecoveryTypeOK
<1>d. \A t \in Strikes : Trouble(t) => trouble' \in [Strikes -> Nat]
  BY TroubleCounts DEF RecoveryTypeOK
<1>e. {"statement", "mark", "wait", "crash", "unmoved"} \subseteq Strikes
  BY DEF Strikes, Troubles
<1>f. {"indexless", "sweep", "moved", "booking", "settling", "caught"} = Underway
  BY DEF Underway
<1> USE DEF RecoveryTypeOK, Aside, requestVars, Mark
<1>1. CASE \E x \in Rows : Claim(k, x)
  <2> PICK x \in Rows : Claim(k, x)
    BY <1>1
  <2>1. /\ click' \in [Clicks -> clicks]
        /\ \A j \in Clicks : click'[j].at \in Underway => click'[j].row \in Rows
    BY <1>a, <1>f DEF Claim
  <2> QED  BY <2>1 DEF Claim
<1>2. CASE RefuseIndexless(k)
  BY <1>2, <1>b, <1>c, <1>f DEF RefuseIndexless
<1>3. CASE Sweep(k)
  <2>1. /\ click' \in [Clicks -> clicks]
        /\ \A j \in Clicks : click'[j].at \in Underway => click'[j].row \in Rows
    BY <1>3, <1>a, <1>b, <1>f DEF Sweep
  <2> QED  BY <1>3, <1>b, <1>f, <2>1 DEF Sweep
<1>4. CASE SweepNothing(k)
  BY <1>4, <1>b, <1>c, <1>e, <1>f DEF SweepNothing
<1>5. CASE SweepThrows(k)
  <2>1. trouble' \in [Strikes -> Nat]
    BY <1>5, <1>d, <1>e DEF SweepThrows
  <2>2. /\ click' \in [Clicks -> clicks]
        /\ \A j \in Clicks : click'[j].at \in Underway => click'[j].row \in Rows
    BY <1>5, <1>b, <1>c, <1>f DEF SweepThrows
  <2> QED  BY <1>5, <1>b, <2>1, <2>2 DEF SweepThrows
<1>6. CASE MarkSwept(k)
  BY <1>6, <1>b, <1>c, <1>f DEF MarkSwept
<1>7. CASE BookTransfer(k)
  BY <1>7, <1>b, <1>c, <1>f DEF BookTransfer
<1>8. CASE SettleLate(k)
  BY <1>8, <1>b, <1>c, <1>f DEF SettleLate
<1>9. CASE Caught(k)
  BY <1>9, <1>b, <1>c, <1>f DEF Caught
<1>10. CASE StatementFails(k)
  BY <1>10, <1>b, <1>c, <1>d, <1>e, <1>f DEF StatementFails
<1>11. CASE MarkFails(k)
  BY <1>11, <1>b, <1>c, <1>d, <1>e, <1>f DEF MarkFails
<1>12. CASE Dies(k)
  BY <1>12, <1>b, <1>c, <1>d, <1>e, <1>f DEF Dies
<1> QED
  BY <1>1, <1>2, <1>3, <1>4, <1>5, <1>6, <1>7, <1>8, <1>9, <1>10, <1>11, <1>12 DEF Recover

\* So do all steps of module Recovery.
LEMMA RecoveryType ==
  ASSUME RecoveryTypeOK, reserved \in Nat, RecoveryNext
  PROVE  RecoveryTypeOK' /\ reserved' \in Nat
<1>1. ASSUME NEW d \in Rows, Arrive(d)  PROVE RecoveryTypeOK' /\ reserved' \in Nat
  BY <1>1 DEF Arrive, RecoveryTypeOK, requestVars
<1>2. ASSUME NEW d \in Rows, RecordDeposit(d)  PROVE RecoveryTypeOK' /\ reserved' \in Nat
  BY <1>2 DEF RecordDeposit, Mark, Aside, RecoveryTypeOK, requestVars
<1> QED  BY <1>1, <1>2, ClickType DEF RecoveryNext

\* Of the requests' variables a recovery changes the reserved balance alone.
LEMMA OnlyReserved ==
  RecoveryNext => UNCHANGED <<asked, record, request, command, made, cause>>
<1> USE DEF Aside, requestVars
<1>1. ASSUME NEW k \in Clicks, NEW d \in Rows, Claim(k, d)
      PROVE  UNCHANGED <<asked, record, request, command, made, cause>>
  BY <1>1 DEF Claim
<1>2. ASSUME NEW k \in Clicks,
             Recover(k) \/ SweepThrows(k) \/ StatementFails(k) \/ MarkFails(k) \/ Dies(k)
      PROVE  UNCHANGED <<asked, record, request, command, made, cause>>
  BY <1>2 DEF Recover, RefuseIndexless, Sweep, SweepNothing, MarkSwept, BookTransfer,
              SettleLate, Caught, SweepThrows, StatementFails, MarkFails, Dies
<1> QED  BY <1>1, <1>2 DEF RecoveryNext, Arrive, RecordDeposit

\* The steps of a sign-in keep the types.
LEMMA SignInType == ASSUME SignInTypeOK, SignInNext  PROVE SignInTypeOK'
<1> DEFINE statuses == {"none", "pending", "approved", "rejected", "consumed"}
           approvals == [Logins -> [status : statuses, expired : BOOLEAN]]
           ats == {"idle", "collecting", "claimed", "issuing", "over"}
           tabs == [Tabs -> [at : ats, login : Logins \cup {NoLogin}]]
<1>a. \A a \in Logins, s \in statuses : [approval EXCEPT ![a].status = s] \in approvals
  BY DEF SignInTypeOK
<1>b. \A a \in Logins : [approval EXCEPT ![a].expired = TRUE] \in approvals
  BY DEF SignInTypeOK
<1>c. ASSUME NEW t \in Tabs, tab[t].at # "idle", NEW p \in ats,
             tab' = [tab EXCEPT ![t].at = p]
      PROVE  tab' \in tabs /\ \A u \in Tabs : tab'[u].at # "idle" => tab'[u].login \in Logins
  BY <1>c DEF SignInTypeOK
<1>1. CASE Suspend
  BY <1>1 DEF Suspend, SignInTypeOK
<1>2. ASSUME NEW a \in Logins,
             \/ Supersede(a) \/ OpenRequest(a) \/ MailFails(a) \/ Age(a) \/ Reap(a)
             \/ \E decision \in {"approved", "rejected"} : Decide(a, decision)
      PROVE  SignInTypeOK'
  <2>1. CASE Supersede(a)
    BY <2>1 DEF Supersede, SignInTypeOK
  <2>2. CASE OpenRequest(a) \/ MailFails(a)
    <3>1. approval' = [approval EXCEPT ![a].status = "pending"]
      BY <2>2 DEF OpenRequest, MailFails
    <3>2. approval' \in approvals
      BY <3>1, <1>a
    <3> QED  BY <2>2, <3>2 DEF OpenRequest, MailFails, SignInTypeOK
  <2>3. CASE Age(a)
    BY <2>3, <1>b DEF Age, SignInTypeOK
  <2>4. CASE Reap(a)
    BY <2>4, <1>a DEF Reap, SignInTypeOK
  <2>5. ASSUME NEW decision \in {"approved", "rejected"}, Decide(a, decision)
        PROVE  SignInTypeOK'
    BY <2>5, <1>a DEF Decide, SignInTypeOK
  <2> QED  BY <1>2, <2>1, <2>2, <2>3, <2>4, <2>5
<1>3. ASSUME NEW t \in Tabs, NEW a \in Logins, Poll(t, a)  PROVE SignInTypeOK'
  BY <1>3 DEF Poll, SignInTypeOK
<1>4. ASSUME NEW t \in Tabs, Collect(t)  PROVE SignInTypeOK'
  <2>1. tab[t].login \in Logins
    BY <1>4 DEF Collect, SignInTypeOK
  <2>2. tab' \in tabs /\ \A u \in Tabs : tab'[u].at # "idle" => tab'[u].login \in Logins
    BY <1>4, <1>c DEF Collect
  <2>3. approval' \in approvals
    <3>1. [approval EXCEPT ![tab[t].login].status = "consumed"] \in approvals
      BY <1>a, <2>1
    <3> QED  BY <1>4, <3>1 DEF Collect, SignInTypeOK
  <2> QED  BY <1>4, <2>2, <2>3 DEF Collect, SignInTypeOK
<1>5. ASSUME NEW t \in Tabs, Issue(t) \/ StoreSession(t)  PROVE SignInTypeOK'
  <2>1. tab' \in tabs /\ \A u \in Tabs : tab'[u].at # "idle" => tab'[u].login \in Logins
    BY <1>5, <1>c DEF Issue, StoreSession
  <2>2. sessions' \subseteq [login : Logins, tab : Tabs]
    BY <1>5 DEF Issue, StoreSession, SignInTypeOK
  <2> QED  BY <1>5, <2>1, <2>2 DEF Issue, StoreSession, SignInTypeOK
<1> QED  BY <1>1, <1>2, <1>3, <1>4, <1>5 DEF SignInNext

\* Every variable of the portal keeps its type.
LEMMA TypeStep == TypeOK /\ [Next]_vars => TypeOK'
<1> SUFFICES ASSUME TypeOK, [Next]_vars  PROVE TypeOK'
  OBVIOUS
<1> USE DEF TypeOK
<1>1. CASE RequestsNext /\ UNCHANGED <<story, recoveryVars, signInVars>>
  BY <1>1, RequestsType DEF RecoveryTypeOK, SignInTypeOK, recoveryVars, signInVars
<1>2. CASE RecoveryNext /\ UNCHANGED <<story, signInVars>>
  <2>1. RecoveryTypeOK' /\ reserved' \in Nat
    BY <1>2, RecoveryType DEF RequestsTypeOK
  <2>2. UNCHANGED <<asked, record, request, command, made, cause>>
    BY <1>2, OnlyReserved
  <2> QED  BY <1>2, <2>1, <2>2 DEF RequestsTypeOK, SignInTypeOK, signInVars
<1>3. CASE PayoutCall /\ UNCHANGED <<story, recoveryVars, signInVars>>
  <2>1. RequestsTypeOK'
    BY <1>3, RequestType DEF PayoutCall
  <2> QED  BY <1>3, <2>1 DEF RecoveryTypeOK, SignInTypeOK, recoveryVars, signInVars
<1>4. CASE SignInNext /\ UNCHANGED <<story, requestVars, recoveryVars>>
  BY <1>4, SignInType DEF RequestsTypeOK, RecoveryTypeOK, requestVars, recoveryVars
<1>5. CASE UNCHANGED vars
  BY <1>5 DEF vars, RequestsTypeOK, RecoveryTypeOK, SignInTypeOK, requestVars, recoveryVars, signInVars
<1> QED  BY <1>1, <1>2, <1>3, <1>4, <1>5 DEF Next

\* The variables of the API's requests, of stray deposits and of sign-ins keep
\* their types under every interleaving and fault.
THEOREM TypeCorrect == Spec => []TypeOK
BY InitType, TypeStep, PTL DEF Spec

-----------------------------------------------------------------------------
(* Requests with one key.                                                    *)

\* A step of one request counts it in or out, and no other.
LEMMA PendingCount ==
  ASSUME NEW r \in Requests,
         \A q \in Requests \ {r} : request'[q] = request[q] /\ command'[q] = command[q]
  PROVE  /\ Cardinality(Pending) \in Nat /\ Cardinality(Pending)' \in Nat
         /\ r \in Pending => Cardinality(Pending) >= 1
         /\ Cardinality(Pending)' = Cardinality(Pending)
              + (IF r \in Pending' THEN 1 ELSE 0) - (IF r \in Pending THEN 1 ELSE 0)
<1>1. IsFiniteSet(Pending) /\ IsFiniteSet(Pending')
  BY RequestsAssumption, FS_Subset DEF Pending
<1>2. Cardinality(Pending) \in Nat /\ Cardinality(Pending') \in Nat
  BY <1>1, FS_CardinalityType
<1>3. r \in Pending => Cardinality(Pending) >= 1
  BY <1>1, <1>2, FS_EmptySet
<1>4. \A q \in Requests \ {r} : q \in Pending' <=> q \in Pending
  BY DEF Pending
<1>5. Pending \subseteq Requests /\ Pending' \subseteq Requests
  BY DEF Pending
<1>6. CASE r \in Pending' /\ r \notin Pending
  <2>1. Pending' = Pending \cup {r}
    BY <1>4, <1>5, <1>6
  <2> QED  BY <1>1, <1>2, <1>3, <1>6, <2>1, FS_AddElement
<1>7. CASE r \notin Pending' /\ r \in Pending
  <2>1. Pending' = Pending \ {r}
    BY <1>4, <1>5, <1>7
  <2> QED  BY <1>1, <1>2, <1>3, <1>7, <2>1, FS_RemoveElement
<1>8. CASE r \in Pending' <=> r \in Pending
  <2>1. Pending' = Pending
    BY <1>4, <1>5, <1>8
  <2> QED  BY <1>2, <1>3, <1>8, <2>1
<1> QED  BY <1>6, <1>7, <1>8

\* One thing more is made, or none.
LEMMA MadeCount ==
  ASSUME IsFiniteSet(made), NEW x, made' = made \cup {x} \/ made' = made
  PROVE  /\ IsFiniteSet(made') /\ Cardinality(made) \in Nat /\ Cardinality(made)' \in Nat
         /\ Cardinality(made)' <= Cardinality(made) + 1
         /\ made' = made => Cardinality(made)' = Cardinality(made)
<1>1. Cardinality(made) \in Nat
  BY FS_CardinalityType
<1>2. CASE made' = made \cup {x}
  <2>1. IsFiniteSet(made \cup {x}) /\ Cardinality(made \cup {x}) \in {Cardinality(made), Cardinality(made) + 1}
    BY FS_AddElement
  <2>2. IsFiniteSet(made') /\ Cardinality(made') \in {Cardinality(made), Cardinality(made) + 1}
    BY <1>2, <2>1
  <2>3. made' = made => Cardinality(made') = Cardinality(made)
    OBVIOUS
  <2> QED  BY <1>1, <2>2, <2>3
<1>3. CASE made' = made
  BY <1>1, <1>3
<1> QED  BY <1>2, <1>3

\* Causes are never taken back.
LEMMA SpentGrows ==
  ASSUME RequestsTypeOK
  PROVE  /\ Spent \in Nat
         /\ UNCHANGED cause => Spent' = Spent
         /\ \A c \in Causes : Suffer(c) \/ cause' = [cause EXCEPT ![c] = @ + 1] =>
              /\ Spent' \in Nat /\ Spent' >= Spent
              /\ c # "crash" => Spent' = Spent + 1
<1>1. Causes = {"lapse", "redis", "enqueue", "crash", "vanished"}
  BY DEF Causes, Faults
<1>2. cause \in [Causes -> Nat]
  BY DEF RequestsTypeOK
<1>3. ASSUME NEW c \in Causes, cause' = [cause EXCEPT ![c] = @ + 1]
      PROVE  Spent' \in Nat /\ Spent' >= Spent /\ (c # "crash" => Spent' = Spent + 1)
  <2>1. \A d \in Causes : cause'[d] = IF d = c THEN cause[d] + 1 ELSE cause[d]
    BY <1>2, <1>3
  <2>2. \A d \in Causes : cause[d] \in Nat
    BY <1>2
  <2> QED  BY <1>1, <2>1, <2>2 DEF Spent
<1>4. Spent \in Nat
  BY <1>1, <1>2 DEF Spent
<1>5. UNCHANGED cause => Spent' = Spent
  BY DEF Spent
<1> QED  BY <1>3, <1>4, <1>5 DEF Suffer

\* What a request's step leaves of the other requests.
LEMMA OthersStay ==
  ASSUME RequestsTypeOK, NEW r \in Requests,
         \/ Reserve(r) \/ ReserveFails(r) \/ Look(r) \/ LookFails(r)
         \/ Create(r) \/ CreateUnqueued(r) \/ Refuse(r)
         \/ Answer(r) \/ Land(r) \/ LandFails(r) \/ Crash(r)
  PROVE  /\ \A q \in Requests \ {r} : request'[q] = request[q] /\ command'[q] = command[q]
         /\ asked' = asked
         /\ made' = made \cup {Thing(r)} \/ made' = made
<1> USE DEF RequestsTypeOK, To, Own
<1>1. CASE Reserve(r) \/ ReserveFails(r)
  BY <1>1 DEF Reserve, ReserveFails
<1>2. CASE Look(r) \/ LookFails(r)
  BY <1>2 DEF Look, LookFails
<1>3. CASE Create(r) \/ CreateUnqueued(r) \/ Refuse(r)
  BY <1>3 DEF Create, CreateUnqueued, Refuse, Commit
<1>4. CASE Answer(r) \/ Land(r) \/ LandFails(r) \/ Crash(r)
  BY <1>4 DEF Answer, Land, LandFails, Crash
<1> QED  BY <1>1, <1>2, <1>3, <1>4

\* The budget is kept by every step of a request.
LEMMA BudgetStep ==
  ASSUME RequestsTypeOK, CallsInv, NEW r \in Requests,
         \/ Reserve(r) \/ ReserveFails(r) \/ Look(r) \/ LookFails(r)
         \/ Create(r) \/ CreateUnqueued(r) \/ Refuse(r)
         \/ Answer(r) \/ Land(r) \/ LandFails(r) \/ Crash(r)
  PROVE  IsFiniteSet(made') /\ Budget'
<1> DEFINE m == Cardinality(made)
           p == Cardinality(Pending)
           in == IF r \in Pending THEN 1 ELSE 0
<1>1. /\ IsFiniteSet(made') /\ m \in Nat /\ m' \in Nat
      /\ m' <= m + 1 /\ (made' = made => m' = m)
  BY OthersStay, MadeCount DEF CallsInv
<1>2. /\ p \in Nat /\ p' \in Nat /\ (r \in Pending => p >= 1)
      /\ p' = p + in' - in
  BY OthersStay, PendingCount
<1>3. /\ Spent \in Nat /\ Spent' \in Nat /\ Spent' >= Spent
      /\ ReserveFails(r) \/ LookFails(r) \/ CreateUnqueued(r) => Spent' = Spent + 1
      /\ Look(r) /\ record.state = "free" => Spent' = Spent + 1
  BY SpentGrows DEF Causes, Faults, Reserve, ReserveFails, Look, LookFails, Create,
       CreateUnqueued, Refuse, Answer, Land, LandFails, Crash
<1>4. /\ r \in Pending <=> \/ request[r].at = "running"
                           \/ request[r].at = "ran" /\ request[r].owns /\ request[r].reply = {}
                           \/ command[r] = "DEL"
      /\ r \in Pending' <=> \/ request'[r].at = "running"
                            \/ request'[r].at = "ran" /\ request'[r].owns /\ request'[r].reply = {}
                            \/ command'[r] = "DEL"
  BY DEF Pending
<1>5. Budget /\ (command[r] # "none" => request[r].at = "done")
  BY DEF CallsInv, AfterAnswer
<1> HIDE DEF m, p, in
<1>6. Vacant \in {0, 1} /\ Vacant' \in {0, 1} /\ m + p + Vacant <= 1 + Spent
  BY <1>5 DEF Vacant, Budget, m, p
<1>7. /\ r \in Pending /\ r \in Pending' => p' = p
      /\ r \in Pending /\ r \notin Pending' => p' = p - 1
      /\ r \notin Pending /\ r \in Pending' => p' = p + 1
      /\ r \notin Pending /\ r \notin Pending' => p' = p
  BY <1>2 DEF in
<1>8. request \in [Requests -> Marks] /\ command \in [Requests -> {"none", "SET", "DEL"}]
  BY DEF RequestsTypeOK
<1>9. m' + p' + Vacant' <= 1 + Spent'
  <2>1. CASE Reserve(r)
    <3>1. r \notin Pending /\ made' = made /\ Spent' = Spent
      BY <2>1, <1>4, <1>5, SpentGrows DEF Reserve
    <3>2. CASE Vacant = 1
      <4>1. Vacant' = 0
        BY <2>1, <3>2 DEF Reserve, InFlight, Vacant
      <4> QED  BY <1>1, <1>2, <1>3, <1>6, <1>7, <3>1, <3>2, <4>1
    <3>3. CASE Vacant = 0
      <4>1. record' = record /\ request'[r].at = "taken" /\ command' = command
        BY <2>1, <1>8, <3>3 DEF Reserve, To, Vacant, Marks
      <4>2. r \notin Pending'
        BY <1>4, <3>1, <4>1
      <4> QED  BY <1>1, <1>2, <1>3, <1>6, <1>7, <3>1, <3>3, <4>1, <4>2 DEF Vacant
    <3> QED  BY <1>6, <3>2, <3>3
  <2>2. CASE ReserveFails(r)
    <3>1. r \notin Pending /\ made' = made
      BY <2>2, <1>4, <1>5 DEF ReserveFails
    <3>2. Vacant' <= Vacant
      BY <2>2 DEF ReserveFails, InFlight, Vacant
    <3> QED  BY <2>2, <1>1, <1>2, <1>3, <1>6, <1>7, <3>1, <3>2
  <2>3. CASE Look(r)
    <3>1. r \notin Pending /\ made' = made /\ Vacant' = Vacant
      BY <2>3, <1>4, <1>5 DEF Look, Vacant
    <3>2. CASE record.state = "free"
      BY <2>3, <1>1, <1>2, <1>3, <1>6, <1>7, <3>1, <3>2
    <3>3. CASE record.state # "free"
      <4>1. request'[r].at = "done" /\ command' = command
        BY <2>3, <1>8, <3>3 DEF Look, Marks
      <4>2. r \notin Pending'
        BY <1>4, <3>1, <4>1
      <4> QED  BY <1>1, <1>2, <1>3, <1>6, <1>7, <3>1, <4>2
    <3> QED  BY <3>2, <3>3
  <2>4. CASE LookFails(r)
    <3>1. r \notin Pending /\ made' = made /\ Vacant' = Vacant
      BY <2>4, <1>4, <1>5 DEF LookFails, Vacant
    <3> QED  BY <2>4, <1>1, <1>2, <1>3, <1>6, <1>7, <3>1
  <2>5. CASE Create(r)
    <3>1. r \in Pending /\ Vacant' = Vacant
      BY <2>5, <1>4 DEF Create, Commit, Vacant
    <3>2. request'[r].at = "ran" /\ request'[r].reply # {} /\ command' = command
      BY <2>5, <1>8 DEF Create, Marks
    <3>3. r \notin Pending'
      BY <2>5, <1>4, <1>5, <3>2 DEF Create, Commit
    <3> QED  BY <1>1, <1>2, <1>3, <1>6, <1>7, <3>1, <3>3
  <2>6. CASE CreateUnqueued(r)
    <3>1. r \in Pending /\ Vacant' = Vacant
      BY <2>6, <1>4 DEF CreateUnqueued, Commit, Vacant
    <3> QED  BY <2>6, <1>1, <1>2, <1>3, <1>6, <1>7, <3>1
  <2>7. CASE Refuse(r)
    <3>1. r \in Pending /\ Vacant' = Vacant /\ made' = made
      BY <2>7, <1>4 DEF Refuse, Vacant
    <3> QED  BY <1>1, <1>2, <1>3, <1>6, <1>7, <3>1
  <2>8. CASE Answer(r)
    <3>1. Vacant' = Vacant /\ made' = made
      BY <2>8 DEF Answer, Vacant
    <3>2. r \in Pending' => r \in Pending
      BY <2>8, <1>4, <1>5, <1>8 DEF Answer, To, Marks
    <3> QED  BY <1>1, <1>2, <1>3, <1>6, <1>7, <3>1, <3>2
  <2>9. CASE Land(r)
    <3>1. made' = made /\ Spent' = Spent
      BY <2>9, SpentGrows DEF Land
    <3>2. r \notin Pending'
      BY <2>9, <1>4, <1>5, <1>8 DEF Land
    <3>3. CASE command[r] = "DEL"
      BY <1>1, <1>2, <1>3, <1>4, <1>6, <1>7, <3>1, <3>2, <3>3
    <3>4. CASE command[r] # "DEL"
      <4>1. command[r] = "SET"
        BY <2>9, <1>8, <3>4 DEF Land
      <4>2. Vacant' = 0
        BY <2>9, <4>1 DEF Land, Vacant, Complete
      <4> QED  BY <1>1, <1>2, <1>3, <1>6, <1>7, <3>1, <3>2, <4>2
    <3> QED  BY <3>3, <3>4
  <2>10. CASE LandFails(r)
    <3>1. Vacant' = Vacant /\ made' = made
      BY <2>10 DEF LandFails, Vacant
    <3>2. r \notin Pending'
      BY <2>10, <1>4, <1>5, <1>8 DEF LandFails
    <3> QED  BY <1>1, <1>2, <1>3, <1>6, <1>7, <3>1, <3>2
  <2>11. CASE Crash(r)
    <3>1. Vacant' = Vacant /\ made' = made
      BY <2>11 DEF Crash, Vacant
    <3>2. request'[r].at = "dead" /\ command'[r] = "none"
      BY <2>11, <1>8 DEF Crash, To, Marks
    <3> QED  BY <1>1, <1>2, <1>3, <1>4, <1>6, <1>7, <3>1, <3>2
  <2> QED  BY <2>1, <2>2, <2>3, <2>4, <2>5, <2>6, <2>7, <2>8, <2>9, <2>10, <2>11
<1> QED  BY <1>1, <1>9 DEF Budget, m, p

\* So are the facts about commands, replies and orders.
LEMMA ReplyStep ==
  ASSUME RequestsTypeOK, CallsInv, NEW r \in Requests,
         \/ Reserve(r) \/ ReserveFails(r) \/ Look(r) \/ LookFails(r)
         \/ Create(r) \/ CreateUnqueued(r) \/ Refuse(r)
         \/ Answer(r) \/ Land(r) \/ LandFails(r) \/ Crash(r)
  PROVE  AfterAnswer' /\ RecordIsTrue' /\ ReplyIsMine' /\ OnePerOrder'
<1>1. /\ \A q \in Requests \ {r} : request'[q] = request[q] /\ command'[q] = command[q]
      /\ asked' = asked
  BY OthersStay
<1>2. request \in [Requests -> Marks] /\ command \in [Requests -> {"none", "SET", "DEL"}]
  BY DEF RequestsTypeOK
<1>3. /\ command[r] # "none" => request[r].at = "done"
      /\ \A m \in request[r].reply : m.call = asked[r]
      /\ \A m \in record.reply : m.call = record.call
  BY DEF CallsInv, AfterAnswer, ReplyIsMine, RecordIsTrue
<1>4. command'[r] # "none" => request'[r].at = "done"
  <2>1. CASE Reserve(r) \/ ReserveFails(r) \/ Look(r) \/ LookFails(r)
    BY <2>1, <1>3 DEF Reserve, ReserveFails, Look, LookFails
  <2>2. CASE Create(r) \/ CreateUnqueued(r) \/ Refuse(r)
    BY <2>2, <1>3 DEF Create, CreateUnqueued, Refuse, Commit
  <2>3. CASE Answer(r)
    BY <2>3, <1>2 DEF Answer, To, Marks
  <2>4. CASE Land(r) \/ LandFails(r) \/ Crash(r)
    BY <2>4, <1>2 DEF Land, LandFails, Crash
  <2> QED  BY <2>1, <2>2, <2>3, <2>4
<1>5. \A m \in request'[r].reply : m.call = asked[r]
  <2>2. CASE Create(r)
    <3>1. request'[r].reply = {Thing(r)}
      BY <2>2, <1>2 DEF Create, Marks
    <3> QED  BY <3>1 DEF Thing
  <2>3. CASE Look(r) /\ record.state # "free"
    <3>1. request'[r].reply = IF record.call = asked[r] THEN record.reply ELSE {}
      BY <2>3, <1>2 DEF Look, Marks
    <3> QED  BY <3>1, <1>3
  <2>4. CASE \/ Look(r) /\ record.state = "free"
             \/ Reserve(r) \/ ReserveFails(r) \/ LookFails(r)
             \/ CreateUnqueued(r) \/ Refuse(r) \/ Answer(r) \/ Land(r) \/ LandFails(r) \/ Crash(r)
    <3>1. \/ Own(r) \/ \E place \in Places : To(r, place)
          \/ request' = request
      BY <2>4 DEF Reserve, ReserveFails, Look, LookFails, CreateUnqueued, Refuse, Answer, Land,
                  LandFails, Crash, Places
    <3>2. request'[r].reply = request[r].reply
      BY <3>1, <1>2 DEF Own, To, Marks
    <3> QED  BY <3>2, <1>3
  <2> QED  BY <2>2, <2>3, <2>4
<1>6. \A m \in record'.reply : m.call = record'.call
  <2>1. CASE record' = record
    BY <2>1, <1>3
  <2>2. CASE record' = InFlight(r) \/ record' = Free
    BY <2>2 DEF InFlight, Free
  <2>3. CASE record' = Complete(r)
    BY <2>3, <1>3 DEF Complete
  <2>4. record' \in {record, InFlight(r), Free, Complete(r)}
    BY DEF Reserve, ReserveFails, Look, LookFails, Create, CreateUnqueued, Refuse, Answer, Land,
           LandFails, Crash, Commit
  <2> QED  BY <2>1, <2>2, <2>3, <2>4
<1>7. OnePerOrder'
  <2>1. CASE made' = made
    BY <2>1 DEF CallsInv, OnePerOrder
  <2>2. CASE Commit(r)
    <3>1. \A m \in made : m.call = asked[r] => asked[r].route # "payments"
      BY <2>2 DEF Commit, Allowed, OrderTaken
    <3>2. made' = made \cup {Thing(r)} /\ Thing(r).call = asked[r]
      BY <2>2 DEF Commit, Thing
    <3> QED  BY <3>1, <3>2 DEF CallsInv, OnePerOrder
  <2>3. made' = made \/ Commit(r)
    BY DEF Reserve, ReserveFails, Look, LookFails, Create, CreateUnqueued, Refuse, Answer, Land,
           LandFails, Crash
  <2> QED  BY <2>1, <2>2, <2>3
<1> QED
  BY <1>1, <1>4, <1>5, <1>6, <1>7 DEF AfterAnswer, RecordIsTrue, ReplyIsMine, CallsInv

\* All steps of the portal keep the invariant of the requests.
LEMMA CallsStep ==
  ASSUME RequestsTypeOK, CallsInv,
         RequestsNext \/ PayoutCall \/ UNCHANGED <<asked, record, request, command, made, cause>>
  PROVE  CallsInv'
<1>1. ASSUME NEW r \in Requests,
             \/ Reserve(r) \/ ReserveFails(r) \/ Look(r) \/ LookFails(r)
             \/ Create(r) \/ CreateUnqueued(r) \/ Refuse(r)
             \/ Answer(r) \/ Land(r) \/ LandFails(r) \/ Crash(r)
      PROVE  CallsInv'
  BY <1>1, BudgetStep, ReplyStep DEF CallsInv
<1>2. CASE Lapse
  <2>1. Spent \in Nat /\ Spent' = Spent + 1
    BY <1>2, SpentGrows DEF Lapse, Causes, Faults
  <2>2. Cardinality(made) \in Nat
    BY FS_CardinalityType DEF CallsInv
  <2>3. Cardinality(Pending) \in Nat
    BY RequestsAssumption, FS_Subset, FS_CardinalityType DEF Pending
  <2>4. Vacant = 0 /\ Vacant' = 1 /\ made' = made /\ Pending' = Pending
    BY <1>2 DEF Lapse, Vacant, Free, Pending
  <2>5. Budget'
    BY <2>1, <2>2, <2>3, <2>4 DEF CallsInv, Budget
  <2>6. AfterAnswer' /\ RecordIsTrue' /\ ReplyIsMine' /\ OnePerOrder'
    BY <1>2 DEF Lapse, Free, CallsInv, AfterAnswer, RecordIsTrue, ReplyIsMine, OnePerOrder
  <2> QED  BY <2>4, <2>5, <2>6 DEF CallsInv
<1>3. CASE UNCHANGED <<asked, record, request, command, made, cause>>
  BY <1>3 DEF CallsInv, Budget, Pending, Vacant, Spent, AfterAnswer, RecordIsTrue, ReplyIsMine, OnePerOrder
<1> QED  BY <1>1, <1>2, <1>3 DEF RequestsNext, PayoutCall

-----------------------------------------------------------------------------
(* Recoveries.                                                               *)

\* While nothing was found unmoved, the steps of one recovery keep its row its own.
LEMMA ClickStep ==
  ASSUME RecoveryTypeOK, RowIsClaimed, NEW k \in Clicks,
         \A i, j \in Clicks :
           click[i].at \in Underway /\ click[j].at \in Underway /\ click[i].row = click[j].row => i = j,
         ~SweepNothing(k),
         \/ \E d \in Rows : Claim(k, d)
         \/ Recover(k) \/ SweepThrows(k) \/ StatementFails(k) \/ MarkFails(k) \/ Dies(k)
  PROVE  /\ RowIsClaimed'
         /\ \A i, j \in Clicks :
              click'[i].at \in Underway /\ click'[j].at \in Underway /\ click'[i].row = click'[j].row => i = j
<1> DEFINE clicks == [at : Underway \cup {"new", "ended", "done", "dead"},
                      row : Rows \cup {None}, amount : Nat]
<1>1. /\ click \in [Clicks -> clicks]
      /\ status \in [Rows -> {"none", "detected", "sweeping", "swept", "failed"}]
      /\ \A j \in Clicks : click[j].at \in Underway => click[j].row \in Rows
  BY DEF RecoveryTypeOK
<1>2. CASE \E d \in Rows : Claim(k, d)
  <2> PICK d \in Rows : Claim(k, d)
    BY <1>2
  <2>1. \A j \in Clicks : click[j].at \in Underway => click[j].row # d
    BY DEF RowIsClaimed, Claim
  <2>2. /\ status' = [status EXCEPT ![d] = "sweeping"]
        /\ click'[k].row = d
        /\ \A j \in Clicks \ {k} : click'[j] = click[j]
    BY <1>1 DEF Claim, Mark
  <2> QED  BY <1>1, <2>1, <2>2 DEF RowIsClaimed
<1>3. CASE ~\E d \in Rows : Claim(k, d)
  <2>1. /\ click[k].at \in Underway
        /\ click'[k].row = click[k].row
        /\ \A j \in Clicks \ {k} : click'[j] = click[j]
    <3>1. CASE RefuseIndexless(k) \/ Sweep(k) \/ MarkSwept(k) \/ BookTransfer(k)
      BY <3>1, <1>1 DEF RefuseIndexless, Sweep, MarkSwept, BookTransfer, Step, Underway
    <3>2. CASE SettleLate(k) \/ Caught(k) \/ SweepThrows(k) \/ StatementFails(k) \/ MarkFails(k) \/ Dies(k)
      BY <3>2, <1>1 DEF SettleLate, Caught, SweepThrows, StatementFails, MarkFails, Dies, Step, Underway
    <3> QED  BY <1>3, <3>1, <3>2 DEF Recover
  <2>2. /\ \A d \in Rows \ {click[k].row} : status'[d] = status[d]
        /\ \/ status' = status
           \/ status'[click[k].row] = "swept"
           \/ click'[k].at = "done"
    <3>1. CASE RefuseIndexless(k) \/ Caught(k)
      BY <3>1, <1>1 DEF RefuseIndexless, Caught, Mark, Step
    <3>2. CASE MarkSwept(k)
      BY <3>2, <1>1, <2>1 DEF MarkSwept, Mark
    <3>3. CASE ~(RefuseIndexless(k) \/ Caught(k) \/ MarkSwept(k))
      BY <1>3, <3>3 DEF Recover, Sweep, BookTransfer, SettleLate, SweepThrows, StatementFails,
                        MarkFails, Dies
    <3> QED  BY <3>1, <3>2, <3>3
  <2>3. "done" \notin Underway
    BY DEF Underway
  <2>4. \A j \in Clicks : click'[j].at \in Underway =>
          /\ click'[j].row = click[j].row /\ click[j].at \in Underway
    BY <2>1
  <2>5. RowIsClaimed'
    <3> SUFFICES ASSUME NEW j \in Clicks, click'[j].at \in Underway
                 PROVE  status'[click[j].row] \in {"sweeping", "swept"}
      BY <2>4 DEF RowIsClaimed
    <3>1. click[j].at \in Underway /\ status[click[j].row] \in {"sweeping", "swept"} /\ click[j].row \in Rows
      BY <2>4, <1>1 DEF RowIsClaimed
    <3>2. CASE j = k
      BY <2>2, <2>3, <3>1, <3>2
    <3>3. CASE j # k
      <4>1. click[j].row # click[k].row
        BY <2>1, <3>1, <3>3
      <4> QED  BY <2>2, <3>1, <4>1
    <3> QED  BY <3>2, <3>3
  <2> QED  BY <2>4, <2>5
<1> QED  BY <1>2, <1>3

\* All steps of the portal keep the invariant of the recoveries.
LEMMA RecoveryStep ==
  ASSUME RecoveryTypeOK, RecoveryInv, RecoveryNext \/ UNCHANGED recoveryVars
  PROVE  RecoveryInv'
<1> DEFINE alone == \A i, j \in Clicks :
             click[i].at \in Underway /\ click[j].at \in Underway /\ click[i].row = click[j].row => i = j
<1>1. trouble \in [Strikes -> Nat] /\ "unmoved" \in Strikes
  BY DEF RecoveryTypeOK, Strikes
<1>2. RecoveryInv <=> (trouble["unmoved"] = 0 => RowIsClaimed /\ alone)
  BY DEF RecoveryInv, OneRecovery
<1>3. RecoveryInv' <=> (trouble'["unmoved"] = 0 => RowIsClaimed' /\ alone')
  BY DEF RecoveryInv, OneRecovery
<1>4. CASE UNCHANGED recoveryVars
  BY <1>4 DEF RecoveryInv, RowIsClaimed, OneRecovery, recoveryVars
<1>5. ASSUME NEW d \in Rows, Arrive(d) \/ RecordDeposit(d)  PROVE RecoveryInv'
  <2>1. UNCHANGED <<click, trouble>>
    BY <1>5 DEF Arrive, RecordDeposit
  <2>2. ASSUME RowIsClaimed  PROVE RowIsClaimed'
    <3>1. CASE Arrive(d)
      BY <2>2, <3>1 DEF Arrive, RowIsClaimed
    <3>2. CASE RecordDeposit(d)
      BY <2>2, <3>2 DEF RecordDeposit, Mark, RowIsClaimed, RecoveryTypeOK
    <3> QED  BY <1>5, <3>1, <3>2
  <2> QED  BY <1>2, <1>3, <2>1, <2>2
<1>6. ASSUME NEW k \in Clicks,
             \/ \E d \in Rows : Claim(k, d)
             \/ Recover(k) \/ SweepThrows(k) \/ StatementFails(k) \/ MarkFails(k) \/ Dies(k)
      PROVE  RecoveryInv'
  <2>1. CASE SweepNothing(k)
    <3>1. trouble'["unmoved"] = trouble["unmoved"] + 1
      BY <1>1, <2>1 DEF SweepNothing
    <3> QED  BY <1>1, <1>3, <3>1
  <2>2. CASE ~SweepNothing(k)
    <3>1. trouble'["unmoved"] = 0 => trouble["unmoved"] = 0
      <4>1. UNCHANGED trouble \/ \E t \in Troubles : Trouble(t)
        BY <1>6, <2>2 DEF Claim, Recover, RefuseIndexless, Sweep, MarkSwept, BookTransfer, SettleLate,
             Caught, SweepThrows, StatementFails, MarkFails, Dies, Troubles
      <4>2. trouble'["unmoved"] = trouble["unmoved"]
        BY <1>1, <4>1 DEF Trouble, Troubles, Strikes
      <4> QED  BY <4>2
    <3> QED  BY <1>2, <1>3, <1>6, <2>2, <3>1, ClickStep
  <2> QED  BY <2>1, <2>2
<1> QED  BY <1>4, <1>5, <1>6 DEF RecoveryNext

-----------------------------------------------------------------------------
(* Sign-ins.                                                                 *)

\* What the owner and time do to the requests takes nothing from the tabs.
LEMMA LoginStep ==
  ASSUME SignInTypeOK, SignInInv, NEW a \in Logins,
         \/ Supersede(a) \/ OpenRequest(a) \/ MailFails(a) \/ Age(a) \/ Reap(a)
         \/ \E decision \in {"approved", "rejected"} : Decide(a, decision)
  PROVE  SignInInv'
<1>1. UNCHANGED <<tab, sessions>>
  BY DEF Supersede, OpenRequest, MailFails, Age, Reap, Decide
<1>2. \A b \in Logins : login[b] = "open" => login'[b] = "open"
  BY DEF SignInTypeOK, Supersede, OpenRequest, MailFails, Age, Reap, Decide
<1>3. \A b \in Logins : approval[b].status \in {"consumed", "none"} /\ login[b] = "open" =>
        approval'[b].status \in {"consumed", "none"} /\ answer'[b] = answer[b]
  <2>1. CASE Supersede(a)
    BY <2>1 DEF SignInTypeOK, Supersede
  <2>2. CASE OpenRequest(a) \/ MailFails(a)
    BY <2>2 DEF SignInTypeOK, OpenRequest, MailFails
  <2>3. CASE Age(a)
    BY <2>3 DEF SignInTypeOK, Age
  <2>4. CASE Reap(a)
    BY <2>4 DEF SignInTypeOK, Reap
  <2>5. CASE \E decision \in {"approved", "rejected"} : Decide(a, decision)
    BY <2>5 DEF SignInTypeOK, Decide, Answerable
  <2> QED  BY <2>1, <2>2, <2>3, <2>4, <2>5
<1>4. \A b \in Logins : approval'[b].status = "approved" => answer'[b] = "approved"
  <2>0. \A b \in Logins : approval[b].status = "approved" => answer[b] = "approved"
    BY DEF SignInInv
  <2>1. CASE Supersede(a)
    BY <2>0, <2>1 DEF SignInTypeOK, Supersede
  <2>2. CASE OpenRequest(a) \/ MailFails(a)
    BY <2>0, <2>2 DEF SignInTypeOK, OpenRequest, MailFails
  <2>3. CASE Age(a)
    BY <2>0, <2>3 DEF SignInTypeOK, Age
  <2>4. CASE Reap(a)
    BY <2>0, <2>4 DEF SignInTypeOK, Reap
  <2>5. ASSUME NEW decision \in {"approved", "rejected"}, Decide(a, decision)
        PROVE  \A b \in Logins : approval'[b].status = "approved" => answer'[b] = "approved"
    BY <2>0, <2>5 DEF SignInTypeOK, Decide
  <2> QED  BY <2>1, <2>2, <2>3, <2>4, <2>5
<1>5. \A b \in Logins : Used(b) => Used(b)'
  BY <1>2, <1>3 DEF Used
<1>6. /\ \A t \in Tabs : tab[t].at # "idle" => tab[t].login \in Logins
      /\ \A s \in sessions : s.login \in Logins
  BY DEF SignInTypeOK
<1>7. \A t \in Tabs : Holding(t) => tab[t].login \in Logins
  BY <1>6 DEF Holding
<1>8. \A s \in sessions : answer'[s.login] = "approved"
  BY <1>5, <1>6 DEF SignInInv, Used
<1> QED
  BY <1>1, <1>2, <1>4, <1>5, <1>6, <1>7, <1>8 DEF SignInInv, Holding, OneSessionPerApproval

\* A tab takes an approval that no other tab and no session came from.
LEMMA TabStep ==
  ASSUME SignInTypeOK, SignInInv, NEW t \in Tabs,
         Collect(t) \/ Issue(t) \/ StoreSession(t) \/ \E a \in Logins : Poll(t, a)
  PROVE  SignInInv'
<1> DEFINE tabs == [at : {"idle", "collecting", "claimed", "issuing", "over"},
                    login : Logins \cup {NoLogin}]
           used(b) == /\ answer[b] = "approved" /\ login[b] = "open"
                      /\ approval'[b].status \in {"consumed", "none"}
           holds(u) == tab'[u].at \in {"claimed", "issuing"}
           kept == /\ \A b \in Logins : approval'[b].status = "approved" => answer[b] = "approved"
                   /\ \A u \in Tabs : tab'[u].at = "collecting" => login[tab'[u].login] = "open"
                   /\ \A u \in Tabs : holds(u) => used(tab'[u].login)
                   /\ \A u, v \in Tabs : holds(u) /\ holds(v) /\ tab'[u].login = tab'[v].login => u = v
                   /\ \A s \in sessions' : used(s.login) /\ \A u \in Tabs : holds(u) => tab'[u].login # s.login
                   /\ \A s, z \in sessions' : answer[s.login] = "approved" /\ (s.login = z.login => s = z)
<1>1. /\ tab \in [Tabs -> tabs]
      /\ \A u \in Tabs : tab[u].at # "idle" => tab[u].login \in Logins
      /\ \A s \in sessions : s.login \in Logins
      /\ approval \in [Logins -> [status : {"none", "pending", "approved", "rejected", "consumed"},
                                   expired : BOOLEAN]]
  BY DEF SignInTypeOK
<1>2. login' = login /\ answer' = answer
  BY DEF Collect, Issue, StoreSession, Poll
<1>3. SUFFICES kept
  BY <1>2 DEF SignInInv, Used, Holding, OneSessionPerApproval
<1>4. /\ \A b \in Logins : approval[b].status = "approved" => answer[b] = "approved"
      /\ \A u \in Tabs : tab[u].at = "collecting" => login[tab[u].login] = "open"
      /\ \A u \in Tabs : Holding(u) => Used(tab[u].login)
      /\ \A u, v \in Tabs : Holding(u) /\ Holding(v) /\ tab[u].login = tab[v].login => u = v
      /\ \A s \in sessions : Used(s.login) /\ \A u \in Tabs : Holding(u) => tab[u].login # s.login
      /\ \A s, z \in sessions : answer[s.login] = "approved" /\ (s.login = z.login => s = z)
  BY DEF SignInInv, OneSessionPerApproval
<1>5. ASSUME approval' = approval, sessions' = sessions,
             \A u \in Tabs \ {t} : tab'[u] = tab[u],
             \/ holds(t) /\ Holding(t) /\ tab'[t].login = tab[t].login
             \/ ~holds(t) /\ tab'[t].at = "collecting" /\ login[tab'[t].login] = "open"
             \/ ~holds(t) /\ tab'[t].at # "collecting"
      PROVE  kept
  <2>1. \A u \in Tabs : holds(u) => Holding(u) /\ tab'[u].login = tab[u].login
    BY <1>5 DEF Holding
  <2>2. \A b : Used(b) => used(b)
    BY <1>5 DEF Used
  <2> QED  BY <1>4, <1>5, <2>1, <2>2
<1>6. CASE \E b \in Logins : Poll(t, b)
  <2> PICK b \in Logins : Poll(t, b)
    BY <1>6
  <2>1. /\ tab'[t].at = "collecting" /\ tab'[t].login = b /\ login[b] = "open"
        /\ \A u \in Tabs \ {t} : tab'[u] = tab[u]
        /\ approval' = approval /\ sessions' = sessions
    BY <1>1 DEF Poll
  <2> QED  BY <1>5, <2>1
<1>7. CASE Issue(t)
  <2>1. /\ tab'[t].at \in {"issuing", "over"} /\ tab'[t].login = tab[t].login /\ Holding(t)
        /\ \A u \in Tabs \ {t} : tab'[u] = tab[u]
        /\ approval' = approval /\ sessions' = sessions
    BY <1>1, <1>7 DEF Issue, Holding
  <2> QED  BY <1>5, <2>1
<1>8. CASE StoreSession(t)
  <2> DEFINE new == [login |-> tab[t].login, tab |-> t]
  <2>1. /\ tab'[t].at = "over" /\ Holding(t)
        /\ \A u \in Tabs \ {t} : tab'[u] = tab[u]
        /\ approval' = approval
        /\ sessions' = sessions \cup {new} /\ new.login = tab[t].login
    BY <1>1, <1>8 DEF StoreSession, Holding
  <2> HIDE DEF new
  <2>2. \A u \in Tabs : holds(u) => u # t /\ Holding(u) /\ tab'[u].login = tab[u].login
    BY <2>1 DEF Holding
  <2>3. \A b : Used(b) => used(b) /\ answer[b] = "approved"
    BY <2>1 DEF Used
  <2>4. Used(new.login) /\ \A s \in sessions : s.login # new.login
    BY <1>4, <2>1
  <2>5. \A u \in Tabs : holds(u) => tab'[u].login # new.login
    BY <1>4, <2>1, <2>2
  <2>6. \A u \in Tabs : tab'[u].at = "collecting" => tab[u].at = "collecting" /\ tab'[u].login = tab[u].login
    BY <2>1
  <2> QED  BY <1>4, <2>1, <2>2, <2>3, <2>4, <2>5, <2>6
<1>9. CASE Collect(t)
  <2>1. CASE tab'[t].at = "over"
    <3>1. /\ \A u \in Tabs \ {t} : tab'[u] = tab[u]
          /\ approval' = approval /\ sessions' = sessions
      BY <1>1, <1>9, <2>1 DEF Collect
    <3> QED  BY <1>5, <2>1, <3>1
  <2>2. CASE tab'[t].at # "over"
    <3> PICK a \in Logins : a = tab[t].login
      BY <1>1, <1>9 DEF Collect
    <3>1. /\ tab[t].at = "collecting" /\ approval[a].status = "approved"
          /\ approval' = [approval EXCEPT ![a].status = "consumed"]
          /\ tab' = [tab EXCEPT ![t].at = "claimed"]
          /\ sessions' = sessions
      BY <1>1, <1>9, <2>2 DEF Collect
    <3>2. /\ tab'[t].at = "claimed" /\ tab'[t].login = a
          /\ \A u \in Tabs \ {t} : tab'[u] = tab[u]
          /\ approval'[a].status = "consumed"
          /\ \A b \in Logins \ {a} : approval'[b] = approval[b]
      BY <1>1, <3>1
    <3>3. used(a) /\ ~Used(a)
      BY <1>4, <3>1, <3>2 DEF Used
    <3>4. \A b \in Logins : Used(b) => used(b)
      BY <3>2, <3>3 DEF Used
    <3>5. \A u \in Tabs : Holding(u) => tab[u].login # a /\ u # t /\ tab[u].login \in Logins
      BY <1>1, <1>4, <3>1, <3>3 DEF Holding
    <3>6. \A u \in Tabs : (holds(u) <=> Holding(u) \/ u = t) /\ tab'[u].login = tab[u].login
      BY <3>2 DEF Holding
    <3>7. \A s \in sessions : s.login # a
      BY <1>4, <3>3
    <3>8. /\ \A b \in Logins : approval'[b].status = "approved" => answer[b] = "approved"
          /\ \A u \in Tabs : tab'[u].at = "collecting" => login[tab'[u].login] = "open"
      BY <1>4, <3>2
    <3>9. \A u \in Tabs : holds(u) => used(tab'[u].login)
      BY <1>4, <3>3, <3>4, <3>5, <3>6
    <3>10. \A u, v \in Tabs : holds(u) /\ holds(v) /\ tab'[u].login = tab'[v].login => u = v
      BY <1>4, <3>5, <3>6
    <3>11. \A s \in sessions' : used(s.login) /\ \A u \in Tabs : holds(u) => tab'[u].login # s.login
      BY <1>1, <1>4, <3>1, <3>4, <3>6, <3>7
    <3> QED  BY <1>4, <3>1, <3>8, <3>9, <3>10, <3>11
  <2> QED  BY <2>1, <2>2
<1> QED  BY <1>6, <1>7, <1>8, <1>9

\* All steps of the portal keep the invariant of the sign-ins.
LEMMA SignInStep ==
  ASSUME SignInTypeOK, SignInInv, SignInNext \/ UNCHANGED signInVars
  PROVE  SignInInv'
<1>1. CASE Suspend \/ UNCHANGED signInVars
  BY <1>1 DEF Suspend, signInVars, SignInInv, Holding, Used, OneSessionPerApproval
<1> QED  BY <1>1, LoginStep, TabStep DEF SignInNext

-----------------------------------------------------------------------------
(* The theorems.                                                             *)

\* The invariant holds at first.
LEMMA InitInv == Init => PortalInv
<1> SUFFICES ASSUME Init  PROVE PortalInv
  OBVIOUS
<1>1. made = {} /\ Pending = {} /\ Spent = 0 /\ Vacant = 1
  BY DEF Init, RequestsInit, Pending, Spent, Causes, Faults, Vacant, Free
<1>2. IsFiniteSet(made) /\ Budget
  BY <1>1, FS_EmptySet DEF Budget
<1>3. AfterAnswer /\ RecordIsTrue /\ ReplyIsMine /\ OnePerOrder
  BY DEF Init, RequestsInit, Free, AfterAnswer, RecordIsTrue, ReplyIsMine, OnePerOrder
<1>4. RecoveryInv
  BY DEF Init, RecoveryInit, RecoveryInv, RowIsClaimed, OneRecovery, Underway
<1>5. SignInInv
  BY DEF Init, SignInInit, SignInInv, Holding, OneSessionPerApproval
<1> QED  BY <1>2, <1>3, <1>4, <1>5 DEF PortalInv, CallsInv

\* Every step keeps it.
LEMMA InvStep == TypeOK /\ PortalInv /\ [Next]_vars => PortalInv'
<1> SUFFICES ASSUME TypeOK, PortalInv, [Next]_vars  PROVE PortalInv'
  OBVIOUS
<1>1. RequestsNext \/ PayoutCall \/ UNCHANGED <<asked, record, request, command, made, cause>>
  BY OnlyReserved DEF Next, vars, requestVars
<1>2. RecoveryNext \/ UNCHANGED recoveryVars
  BY DEF Next, vars
<1>3. SignInNext \/ UNCHANGED signInVars
  BY DEF Next, vars
<1> QED
  BY <1>1, <1>2, <1>3, CallsStep, RecoveryStep, SignInStep DEF TypeOK, PortalInv

\* The inductive invariant the theorems below rest on.
THEOREM PortalInvariance == Spec => []PortalInv
BY TypeCorrect, InitInv, InvStep, PTL DEF Spec

\* Nobody is answered with the payment or payout of another order, however its
\* key was used before.
THEOREM ReplyIsMineHolds == Spec => []ReplyIsMine
BY PortalInvariance, PTL DEF PortalInv, CallsInv

\* An order has one payment, whatever happens to its key.
THEOREM OnePerOrderHolds == Spec => []OnePerOrder
BY PortalInvariance, PTL DEF PortalInv, CallsInv

\* Everything made beyond the first has a cause, and each cause accounts for one.
THEOREM ExtraHasCauseHolds == Spec => []ExtraHasCause
<1>1. TypeOK /\ PortalInv => ExtraHasCause
  <2> SUFFICES ASSUME TypeOK, PortalInv  PROVE ExtraHasCause
    OBVIOUS
  <2>1. Cardinality(made) \in Nat
    BY FS_CardinalityType DEF PortalInv, CallsInv
  <2>2. Cardinality(Pending) \in Nat
    BY RequestsAssumption, FS_Subset, FS_CardinalityType DEF Pending
  <2>3. Spent \in Nat /\ Vacant \in {0, 1}
    BY SpentGrows DEF TypeOK, Vacant
  <2>4. Cardinality(made) <= 1 + Spent
    BY <2>1, <2>2, <2>3 DEF PortalInv, CallsInv, Budget
  <2>5. /\ cause["lapse"] \in Nat /\ cause["redis"] \in Nat
        /\ cause["enqueue"] \in Nat /\ cause["vanished"] \in Nat
    BY DEF TypeOK, RequestsTypeOK, Causes, Faults
  <2> QED  BY <2>1, <2>4, <2>5 DEF ExtraHasCause, Spent
<1> QED  BY <1>1, TypeCorrect, PortalInvariance, PTL

\* The status of a stray deposit is a lock for its recoveries, whatever fails,
\* until one of them finds nothing to move.
THEOREM OneRecoveryHolds == Spec => []OneRecovery
<1>1. PortalInv => OneRecovery
  BY DEF PortalInv, RecoveryInv, OneRecovery
<1> QED  BY <1>1, PortalInvariance, PTL

\* An approval gives one session, for any number of sign-ins and tabs.
THEOREM OneSessionPerApprovalHolds == Spec => []OneSessionPerApproval
BY PortalInvariance, PTL DEF PortalInv, SignInInv
=============================================================================
