----------------------------- MODULE OutboxProofs -----------------------------
(***************************************************************************)
(* What holds of Outbox for every set of rows and dispatchers, every batch *)
(* size, lease and retry policy: the invariants and action properties that *)
(* the runs of MCOutbox check on small instances.                          *)
(***************************************************************************)
EXTENDS Outbox, TLAPS

USE DEF rowVars, roundVars, brokerVars

-------------------------------------------------------------------------------
(* The helpers of the model *)

\* A claim takes rows that are pending and due.
LEMMA ClaimableIsDue ==
  ASSUME NEW d, NEW batch, Claimable(d, batch)
  PROVE  \A r \in batch : r \in Rows /\ status[r] = "pending" /\ due[r] <= 0
BY DEF Claimable, FirstOf

\* The oldest row to do is a row to do.
LEMMA HeadInTodo == \A d : Head(d) \subseteq todo[d]
BY DEF Head

-------------------------------------------------------------------------------
(* Type correctness *)

\* Every row, dispatcher and broker variable keeps its type.
LEMMA TypePreserved == TypeOK /\ [Next]_vars => TypeOK'
<1> SUFFICES ASSUME TypeOK, [Next]_vars PROVE TypeOK'
  OBVIOUS
<1> USE SettingsAssumption, BoundsAssumption, HeadInTodo
        DEF TypeOK, Statuses, Committed, Phases, InRound, Holding
<1>1. ASSUME NEW r \in Rows, Application(r) PROVE TypeOK'
  <2>1. CASE Insert(r) \/ SetBack(r)
    BY <2>1 DEF Insert, SetBack
  <2>2. CASE EndTransaction(r)
    BY <2>2 DEF EndTransaction
  <2>3. QED
    BY <1>1, <2>1, <2>2 DEF Application
<1>2. ASSUME NEW r \in Rows, BrokerStores(r) \/ BrokerLoses(r) PROVE TypeOK'
  BY <1>2 DEF BrokerStores, BrokerLoses
<1>3. ASSUME NEW d \in Dispatchers, Dispatch(d) PROVE TypeOK'
  <2>1. CASE StartRound(d)
    BY <2>1 DEF StartRound
  <2>2. CASE Claim(d)
    BY <2>2, ClaimableIsDue DEF Claim, TakeLease
  <2>3. CASE ClaimFails(d)
    BY <2>3 DEF ClaimFails, TakeLease, EndRound
  <2>4. CASE ReadRow(d)
    BY <2>4 DEF ReadRow, MarkUnreadable, Mark
  <2>5. CASE ReadFails(d)
    BY <2>5 DEF ReadFails, MarkUnreadable, Mark, EndRound
  <2>6. CASE ReadDone(d) \/ Send(d) \/ LeaveLoop(d) \/ PollElapses(d) \/ EndRun(d)
    BY <2>6 DEF ReadDone, Send, LeaveLoop, PollElapses, EndRun
  <2>7. CASE PublishOk(d)
    BY <2>7 DEF PublishOk
  <2>8. CASE PublishErr(d) \/ PublishTimeout(d)
    BY <2>8 DEF PublishErr, PublishTimeout
  <2>9. CASE PutBack(d)
    BY <2>9 DEF PutBack, PutBackMark, LeaveRow, MarkFailed, MarkRetry, Mark
  <2>10. CASE PutBackFails(d)
    BY <2>10 DEF PutBackFails, LeaveRow
  <2>11. CASE MarkBatch(d)
    BY <2>11 DEF MarkBatch, MarkDispatched, Mark, AfterRound, EndRound
  <2>12. CASE MarkBatchFails(d)
    BY <2>12 DEF MarkBatchFails, AfterRound, EndRound
  <2>13. QED
    BY <1>3, <2>1, <2>2, <2>3, <2>4, <2>5, <2>6, <2>7, <2>8, <2>9, <2>10, <2>11, <2>12 DEF Dispatch
<1>4. ASSUME NEW d \in Dispatchers, Stop(d) PROVE TypeOK'
  BY <1>4 DEF Stop
<1>5. ASSUME NEW d \in Dispatchers, Crash(d) PROVE TypeOK'
  <2>1. TypeOK!1' /\ TypeOK!2' /\ TypeOK!3'
    BY <1>5 DEF Crash, TakeLease, PutBackMark, MarkFailed, MarkRetry, MarkDispatched, Mark
  <2>2. QED
    BY <1>5, <2>1 DEF Crash, EndRound
<1>6. ASSUME Tick PROVE TypeOK'
  BY <1>6 DEF Tick
<1>7. CASE UNCHANGED vars
  BY <1>7 DEF vars
<1>8. QED
  BY <1>1, <1>2, <1>3, <1>4, <1>5, <1>6, <1>7 DEF Next

\* The variables have their types in every state of every behaviour.
THEOREM TypeCorrect == Spec => []TypeOK
<1>1. Init => TypeOK
  BY DEF Init, TypeOK, Statuses, Phases
<1>2. QED
  BY <1>1, TypePreserved, PTL DEF Spec

-------------------------------------------------------------------------------
(* The inductive invariant *)

\* Of two dispatchers that hold a row, the one whose marks no longer match has
\* a lease that is over.
LEMMA Rival ==
  ASSUME IInv, NEW d \in Dispatchers, NEW e \in Dispatchers, d # e,
         NEW r \in Held(d) \cap Held(e), Fenced(d, r)
  PROVE  leased[e] <= 0 /\ ~Fenced(e, r) /\ leased[d] # leased[e]
BY DEF IInv, TypeOK, TokenInv, Token, UniqueInv, Held, Fenced

\* What a statement of another dispatcher leaves of the row r that e holds.
Spared(e, r) ==
  /\ status'[r] \in Committed
  /\ leased[e] <= due'[r]
  /\ leased[e] > 0 => leased[e] = due'[r]
  /\ leased[e] = due'[r] => status'[r] = "pending" /\ seen[e][r] = attempts'[r]

\* A claim takes only rows whose earlier leases are over.
LEMMA ClaimSpares ==
  ASSUME IInv, TypeOK', NEW d \in Dispatchers, NEW batch \in SUBSET Rows,
         Claimable(d, batch), TakeLease(batch),
         NEW e \in Dispatchers, NEW r \in Held(e)
  PROVE  Spared(e, r) /\ (r \in batch => leased[e] <= 0)
<1>1. r \in Rows
  BY DEF IInv, TypeOK, Held
<1>2. CASE r \in batch
  <2>1. status[r] = "pending" /\ due[r] <= 0 /\ leased[e] <= due[r]
    BY <1>2, ClaimableIsDue DEF IInv, TokenInv, Token
  <2>2. status'[r] = "pending" /\ due'[r] = Lease
    BY <1>1, <1>2, <2>1 DEF TakeLease
  <2>3. QED
    BY <1>1, <2>1, <2>2, SettingsAssumption DEF Spared, IInv, TypeOK, Committed
<1>3. CASE r \notin batch
  BY <1>1, <1>3 DEF Spared, TakeLease, IInv, TokenInv, Token
<1>4. QED
  BY <1>2, <1>3

\* The marks of a dispatcher, whichever it sends.
MarksOf(d, S) ==
  \/ MarkDispatched(d, S)
  \/ \E q \in S : \/ MarkUnreadable(d, q)
                   \/ MarkFailed(d, q)
                   \/ \E delay \in RetryDelays : MarkRetry(d, q, delay)

\* A mark changes no row under another dispatcher's claim.
LEMMA MarksSpare ==
  ASSUME IInv, TypeOK', NEW d \in Dispatchers, NEW S \in SUBSET Held(d), MarksOf(d, S),
         NEW e \in Dispatchers \ {d}, NEW r \in Held(e)
  PROVE  Spared(e, r)
<1>1. r \in Rows /\ due[r] \in Int /\ leased[e] \in Int
  BY DEF IInv, TypeOK, Held
<1>2. CASE r \in S /\ Fenced(d, r)
  <2>1. leased[e] <= 0 /\ leased[e] # due[r] /\ leased[e] <= due[r]
    BY <1>2, Rival DEF IInv, TokenInv, Token, Fenced
  <2>2. status'[r] \in Committed /\ (due'[r] = due[r] \/ due'[r] > 0)
    BY <1>1, <1>2, SettingsAssumption
    DEF MarksOf, MarkDispatched, MarkUnreadable, MarkFailed, MarkRetry, Mark, Committed,
        Fenced, IInv, TypeOK
  <2>3. due'[r] \in Int
    BY <1>1 DEF TypeOK
  <2>4. QED
    BY <1>1, <2>1, <2>2, <2>3 DEF Spared
<1>3. CASE ~(r \in S /\ Fenced(d, r))
  <2>1. status'[r] = status[r] /\ attempts'[r] = attempts[r] /\ due'[r] = due[r]
    BY <1>1, <1>3
    DEF MarksOf, MarkDispatched, MarkUnreadable, MarkFailed, MarkRetry, Mark, IInv, TypeOK
  <2>2. QED
    BY <2>1 DEF Spared, IInv, TokenInv, Token
<1>4. QED
  BY <1>2, <1>3

\* A step that leaves the rows alone spares every holder.
LEMMA SameRowsSpare ==
  ASSUME IInv, UNCHANGED rowVars, NEW e \in Dispatchers, NEW r \in Held(e)
  PROVE  Spared(e, r)
BY DEF Spared, IInv, TokenInv, Token

\* Neither a claim nor a mark takes a row out of what is committed, and none
\* but mark_dispatched makes one dispatched.
LEMMA RowsStayCommitted ==
  ASSUME IInv, NEW d \in Dispatchers,
         \/ UNCHANGED rowVars
         \/ \E batch \in SUBSET Rows : TakeLease(batch)
         \/ \E S \in SUBSET Held(d) : MarksOf(d, S)
  PROVE  \A r \in Rows : status[r] \in Committed => status'[r] \in Committed
BY DEF IInv, TypeOK, TakeLease, MarksOf, MarkDispatched, MarkUnreadable, MarkFailed, MarkRetry,
       Mark, Committed

\* A round may end at any point once the other holders' rows are spared.
LEMMA EndRoundInv ==
  ASSUME IInv, TypeOK', NEW d \in Dispatchers,
         NEW next \in {"idle", "waiting", "stopped"}, EndRound(d, next),
         \A e \in Dispatchers \ {d} : \A r \in Held(e) : Spared(e, r),
         \A r \in Rows : status[r] \in Committed => status'[r] \in Committed,
         stored' = stored, late' \subseteq late \cup todo[d], DispatchedIsStored'
  PROVE  IInv'
<1> USE DEF IInv, TypeOK, EndRound, Held
<1>1. \A e \in Dispatchers \ {d} :
        Held(e)' = Held(e) /\ leased'[e] = leased[e] /\ left'[e] = left[e] /\ phase'[e] = phase[e]
  OBVIOUS
<1>2. Held(d)' = {} /\ phase'[d] = next
  OBVIOUS
<1>3. HoldingInv' /\ DeadlineInv'
  BY <1>1, <1>2 DEF HoldingInv, DeadlineInv, Holding
<1>4. TokenInv'
  BY <1>1, <1>2 DEF TokenInv, Token, Spared
<1>5. UniqueInv'
  BY <1>1, <1>2 DEF UniqueInv
<1>6. BrokerInv'
  BY <1>1, <1>2 DEF BrokerInv, TokenInv, Token
<1>7. QED
  BY <1>3, <1>4, <1>5, <1>6

\* A claim that answers starts with a due time no other holder's row has.
LEMMA ClaimInv ==
  ASSUME IInv, TypeOK', NEW d \in Dispatchers, Claim(d)
  PROVE  IInv'
<1> USE DEF IInv, TypeOK, Held
<1>1. PICK batch \in SUBSET Rows :
        /\ Claimable(d, batch)
        /\ TakeLease(batch)
        /\ todo' = [todo EXCEPT ![d] = batch]
        /\ seen' = [seen EXCEPT ![d] = [r \in Rows |-> IF r \in batch THEN attempts[r] ELSE 0]]
  BY DEF Claim
<1>2. /\ phase[d] = "claiming" /\ phase' = [phase EXCEPT ![d] = "reading"]
      /\ leased' = [leased EXCEPT ![d] = Lease]
      /\ UNCHANGED <<left, published, stop, stored, late>>
  BY DEF Claim
<1>3. published[d] = {} /\ Held(d)' = batch
  BY <1>1, <1>2 DEF HoldingInv, Holding
<1>4. ASSUME NEW e \in Dispatchers \ {d}
      PROVE  /\ Held(e)' = Held(e) /\ leased'[e] = leased[e] /\ seen'[e] = seen[e]
             /\ \A r \in Held(e) : Spared(e, r) /\ (r \in batch => leased[e] <= 0)
  <2>1. Held(e)' = Held(e) /\ leased'[e] = leased[e] /\ seen'[e] = seen[e]
    BY <1>1, <1>2
  <2>2. ASSUME NEW r \in Held(e) PROVE Spared(e, r) /\ (r \in batch => leased[e] <= 0)
    <3> HIDE DEF IInv, TypeOK, Held
    <3>1. QED
      BY <1>1, ClaimSpares
  <2>3. QED
    BY <2>1, <2>2
<1>5. HoldingInv' /\ DeadlineInv'
  BY <1>1, <1>2, <1>3 DEF HoldingInv, DeadlineInv, Holding
<1>6. TokenInv'
  <2>1. \A r \in batch : status[r] = "pending"
    BY <1>1, ClaimableIsDue
  <2>2. \A r \in batch : status'[r] = "pending" /\ due'[r] = Lease /\ attempts'[r] = attempts[r]
    BY <1>1, <2>1 DEF TakeLease
  <2>3. \A r \in Held(d)' : Token(d, r)'
    BY <1>1, <1>2, <1>3, <2>2, SettingsAssumption DEF Token, Committed
  <2>4. \A e \in Dispatchers \ {d} : \A r \in Held(e)' : Token(e, r)'
    BY <1>4 DEF Spared, Token
  <2>5. QED
    BY <2>3, <2>4 DEF TokenInv
<1>7. UniqueInv'
  <2>1. ASSUME NEW e \in Dispatchers \ {d}, NEW r \in Held(d)' \cap Held(e)'
        PROVE  leased'[d] # leased'[e]
    <3>1. r \in batch /\ r \in Held(e) /\ leased'[e] = leased[e]
      BY <1>3, <1>4, <2>1
    <3>2. leased[e] <= 0 /\ leased'[d] = Lease
      BY <1>2, <1>4, <3>1
    <3>3. QED
      BY <3>1, <3>2, SettingsAssumption
  <2>2. ASSUME NEW e \in Dispatchers \ {d}, NEW f \in Dispatchers \ {d}, e # f,
               NEW r \in Held(e)' \cap Held(f)'
        PROVE  leased'[e] # leased'[f]
    <3>1. Held(e)' = Held(e) /\ Held(f)' = Held(f) /\ leased'[e] = leased[e] /\ leased'[f] = leased[f]
      BY <1>4
    <3>2. QED
      BY <2>2, <3>1 DEF UniqueInv
  <2>3. SUFFICES ASSUME NEW e \in Dispatchers, NEW f \in Dispatchers, e # f,
                        NEW r \in Held(e)' \cap Held(f)'
                 PROVE  leased'[e] # leased'[f]
    BY DEF UniqueInv
  <2> HIDE DEF IInv, TypeOK, Held
  <2>4. QED
    BY <2>1, <2>2, <2>3
<1>8. BrokerInv'
  BY <1>1, <1>2 DEF BrokerInv, DispatchedIsStored, TakeLease
<1>9. QED
  BY <1>5, <1>6, <1>7, <1>8

\* A row that is marked leaves the round that marked it, and the rest of the
\* round goes on as it was.
LEMMA MarkedRowInv ==
  ASSUME IInv, TypeOK', NEW d \in Dispatchers, NEW q \in todo[d], MarksOf(d, {q}),
         phase[d] \in Holding, phase' = [phase EXCEPT ![d] = phase'[d]], phase'[d] \in Holding,
         todo' = [todo EXCEPT ![d] = @ \ {q}], DispatchedIsStored',
         UNCHANGED <<left, leased, seen, published, stop, stored, late>>
  PROVE  IInv'
<1> USE DEF IInv, TypeOK, Held
<1>1. q \in Held(d) /\ Held(d)' = Held(d) \ {q}
  BY DEF HoldingInv
<1>2. ASSUME NEW e \in Dispatchers \ {d}
      PROVE  phase'[e] = phase[e] /\ Held(e)' = Held(e) /\ \A r \in Held(e) : Spared(e, r)
  <2>1. phase'[e] = phase[e] /\ Held(e)' = Held(e)
    OBVIOUS
  <2>2. ASSUME NEW r \in Held(e) PROVE Spared(e, r)
    <3>1. {q} \in SUBSET Held(d)
      BY <1>1
    <3> HIDE DEF IInv, TypeOK, Held
    <3>2. QED
      BY <3>1, MarksSpare
  <2>3. QED
    BY <2>1, <2>2
<1>3. HoldingInv' /\ DeadlineInv' /\ UniqueInv'
  <2>1. HoldingInv'
    BY <1>1, <1>2 DEF HoldingInv, Holding
  <2>2. DeadlineInv'
    BY <1>1, <1>2 DEF DeadlineInv, Holding
  <2>3. UniqueInv'
    <3>1. \A e \in Dispatchers : Held(e)' \subseteq Held(e)
      BY <1>1, <1>2
    <3>2. QED
      BY <3>1 DEF UniqueInv
  <2>4. QED
    BY <2>1, <2>2, <2>3
<1>4. TokenInv'
  <2>1. \A r \in Rows \ {q} : status'[r] = status[r] /\ due'[r] = due[r] /\ attempts'[r] = attempts[r]
    BY DEF MarksOf, MarkDispatched, MarkUnreadable, MarkFailed, MarkRetry, Mark
  <2>2. \A r \in Held(d)' : Token(d, r)'
    BY <1>1, <2>1 DEF TokenInv, Token
  <2>3. \A e \in Dispatchers \ {d} : \A r \in Held(e)' : Token(e, r)'
    BY <1>2 DEF Spared, Token
  <2>4. QED
    BY <2>2, <2>3 DEF TokenInv
<1>5. BrokerInv'
  <2>1. {q} \in SUBSET Held(d)
    BY <1>1
  <2>2. \A r \in Rows : status[r] \in Committed => status'[r] \in Committed
    <3> HIDE DEF IInv, TypeOK, Held
    <3>1. QED
      BY <2>1, RowsStayCommitted
  <2>3. QED
    BY <2>2 DEF BrokerInv
<1>6. QED
  BY <1>3, <1>4, <1>5

\* The marks that count a failed attempt make no row dispatched.
LEMMA FailureDispatchesNone ==
  ASSUME IInv, NEW d \in Dispatchers, NEW q \in Rows, stored \subseteq stored',
         \/ UNCHANGED rowVars
         \/ \E batch \in SUBSET Rows : TakeLease(batch)
         \/ MarkUnreadable(d, q)
         \/ MarkFailed(d, q)
         \/ \E delay \in RetryDelays : MarkRetry(d, q, delay)
  PROVE  DispatchedIsStored'
BY DEF IInv, TypeOK, BrokerInv, DispatchedIsStored, TakeLease, MarkUnreadable, MarkFailed,
       MarkRetry, Mark

\* mark_dispatched finds its rows with the broker.
LEMMA DispatchInv ==
  ASSUME IInv, NEW d \in Dispatchers, MarkDispatched(d, published[d]), stored' = stored
  PROVE  DispatchedIsStored' /\ MarksOf(d, published[d]) /\ published[d] \subseteq Held(d)
BY DEF IInv, TypeOK, BrokerInv, DispatchedIsStored, MarkDispatched, Mark, MarksOf, Held

\* put_back marks its row in one of the two ways.
LEMMA PutBackMarks ==
  ASSUME NEW d \in Dispatchers, NEW q, PutBackMark(d, q)
  PROVE  \/ MarkFailed(d, q)
         \/ \E delay \in RetryDelays : MarkRetry(d, q, delay)
BY DEF PutBackMark

\* The oldest row to do is one row.
LEMMA HeadIsOne ==
  ASSUME TypeOK, NEW d \in Dispatchers, NEW q \in Head(d)
  PROVE  Head(d) = {q}
<1>1. todo[d] \subseteq Nat
  BY RowsAssumption DEF TypeOK
<1>2. \A r \in Head(d) : r \in Nat /\ r <= q /\ q <= r
  BY <1>1 DEF Head
<1>3. q \in Nat
  BY <1>2
<1>4. \A r \in Head(d) : r = q
  BY <1>2, <1>3
<1>5. QED
  BY <1>4

\* Marking an unreadable row in the loop of claim.
LEMMA ReadInv ==
  ASSUME IInv, TypeOK', NEW d \in Dispatchers, ReadRow(d)
  PROVE  IInv'
<1>1. PICK q \in todo[d] : MarkUnreadable(d, q) /\ todo' = [todo EXCEPT ![d] = @ \ {q}]
  BY DEF ReadRow
<1>2. DispatchedIsStored'
  BY <1>1, FailureDispatchesNone DEF ReadRow, IInv, TypeOK
<1>3. QED
  <2>1. MarksOf(d, {q})
    BY <1>1 DEF MarksOf
  <2>2. /\ phase[d] \in Holding /\ phase' = [phase EXCEPT ![d] = phase'[d]] /\ phase'[d] \in Holding
        /\ UNCHANGED <<left, leased, seen, published, stop, stored, late>>
    BY DEF ReadRow, Holding, IInv, TypeOK
  <2>3. QED
    BY <1>1, <1>2, <2>1, <2>2, MarkedRowInv

\* Putting back the row whose publish failed, answered or not.
LEMMA PutBackInv ==
  ASSUME IInv, TypeOK', NEW d \in Dispatchers, PutBack(d)
  PROVE  IInv'
<1>1. PICK q \in Head(d) : PutBackMark(d, q)
  BY DEF PutBack
<1>2. q \in todo[d] /\ q \in Rows /\ Head(d) = {q}
  BY HeadInTodo, HeadIsOne DEF IInv, TypeOK
<1>3. MarksOf(d, {q})
  BY <1>1, PutBackMarks DEF MarksOf
<1>4. DispatchedIsStored'
  BY <1>1, <1>2, PutBackMarks, FailureDispatchesNone DEF PutBack, LeaveRow
<1>5. phase[d] \in Holding /\ phase' = [phase EXCEPT ![d] = "sending"] /\ phase'[d] \in Holding
  BY DEF PutBack, LeaveRow, IInv, TypeOK, Holding
<1>6. todo' = [todo EXCEPT ![d] = @ \ {q}]
  BY <1>2 DEF PutBack, LeaveRow
<1>7. QED
  BY <1>2, <1>3, <1>4, <1>5, <1>6, MarkedRowInv DEF PutBack, LeaveRow, IInv, TypeOK

\* A publish moves its row from what is to do to what is published.
LEMMA PublishOkInv ==
  ASSUME IInv, TypeOK', NEW d \in Dispatchers, PublishOk(d)
  PROVE  IInv'
<1> USE DEF IInv, TypeOK, Held, PublishOk
<1>1. PICK q \in Head(d) : /\ stored' = stored \cup {q}
                           /\ published' = [published EXCEPT ![d] = @ \cup {q}]
                           /\ todo' = [todo EXCEPT ![d] = @ \ {q}]
  OBVIOUS
<1>2. q \in todo[d]
  BY HeadInTodo
<1>3. \A e \in Dispatchers : Held(e)' = Held(e)
  BY <1>1, <1>2
<1>4. HoldingInv' /\ DeadlineInv'
  BY <1>1, <1>3 DEF HoldingInv, DeadlineInv, Holding
<1>5. TokenInv'
  BY <1>3 DEF TokenInv, Token
<1>6. UniqueInv'
  BY <1>3 DEF UniqueInv
<1>7. BrokerInv'
  <2>1. status[q] \in Committed
    BY <1>2 DEF TokenInv, Token
  <2>2. QED
    BY <1>1, <2>1 DEF BrokerInv, DispatchedIsStored
<1>8. QED
  BY <1>4, <1>5, <1>6, <1>7

\* A step that changes no row and lets go of rows at most.
LEMMA LetGoInv ==
  ASSUME IInv, TypeOK', NEW d \in Dispatchers, NEW next \in Phases,
         phase' = [phase EXCEPT ![d] = next],
         next \in Holding => phase[d] \in Holding,
         next = "claiming" => phase[d] = "idle" /\ left'[d] = Lease,
         phase[d] \in Holding => next \in Holding,
         \A e \in Dispatchers \ {d} : todo'[e] = todo[e] /\ left'[e] = left[e],
         todo'[d] \subseteq todo[d], next \in Holding => left'[d] = left[d],
         late' \subseteq late \cup todo[d],
         UNCHANGED <<rowVars, leased, seen, published, stored>>
  PROVE  IInv'
<1> USE DEF IInv, TypeOK, Held
<1>1. \A e \in Dispatchers : Held(e)' \subseteq Held(e)
  OBVIOUS
<1>2. HoldingInv'
  BY <1>1 DEF HoldingInv, Holding
<1>3. DeadlineInv'
  BY SettingsAssumption DEF DeadlineInv, Holding
<1>4. TokenInv'
  BY <1>1 DEF TokenInv, Token
<1>5. UniqueInv'
  BY <1>1 DEF UniqueInv
<1>6. BrokerInv'
  BY DEF BrokerInv, DispatchedIsStored, TokenInv, Token
<1>7. QED
  BY <1>2, <1>3, <1>4, <1>5, <1>6

\* The steps of a dispatcher that send no statement to the database.
LEMMA RoundInv ==
  ASSUME IInv, TypeOK', NEW d \in Dispatchers,
         \/ StartRound(d) \/ ReadDone(d) \/ Send(d) \/ LeaveLoop(d)
         \/ PublishErr(d) \/ PublishTimeout(d) \/ PutBackFails(d)
         \/ PollElapses(d) \/ EndRun(d)
  PROVE  IInv'
<1> USE LetGoInv, HeadInTodo DEF Phases, InRound, Holding, IInv, TypeOK
<1>1. CASE StartRound(d)
  BY <1>1 DEF StartRound
<1>2. CASE ReadDone(d)
  BY <1>2 DEF ReadDone
<1>3. CASE Send(d)
  BY <1>3 DEF Send
<1>4. CASE LeaveLoop(d)
  BY <1>4 DEF LeaveLoop
<1>5. CASE PublishErr(d)
  BY <1>5 DEF PublishErr
<1>6. CASE PublishTimeout(d)
  BY <1>6 DEF PublishTimeout
<1>7. CASE PutBackFails(d)
  BY <1>7 DEF PutBackFails, LeaveRow
<1>8. CASE PollElapses(d) \/ EndRun(d)
  BY <1>8 DEF PollElapses, EndRun
<1>9. QED
  BY <1>1, <1>2, <1>3, <1>4, <1>5, <1>6, <1>7, <1>8

\* The ends of a round: a failed claim, a marked batch, or the death of the
\* process, with whatever its last statement did.
LEMMA RoundEndInv ==
  ASSUME IInv, TypeOK', NEW d \in Dispatchers,
         ClaimFails(d) \/ ReadFails(d) \/ MarkBatch(d) \/ MarkBatchFails(d) \/ Crash(d)
  PROVE  IInv'
<1> DEFINE Nothing == UNCHANGED rowVars
           Claimed == \E batch \in SUBSET Rows : Claimable(d, batch) /\ TakeLease(batch)
           Unread  == \E q \in todo[d] : MarkUnreadable(d, q)
           Back    == \E q \in todo[d] : PutBackMark(d, q)
           Batch   == MarkDispatched(d, published[d])
<1>1. PICK next \in {"idle", "waiting", "stopped"} : EndRound(d, next)
  BY DEF ClaimFails, ReadFails, MarkBatch, MarkBatchFails, AfterRound, Crash
<1>2. Nothing \/ Claimed \/ Unread \/ Back \/ Batch
  BY HeadInTodo DEF ClaimFails, ReadFails, MarkBatch, MarkBatchFails, Crash
<1>3. stored' = stored /\ late' \subseteq late \cup todo[d]
  BY HeadInTodo DEF ClaimFails, ReadFails, MarkBatch, MarkBatchFails, Crash
<1>4. /\ \A e \in Dispatchers \ {d} : \A r \in Held(e) : Spared(e, r)
      /\ \A r \in Rows : status[r] \in Committed => status'[r] \in Committed
      /\ DispatchedIsStored'
  <2> HIDE DEF Nothing, Claimed, Unread, Back, Batch
  <2>1. CASE Nothing
    BY <1>3, <2>1, SameRowsSpare, RowsStayCommitted DEF Nothing, BrokerInv, IInv, DispatchedIsStored
  <2>2. CASE Claimed
    <3>1. PICK batch \in SUBSET Rows : Claimable(d, batch) /\ TakeLease(batch)
      BY <2>2 DEF Claimed
    <3>2. DispatchedIsStored'
      BY <1>3, <3>1 DEF TakeLease, IInv, BrokerInv, DispatchedIsStored
    <3>3. QED
      BY <3>1, <3>2, ClaimSpares, RowsStayCommitted
  <2>3. CASE Unread \/ Back
    <3>1. PICK q \in todo[d] : \/ MarkUnreadable(d, q)
                               \/ MarkFailed(d, q)
                               \/ \E delay \in RetryDelays : MarkRetry(d, q, delay)
      BY <2>3, PutBackMarks DEF Unread, Back
    <3>2. MarksOf(d, {q}) /\ {q} \in SUBSET Held(d) /\ q \in Rows
      BY <3>1 DEF MarksOf, Held, IInv, TypeOK
    <3>3. DispatchedIsStored'
      BY <1>3, <3>1, <3>2, FailureDispatchesNone
    <3>4. QED
      BY <3>2, <3>3, MarksSpare, RowsStayCommitted
  <2>4. CASE Batch
    <3>1. DispatchedIsStored' /\ MarksOf(d, published[d]) /\ published[d] \in SUBSET Held(d)
      BY <1>3, <2>4, DispatchInv DEF Batch
    <3>2. QED
      BY <3>1, MarksSpare, RowsStayCommitted
  <2>5. QED
    BY <1>2, <2>1, <2>2, <2>3, <2>4
<1>5. QED
  BY <1>1, <1>3, <1>4, EndRoundInv

\* Writers and persons change no row that a dispatcher may still mark.
LEMMA ApplicationInv ==
  ASSUME IInv, TypeOK', NEW q \in Rows, Application(q)
  PROVE  IInv'
<1> USE DEF IInv, TypeOK, Held, Committed, Application, Insert, EndTransaction, SetBack
<1>1. HoldingInv' /\ DeadlineInv' /\ UniqueInv'
  BY DEF HoldingInv, DeadlineInv, UniqueInv
<1>2. TokenInv'
  BY DEF TokenInv, Token
<1>3. BrokerInv'
  BY DEF BrokerInv, DispatchedIsStored
<1>4. QED
  BY <1>1, <1>2, <1>3

\* The broker stores a given-up publish or loses it.
LEMMA BrokerStepInv ==
  ASSUME IInv, TypeOK',
         \/ \E r \in Rows : BrokerStores(r) \/ BrokerLoses(r)
         \/ \E d \in Dispatchers : Stop(d)
  PROVE  IInv'
<1>1. /\ UNCHANGED <<rowVars, roundVars>>
      /\ stored \subseteq stored'
      /\ stored' \cup late' \subseteq stored \cup late
  BY DEF BrokerStores, BrokerLoses, Stop
<1>2. QED
  BY <1>1 DEF IInv, HoldingInv, DeadlineInv, TokenInv, Token, UniqueInv, BrokerInv,
              DispatchedIsStored, Held, Fenced

\* Time brings the due time of a row no nearer than that of its holders.
LEMMA TickInv ==
  ASSUME IInv, TypeOK', Tick
  PROVE  IInv'
<1>1. \A d \in Dispatchers :
        /\ Held(d)' = Held(d) /\ seen'[d] = seen[d] /\ phase'[d] = phase[d]
        /\ left'[d] = IF phase[d] \in InRound THEN left[d] - 1 ELSE 0
        /\ leased'[d] = IF phase[d] \in Holding THEN leased[d] - 1 ELSE 0
  BY DEF IInv, TypeOK, Held, Tick
<1>2. \A d \in Dispatchers : Held(d) # {} => leased'[d] = leased[d] - 1
  BY <1>1 DEF IInv, HoldingInv
<1>3. HoldingInv'
  BY <1>1 DEF IInv, Held, HoldingInv, Tick
<1>4. DeadlineInv'
  BY <1>1, SettingsAssumption DEF IInv, TypeOK, DeadlineInv, InRound, Holding
<1>5. TokenInv'
  <2> SUFFICES ASSUME NEW d \in Dispatchers, NEW r \in Held(d)
               PROVE  Token(d, r)'
    BY <1>1 DEF TokenInv
  <2>1. Token(d, r) /\ leased'[d] = leased[d] - 1 /\ leased[d] \in Int
    BY <1>2 DEF IInv, TypeOK, TokenInv
  <2>2. /\ due[r] \in Int /\ status'[r] = status[r] /\ attempts'[r] = attempts[r]
        /\ due'[r] = IF due[r] > -AgeBound THEN due[r] - 1 ELSE due[r]
    BY DEF IInv, TypeOK, Held, Tick
  <2>3. CASE due[r] > -AgeBound
    BY <1>1, <2>1, <2>2, <2>3 DEF Token
  <2>4. CASE ~(due[r] > -AgeBound)
    BY <1>1, <2>1, <2>2, <2>4, BoundsAssumption DEF Token
  <2>5. QED
    BY <2>3, <2>4
<1>6. UniqueInv'
  <2> SUFFICES ASSUME NEW d \in Dispatchers, NEW e \in Dispatchers, d # e,
                      NEW r \in Held(d) \cap Held(e)
               PROVE  leased'[d] # leased'[e]
    BY <1>1 DEF UniqueInv
  <2>1. leased[d] # leased[e] /\ leased[d] \in Int /\ leased[e] \in Int
    BY DEF IInv, TypeOK, UniqueInv
  <2>2. leased'[d] = leased[d] - 1 /\ leased'[e] = leased[e] - 1
    BY <1>2
  <2>3. QED
    BY <2>1, <2>2
<1>7. BrokerInv'
  BY DEF IInv, TypeOK, BrokerInv, DispatchedIsStored, Tick
<1>8. QED
  BY <1>3, <1>4, <1>5, <1>6, <1>7 DEF IInv

\* Every step keeps the inductive invariant.
LEMMA InvPreserved == IInv /\ [Next]_vars => IInv'
<1> SUFFICES ASSUME IInv, [Next]_vars PROVE IInv'
  OBVIOUS
<1>1. TypeOK'
  BY TypePreserved DEF IInv
<1>2. ASSUME NEW r \in Rows, Application(r) PROVE IInv'
  BY <1>1, <1>2, ApplicationInv
<1>3. ASSUME NEW r \in Rows, BrokerStores(r) \/ BrokerLoses(r) PROVE IInv'
  BY <1>1, <1>3, BrokerStepInv
<1>4. ASSUME NEW d \in Dispatchers, Dispatch(d) PROVE IInv'
  BY <1>1, <1>4, ClaimInv, ReadInv, PublishOkInv, PutBackInv, RoundInv, RoundEndInv DEF Dispatch
<1>5. ASSUME NEW d \in Dispatchers, Stop(d) PROVE IInv'
  BY <1>1, <1>5, BrokerStepInv
<1>6. ASSUME NEW d \in Dispatchers, Crash(d) PROVE IInv'
  BY <1>1, <1>6, RoundEndInv
<1>7. CASE Tick
  BY <1>1, <1>7, TickInv
<1>8. CASE UNCHANGED vars
  BY <1>8 DEF vars, IInv, TypeOK, HoldingInv, DeadlineInv, TokenInv, Token, UniqueInv, BrokerInv,
              DispatchedIsStored, Held, Fenced
<1>9. QED
  BY <1>2, <1>3, <1>4, <1>5, <1>6, <1>7, <1>8 DEF Next

\* The inductive invariant holds in every state of every behaviour.
THEOREM Inductive == Spec => []IInv
<1>1. Init => IInv
  BY DEF Init, IInv, TypeOK, Statuses, Phases, HoldingInv, DeadlineInv, TokenInv, UniqueInv,
         BrokerInv, DispatchedIsStored, Held, Holding
<1>2. QED
  BY <1>1, InvPreserved, PTL DEF Spec

-------------------------------------------------------------------------------
(* The properties *)

\* A row marked dispatched is with the broker.
THEOREM Dispatched == Spec => []DispatchedIsStored
<1>1. IInv => DispatchedIsStored
  BY DEF IInv, BrokerInv
<1>2. QED
  BY <1>1, Inductive, PTL

\* What may reach the broker was committed.
THEOREM Committing == Spec => []OnlyCommittedIsSent
<1>1. IInv => OnlyCommittedIsSent
  BY HeadInTodo DEF IInv, TypeOK, BrokerInv, TokenInv, Token, Held, OnlyCommittedIsSent, Sent
<1>2. QED
  BY <1>1, Inductive, PTL

\* Two dispatchers never work on one row within their leases.
THEOREM Exclusive == Spec => []LeaseExclusive
<1>1. IInv => LeaseExclusive
  <2> SUFFICES ASSUME IInv, NEW d \in Dispatchers, NEW e \in Dispatchers, d # e,
                      left[d] > 0, left[e] > 0, NEW r \in Held(d) \cap Held(e)
               PROVE  FALSE
    BY DEF LeaseExclusive
  <2>1. phase[d] \in Holding /\ phase[e] \in Holding
    BY DEF IInv, HoldingInv
  <2>2. leased[d] > 0 /\ leased[e] > 0
    BY <2>1 DEF IInv, TypeOK, DeadlineInv
  <2>3. leased[d] = due[r] /\ leased[e] = due[r]
    BY <2>2 DEF IInv, TokenInv, Token
  <2>4. QED
    BY <2>3 DEF IInv, UniqueInv
<1>2. QED
  BY <1>1, Inductive, PTL

\* What the steps of another dispatcher do to a row under d's claim.
LEMMA OthersDoNotOverwrite ==
  ASSUME IInv, NEW d \in Dispatchers, NEW r \in Held(d), Fenced(d, r),
         NEW e \in Dispatchers \ {d}, Dispatch(e) \/ Crash(e)
  PROVE  /\ status'[r] = status[r]
         /\ attempts'[r] = attempts[r]
         /\ due[r] > 0 => due'[r] <= due[r]
<1>1. r \in Rows /\ due[r] \in Int
  BY DEF IInv, TypeOK, Held
<1>2. \/ UNCHANGED rowVars
      \/ \E batch \in SUBSET Rows : Claimable(e, batch) /\ TakeLease(batch)
      \/ \E S \in SUBSET Held(e) : MarksOf(e, S)
  <2>1. CASE ReadRow(e) \/ ReadFails(e)
    BY <2>1 DEF ReadRow, ReadFails, MarksOf, Held, IInv, TypeOK
  <2>2. CASE PutBack(e) \/ Crash(e)
    <3>1. CASE \E q \in Head(e) : PutBackMark(e, q)
      BY <3>1, PutBackMarks, HeadInTodo DEF MarksOf, Held, IInv, TypeOK
    <3>2. CASE ~ \E q \in Head(e) : PutBackMark(e, q)
      BY <2>2, <3>2 DEF PutBack, Crash, MarksOf, Held, IInv, TypeOK
    <3>3. QED
      BY <3>1, <3>2
  <2>3. CASE MarkBatch(e)
    BY <2>3 DEF MarkBatch, MarksOf, Held, IInv, TypeOK
  <2>4. CASE Claim(e) \/ ClaimFails(e)
    BY <2>4 DEF Claim, ClaimFails
  <2>5. QED
    BY <2>1, <2>2, <2>3, <2>4
    DEF Dispatch, StartRound, ReadDone, Send, LeaveLoop, PublishOk, PublishErr, PublishTimeout,
        PutBackFails, LeaveRow, MarkBatchFails, PollElapses, EndRun
<1>3. CASE UNCHANGED rowVars
  BY <1>1, <1>3
<1>4. CASE \E batch \in SUBSET Rows : Claimable(e, batch) /\ TakeLease(batch)
  BY <1>1, <1>4, ClaimableIsDue DEF TakeLease
<1>5. CASE \E S \in SUBSET Held(e) : MarksOf(e, S)
  <2>1. PICK S \in SUBSET Held(e) : MarksOf(e, S)
    BY <1>5
  <2>2. ~(r \in S /\ Fenced(e, r))
    BY <2>1, Rival DEF Held
  <2>3. QED
    BY <1>1, <2>1, <2>2
    DEF MarksOf, MarkDispatched, MarkUnreadable, MarkFailed, MarkRetry, Mark, IInv, TypeOK
<1>6. QED
  BY <1>2, <1>3, <1>4, <1>5

\* The holder's own statements always move its round on.
LEMMA OwnStepsMoveOn ==
  ASSUME IInv, NEW d \in Dispatchers, Dispatch(d) \/ Crash(d)
  PROVE  UNCHANGED rowVars \/ todo'[d] # todo[d] \/ phase'[d] # phase[d]
<1> USE DEF IInv, TypeOK
<1>1. CASE Claim(d) \/ ClaimFails(d) \/ ReadFails(d) \/ PutBack(d) \/ MarkBatch(d) \/ Crash(d)
  BY <1>1 DEF Claim, ClaimFails, ReadFails, PutBack, LeaveRow, MarkBatch, AfterRound, Crash, EndRound
<1>2. CASE ReadRow(d)
  BY <1>2 DEF ReadRow
<1>3. QED
  BY <1>1, <1>2
  DEF Dispatch, StartRound, ReadDone, Send, LeaveLoop, PublishOk, PublishErr, PublishTimeout,
      PutBackFails, LeaveRow, MarkBatchFails, PollElapses, EndRun

\* No mark overwrites a newer claim.
THEOREM NotOverwritten == Spec => NoOverwrite
<1>1. IInv /\ [Next]_vars => [HeldLeftAlone]_vars
  <2> SUFFICES ASSUME IInv, [Next]_vars, NEW d \in Dispatchers, NEW r \in Held(d),
                      Fenced(d, r), todo'[d] = todo[d], phase'[d] = phase[d]
               PROVE  /\ status'[r] = status[r]
                      /\ attempts'[r] = attempts[r]
                      /\ due[r] > 0 => due'[r] <= due[r]
    BY DEF HeldLeftAlone, LeavesAlone
  <2>0. r \in Rows /\ status[r] = "pending" /\ due[r] \in Int
    BY DEF IInv, TypeOK, Held, Fenced
  <2>1. ASSUME NEW q \in Rows, Application(q)
        PROVE  UNCHANGED <<status[r], attempts[r], due[r]>>
    BY <2>0, <2>1 DEF Application, Insert, EndTransaction, SetBack, IInv, TypeOK
  <2>2. ASSUME NEW e \in Dispatchers, Dispatch(e) \/ Crash(e)
        PROVE  /\ status'[r] = status[r]
               /\ attempts'[r] = attempts[r]
               /\ due[r] > 0 => due'[r] <= due[r]
    BY <2>0, <2>2, OthersDoNotOverwrite, OwnStepsMoveOn
  <2>3. ASSUME \/ UNCHANGED vars
               \/ \E q \in Rows : BrokerStores(q) \/ BrokerLoses(q)
               \/ \E e \in Dispatchers : Stop(e)
        PROVE  UNCHANGED <<status[r], attempts[r], due[r]>>
    BY <2>3 DEF vars, BrokerStores, BrokerLoses, Stop
  <2>4. ASSUME Tick
        PROVE  status'[r] = status[r] /\ attempts'[r] = attempts[r] /\ due'[r] <= due[r]
    BY <2>0, <2>4 DEF Tick
  <2>5. QED
    BY <2>0, <2>1, <2>2, <2>3, <2>4 DEF Next
<1>2. QED
  BY <1>1, Inductive, PTL DEF Spec, NoOverwrite

\* A readable row is failed by the attempt that uses up the policy's, and by
\* no other.
THEOREM AttemptsCounted == Spec => AttemptsDecide
<1>1. IInv /\ [Next]_vars => [AllCountAttempts]_vars
  <2> SUFFICES ASSUME IInv, [Next]_vars, NEW r \in Rows, attempts'[r] # attempts[r]
               PROVE  /\ attempts'[r] = attempts[r] + 1
                      /\ r \notin Unreadable => ((status'[r] = "failed") <=> (attempts'[r] >= Attempts))
    BY DEF AllCountAttempts, CountsAttempt
  <2> USE DEF IInv, TypeOK
  <2>1. PICK d \in Dispatchers : Dispatch(d) \/ Crash(d)
    BY DEF Next, vars, Application, Insert, EndTransaction, SetBack, BrokerStores, BrokerLoses,
           Stop, Tick
  <2>2. \/ \E q \in todo[d] \cap Unreadable : MarkUnreadable(d, q)
        \/ \E q \in Head(d) : PutBackMark(d, q)
    BY <2>1 DEF Dispatch, StartRound, Claim, ClaimFails, TakeLease, ReadRow, ReadFails, ReadDone,
                Send, LeaveLoop, PublishOk, PublishErr, PublishTimeout, PutBack, PutBackFails,
                LeaveRow, MarkBatch, MarkBatchFails, MarkDispatched, Mark, PollElapses, EndRun, Crash
  <2>3. CASE \E q \in todo[d] \cap Unreadable : MarkUnreadable(d, q)
    BY <2>3 DEF MarkUnreadable, Mark
  <2>4. CASE \E q \in Head(d) : PutBackMark(d, q)
    <3>1. PICK q \in Head(d) : PutBackMark(d, q)
      BY <2>4
    <3>2. q \in Held(d) /\ (MarkFailed(d, q) \/ \E delay \in RetryDelays : MarkRetry(d, q, delay))
      BY <3>1, HeadInTodo, PutBackMarks DEF Held
    <3>3. /\ q = r /\ Fenced(d, r) /\ attempts'[r] = attempts[r] + 1
          /\ MarkFailed(d, r) => status'[r] = "failed"
          /\ (\E delay \in RetryDelays : MarkRetry(d, r, delay)) => status'[r] = "pending"
      BY <3>2 DEF MarkFailed, MarkRetry, Mark
    <3>4. seen[d][r] = attempts[r]
      BY <3>2, <3>3 DEF TokenInv, Token, Fenced
    <3>5. QED
      BY <3>1, <3>3, <3>4, SettingsAssumption DEF PutBackMark
  <2>5. QED
    BY <2>2, <2>3, <2>4
<1>2. QED
  BY <1>1, Inductive, PTL DEF Spec, AttemptsDecide

-------------------------------------------------------------------------------
(* The outbox keeps its promise *)

\* What each status means.
LEMMA Outcomes ==
  /\ OutcomeOf("absent") = "undecided" /\ OutcomeOf("open") = "undecided"
  /\ OutcomeOf("rolledback") = "void" /\ OutcomeOf("pending") = "owed"
  /\ OutcomeOf("dispatched") = "done" /\ OutcomeOf("failed") = "given up"
BY DEF OutcomeOf

\* The outcome of one row moves with its status.
LEMMA OutcomeMoves ==
  ASSUME TypeOK, NEW q \in Rows, NEW column, status' = [status EXCEPT ![q] = column]
  PROVE  /\ outcome[q] = OutcomeOf(status[q])
         /\ outcome' = [outcome EXCEPT ![q] = OutcomeOf(column)]
BY DEF TypeOK, outcome

\* A statement of a dispatcher changes what becomes of the rows in one of four
\* ways: of none, of one that is given up, or of a batch that is done.
LEMMA StatementKeepsPromise ==
  ASSUME IInv, NEW d \in Dispatchers, stored' = stored,
         \/ UNCHANGED rowVars
         \/ \E batch \in SUBSET Rows : TakeLease(batch)
         \/ \E q \in todo[d] : MarkUnreadable(d, q) \/ PutBackMark(d, q)
         \/ MarkDispatched(d, published[d])
  PROVE  [Promise!Next]_<<outcome, stored>>
<1> USE DEF IInv
<1>1. CASE UNCHANGED status
  BY <1>1 DEF outcome
<1>2. CASE \E q \in todo[d] : MarkUnreadable(d, q) \/ PutBackMark(d, q)
  <2>1. PICK q \in todo[d] : \/ Mark(d, {q}, "failed", 1)
                             \/ Mark(d, {q}, "pending", 1)
    BY <1>2, PutBackMarks DEF MarkUnreadable, MarkFailed, MarkRetry
  <2>2. q \in Rows
    BY DEF TypeOK
  <2>3. CASE ~Fenced(d, q) \/ Mark(d, {q}, "pending", 1)
    <3>1. UNCHANGED status
      BY <2>1, <2>2, <2>3 DEF Mark, Fenced, TypeOK
    <3>2. QED
      BY <3>1 DEF outcome
  <2>4. CASE Fenced(d, q) /\ Mark(d, {q}, "failed", 1)
    <3>1. status[q] = "pending" /\ status' = [status EXCEPT ![q] = "failed"]
      BY <2>2, <2>4 DEF Mark, Fenced, TypeOK
    <3>2. Promise!GiveUp(q)
      <4>1. outcome[q] = OutcomeOf("pending") /\ outcome' = [outcome EXCEPT ![q] = OutcomeOf("failed")]
        BY <2>2, <3>1, OutcomeMoves
      <4>2. outcome[q] = "owed" /\ outcome' = [outcome EXCEPT ![q] = "given up"]
        BY <4>1, Outcomes
      <4>3. QED
        BY <4>2 DEF Promise!GiveUp, Promise!Becomes
    <3>3. QED
      BY <2>2, <3>2 DEF Promise!Next
  <2>5. QED
    BY <2>1, <2>3, <2>4
<1>3. CASE MarkDispatched(d, published[d])
  <2> DEFINE S == {r \in published[d] : Fenced(d, r)}
  <2>1. status' = [r \in Rows |-> IF r \in S THEN "dispatched" ELSE status[r]]
    BY <1>3 DEF MarkDispatched, Mark
  <2>2. S \subseteq Rows /\ S \subseteq stored /\ \A r \in S : status[r] = "pending"
    BY DEF BrokerInv, Fenced, TypeOK
  <2> HIDE DEF S
  <2>3. outcome' = [r \in Rows |-> IF r \in S THEN "done" ELSE outcome[r]]
    BY <2>1, Outcomes DEF outcome
  <2>4. \A r \in S : outcome[r] = "owed"
    BY <2>2, Outcomes DEF outcome
  <2>5. Promise!Finish(S)
    BY <2>2, <2>3, <2>4 DEF Promise!Finish
  <2>6. S \in SUBSET Rows
    BY <2>2
  <2>7. QED
    BY <2>5, <2>6 DEF Promise!Next
<1>4. QED
  BY <1>1, <1>2, <1>3 DEF TakeLease

\* What the broker stores was committed.
LEMMA DeliveryKeepsPromise ==
  ASSUME IInv, NEW q \in Rows, stored' = stored \cup {q}, status' = status,
         status[q] \in Committed
  PROVE  [Promise!Next]_<<outcome, stored>>
<1>1. outcome[q] \in {"owed", "done", "given up"}
  BY Outcomes DEF outcome, Committed
<1>2. UNCHANGED outcome
  BY DEF outcome
<1>3. Promise!Deliver(q)
  BY <1>1, <1>2 DEF Promise!Deliver
<1>4. QED
  BY <1>3 DEF Promise!Next

\* The outbox implements what it promises: every step of its writers,
\* dispatchers and broker is a step of OutboxPromise or changes nothing of it.
THEOREM Implements == Spec => KeepsPromise
<1>1. Init => Promise!Init
  <2> SUFFICES ASSUME Init PROVE Promise!Init
    OBVIOUS
  <2>1. \A r \in Rows : OutcomeOf(status[r]) = "undecided"
    BY Outcomes DEF Init
  <2>2. QED
    BY <2>1 DEF Init, Promise!Init, outcome
<1>2. IInv /\ [Next]_vars => [Promise!Next]_<<outcome, stored>>
  <2> SUFFICES ASSUME IInv, [Next]_vars PROVE [Promise!Next]_<<outcome, stored>>
    OBVIOUS
  <2>1. ASSUME NEW r \in Rows, Application(r) PROVE [Promise!Next]_<<outcome, stored>>
    <3>1. CASE Insert(r)
      <4>1. status[r] = "absent" /\ status' = [status EXCEPT ![r] = "open"] /\ stored' = stored
        BY <3>1 DEF Insert
      <4>2. outcome' = [outcome EXCEPT ![r] = "undecided"] /\ outcome[r] = "undecided"
        <5>1. outcome[r] = OutcomeOf("absent") /\ outcome' = [outcome EXCEPT ![r] = OutcomeOf("open")]
          BY <4>1, OutcomeMoves DEF IInv
        <5>2. QED
          BY <5>1, Outcomes
      <4>3. UNCHANGED outcome
        BY <4>2 DEF outcome
      <4>4. QED
        BY <4>1, <4>3
    <3>2. CASE EndTransaction(r)
      <4>1. Promise!Decide(r)
        <5>1. PICK end \in {"pending", "rolledback"} : status' = [status EXCEPT ![r] = end]
          BY <3>2 DEF EndTransaction
        <5>2. status[r] = "open" /\ UNCHANGED stored
          BY <3>2 DEF EndTransaction
        <5>3. outcome[r] = "undecided" /\ outcome' = [outcome EXCEPT ![r] = OutcomeOf(end)]
          <6>1. outcome[r] = OutcomeOf("open") /\ outcome' = [outcome EXCEPT ![r] = OutcomeOf(end)]
            BY <5>1, <5>2, OutcomeMoves DEF IInv
          <6>2. QED
            BY <6>1, Outcomes
        <5>4. OutcomeOf(end) \in {"owed", "void"}
          BY <5>1, Outcomes
        <5>5. QED
          BY <5>2, <5>3, <5>4 DEF Promise!Decide, Promise!Becomes
      <4>2. QED
        BY <4>1 DEF Promise!Next
    <3>3. CASE SetBack(r)
      <4>1. Promise!TakeUp(r)
        <5>1. /\ status[r] = "failed" /\ status' = [status EXCEPT ![r] = "pending"]
              /\ UNCHANGED stored
          BY <3>3 DEF SetBack
        <5>2. /\ outcome[r] = OutcomeOf("failed")
              /\ outcome' = [outcome EXCEPT ![r] = OutcomeOf("pending")]
          BY <5>1, OutcomeMoves DEF IInv
        <5>3. outcome[r] = "given up" /\ outcome' = [outcome EXCEPT ![r] = "owed"]
          BY <5>2, Outcomes
        <5>4. QED
          BY <5>1, <5>3 DEF Promise!TakeUp, Promise!Becomes
      <4>2. QED
        BY <4>1 DEF Promise!Next
    <3>4. QED
      BY <2>1, <3>1, <3>2, <3>3 DEF Application
  <2>2. ASSUME NEW r \in Rows, BrokerStores(r) PROVE [Promise!Next]_<<outcome, stored>>
    BY <2>2, DeliveryKeepsPromise DEF BrokerStores, IInv, BrokerInv
  <2>3. ASSUME NEW d \in Dispatchers, PublishOk(d) PROVE [Promise!Next]_<<outcome, stored>>
    <3>1. PICK q \in Head(d) : stored' = stored \cup {q}
      BY <2>3 DEF PublishOk
    <3>2. q \in Rows /\ status[q] \in Committed
      BY HeadInTodo DEF IInv, TypeOK, TokenInv, Token, Held
    <3>3. QED
      BY <2>3, <3>1, <3>2, DeliveryKeepsPromise DEF PublishOk
  <2>4. ASSUME NEW d \in Dispatchers, Dispatch(d) \/ Crash(d), ~PublishOk(d)
        PROVE  [Promise!Next]_<<outcome, stored>>
    <3>1. /\ stored' = stored
          /\ \/ UNCHANGED rowVars
             \/ \E batch \in SUBSET Rows : TakeLease(batch)
             \/ \E q \in todo[d] : MarkUnreadable(d, q) \/ PutBackMark(d, q)
             \/ MarkDispatched(d, published[d])
      BY <2>4, HeadInTodo
      DEF Dispatch, StartRound, Claim, ClaimFails, ReadRow, ReadFails, ReadDone, Send, LeaveLoop,
          PublishErr, PublishTimeout, PutBack, PutBackFails, LeaveRow, MarkBatch, MarkBatchFails,
          PollElapses, EndRun, Crash
    <3>2. QED
      BY <3>1, StatementKeepsPromise
  <2>5. ASSUME \/ UNCHANGED vars
               \/ Tick
               \/ \E r \in Rows : BrokerLoses(r)
               \/ \E d \in Dispatchers : Stop(d)
        PROVE  [Promise!Next]_<<outcome, stored>>
    <3>1. UNCHANGED <<status, stored>>
      BY <2>5 DEF vars, Tick, BrokerLoses, Stop
    <3>2. QED
      BY <3>1 DEF outcome
  <2>6. QED
    BY <2>1, <2>2, <2>3, <2>4, <2>5 DEF Next
<1>3. QED
  BY <1>1, <1>2, Inductive, PTL DEF Spec, KeepsPromise, Promise!Spec, Promise!vars

===============================================================================
