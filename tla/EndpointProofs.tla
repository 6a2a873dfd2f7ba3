---------------------------- MODULE EndpointProofs -----------------------------
(***************************************************************************)
(* What holds of Endpoint for any messages, copies, instances, handlers    *)
(* and attempts, with an inbox and without.                                *)
(***************************************************************************)
EXTENDS Endpoint, TLAPS

USE DEF brokerVars, dbVars, workerVars

-------------------------------------------------------------------------------
(* Type correctness *)

\* The last attempt is a number, 1 at least.
LEMMA LastAttemptType == LastAttempt \in Nat \ {0}
BY OptionsAssumption DEF LastAttempt

\* A busy worker handles a message.
LEMMA MessageType ==
  ASSUME TypeOK, JobInv, NEW w \in Workers, Busy(w)
  PROVE  job[w] \in Copies /\ Message(w) \in Messages
BY CopiesAssumption DEF JobInv, Message

\* Letting go of a delivery, committing, settling and sending keep the types.
LEMMA HelperTypes ==
  ASSUME TypeOK, JobInv
  PROVE  /\ \A w \in Workers : Rest(w) =>
              /\ step' \in [Workers -> Steps]
              /\ job' \in [Workers -> Copies \cup {None}]
              /\ attempt' \in [Workers -> 0..LastAttempt]
              /\ broken' \in [Workers -> BOOLEAN]
              /\ held' \in [Workers -> 0..Publishes]
              /\ JobInv'
         /\ \A m \in Messages : Count(m) => work' \in [Messages -> 0..2]
         /\ \A c \in Copies, end \in {"acked", "rejected"} :
              Settle(c, end) => copy' \in [Copies -> {"waiting", "out", "acked", "rejected"}]
         /\ \A w \in Workers : (Busy(w) /\ held[w] > 0 /\ NextPublish(w))
              => sent' \in [Messages -> 0..Publishes]
<1>1. ASSUME NEW w \in Workers, Rest(w)
      PROVE  /\ step' \in [Workers -> Steps]
             /\ job' \in [Workers -> Copies \cup {None}]
             /\ attempt' \in [Workers -> 0..LastAttempt]
             /\ broken' \in [Workers -> BOOLEAN]
             /\ held' \in [Workers -> 0..Publishes]
             /\ JobInv'
  <2>1. step' \in [Workers -> Steps] /\ job' \in [Workers -> Copies \cup {None}] /\ JobInv'
    BY <1>1 DEF TypeOK, Rest, Goes, Steps, JobInv, Busy
  <2>2. attempt' \in [Workers -> 0..LastAttempt] /\ broken' \in [Workers -> BOOLEAN]
    BY <1>1, LastAttemptType DEF TypeOK, Rest
  <2>3. held' \in [Workers -> 0..Publishes]
    BY <1>1, OptionsAssumption DEF TypeOK, Rest
  <2>4. QED
    BY <2>1, <2>2, <2>3
<1>2. ASSUME NEW m \in Messages, Count(m) PROVE work' \in [Messages -> 0..2]
  BY <1>2 DEF TypeOK, Count
<1>3. ASSUME NEW c \in Copies, NEW end \in {"acked", "rejected"}, Settle(c, end)
      PROVE  copy' \in [Copies -> {"waiting", "out", "acked", "rejected"}]
  BY <1>3 DEF TypeOK, Settle
<1>4. ASSUME NEW w \in Workers, Busy(w), held[w] > 0, NextPublish(w)
      PROVE  sent' \in [Messages -> 0..Publishes]
  <2>1. Publishes - held[w] + 1 \in 0..Publishes
    BY <1>4, OptionsAssumption DEF TypeOK
  <2>2. QED
    BY <1>4, <2>1, MessageType DEF TypeOK, NextPublish
<1>5. QED
  BY <1>1, <1>2, <1>3, <1>4

\* The number of the next delivery is one of an attempt.
LEMMA NextAttempt ==
  \A d \in 0..LastAttempt :
    (IF d < LastAttempt THEN d + 1 ELSE LastAttempt) \in 0..LastAttempt
<1>1. LastAttempt \in Nat
  BY LastAttemptType
<1>2. QED
  BY <1>1

\* What a worker holds stays a number of publishes when it is cleared or counted
\* down.
LEMMA HeldType ==
  ASSUME TypeOK, NEW w \in Workers
  PROVE  /\ [held EXCEPT ![w] = Publishes] \in [Workers -> 0..Publishes]
         /\ [held EXCEPT ![w] = IF Outbox THEN 0 ELSE @] \in [Workers -> 0..Publishes]
         /\ held[w] > 0 => [held EXCEPT ![w] = @ - 1] \in [Workers -> 0..Publishes]
<1>1. held \in [Workers -> 0..Publishes] /\ held[w] \in 0..Publishes /\ Publishes \in Nat
  BY OptionsAssumption DEF TypeOK
<1>2. (IF Outbox THEN 0 ELSE held[w]) \in 0..Publishes
  BY <1>1
<1>3. held[w] > 0 => held[w] - 1 \in 0..Publishes
  BY <1>1
<1>4. QED
  BY <1>1, <1>2, <1>3

\* Every variable keeps its type; a busy worker has a copy in hand.
LEMMA TypePreserved == TypeOK /\ JobInv /\ [Next]_vars => TypeOK' /\ JobInv'
<1> SUFFICES ASSUME TypeOK, JobInv, [Next]_vars PROVE TypeOK' /\ JobInv'
  OBVIOUS
<1> USE OptionsAssumption, LastAttemptType, MessageType
    DEF TypeOK, JobInv, Busy, Steps, InTransaction, Goes
<1>1. ASSUME NEW w \in Workers, NEW c \in Copies, Receive(w, c) PROVE TypeOK' /\ JobInv'
  <2> DEFINE n == IF deliveries[c] < LastAttempt THEN deliveries[c] + 1 ELSE LastAttempt
  <2>1. n \in 0..LastAttempt
    BY NextAttempt
  <2>2. /\ deliveries' = [deliveries EXCEPT ![c] = n]
        /\ attempt' = [attempt EXCEPT ![w] = n]
    BY <1>1 DEF Receive
  <2> HIDE DEF n
  <2>3. deliveries' \in [Copies -> 0..LastAttempt] /\ attempt' \in [Workers -> 0..LastAttempt]
    BY <2>1, <2>2
  <2>4. QED
    BY <1>1, <2>3 DEF Receive
<1>2. ASSUME NEW w \in Workers, Process(w) PROVE TypeOK' /\ JobInv'
  <2>1. CASE NoHandler(w) \/ Start(w) \/ BeginFails(w) \/ Skip(w)
    BY <2>1 DEF NoHandler, Start, BeginFails, Skip, AfterFailure
  <2>2. CASE Record(w)
    BY <2>2 DEF Record
  <2>3. CASE CallOk(w)
    <3>1. held' \in [Workers -> 0..Publishes]
      BY <2>3, HeldType DEF CallOk
    <3>2. work' \in [Messages -> 0..2] /\ broken' \in [Workers -> BOOLEAN]
      BY <2>3, HelperTypes DEF CallOk
    <3>3. step' \in [Workers -> Steps] /\ \A v \in Workers : Busy(v)' => Busy(v)
      BY <2>3 DEF CallOk
    <3>4. QED
      BY <2>3, <3>1, <3>2, <3>3 DEF CallOk
  <2>4. CASE CallFails(w) \/ WriteFails(w)
    BY <2>4 DEF CallFails, WriteFails, DropTransaction, AfterFailure
  <2>5. CASE Write(w)
    <3>1. held' \in [Workers -> 0..Publishes]
      BY <2>5, HeldType DEF Write
    <3>2. QED
      BY <2>5, <3>1 DEF Write
  <2>6. CASE Commit(w)
    BY <2>6, HelperTypes DEF Commit, CommitAll
  <2>7. CASE CommitFails(w)
    BY <2>7 DEF CommitFails, DropTransaction, AfterFailure
  <2>8. CASE Send(w)
    <3>1. sent' \in [Messages -> 0..Publishes]
      BY <2>8, HelperTypes DEF Send
    <3>2. held' \in [Workers -> 0..Publishes]
      BY <2>8, HeldType DEF Send
    <3>3. QED
      BY <2>8, <3>1, <3>2 DEF Send
  <2>9. CASE SendFails(w)
    BY <2>9, HelperTypes DEF SendFails, AfterFailure
  <2>10. CASE Ack(w) \/ Reject(w)
    BY <2>10, HelperTypes DEF Ack, Reject
  <2>11. CASE Retry(w) \/ SettleFails(w)
    BY <2>11, HelperTypes DEF Retry, SettleFails
  <2>12. CASE GiveUp(w) \/ GiveUpFails(w)
    BY <2>12 DEF GiveUp, GiveUpFails
  <2>13. QED
    BY <1>2, <2>1, <2>2, <2>3, <2>4, <2>5, <2>6, <2>7, <2>8, <2>9, <2>10, <2>11, <2>12 DEF Process
<1>3. ASSUME NEW w \in Workers, RecordFails(w) PROVE TypeOK' /\ JobInv'
  BY <1>3 DEF RecordFails, AfterFailure
<1>4. ASSUME NEW w \in Workers, LeaveLoop(w) PROVE TypeOK' /\ JobInv'
  BY <1>4 DEF LeaveLoop
<1>5. ASSUME NEW w \in Workers, Crash(w) PROVE TypeOK' /\ JobInv'
  BY <1>5, HelperTypes DEF Crash, DropTransaction
<1>6. ASSUME NEW c \in Copies, AckExpires(c) PROVE TypeOK' /\ JobInv'
  BY <1>6 DEF AckExpires
<1>7. ASSUME NEW m \in Messages, Resolve(m) PROVE TypeOK' /\ JobInv'
  BY <1>7, HelperTypes DEF Resolve, CommitAll
<1>8. CASE UNCHANGED vars
  BY <1>8 DEF vars
<1>9. QED
  BY <1>1, <1>2, <1>3, <1>4, <1>5, <1>6, <1>7, <1>8 DEF Next

\* The variables have their types in every state of every behaviour.
THEOREM TypeCorrect == Spec => []TypeOK
<1>1. Init => TypeOK /\ JobInv
  BY OptionsAssumption, LastAttemptType DEF Init, TypeOK, JobInv, Busy, Steps
<1>2. QED
  BY <1>1, TypePreserved, PTL DEF Spec

-------------------------------------------------------------------------------
(* The transaction *)

\* A worker outside its transaction, whose receipt is at most let go of,
\* disturbs no other's.
LEMMA Outside ==
  ASSUME TypeOK, JobInv, TransactionInv, WorkOnceAndWhole, NEW w \in Workers,
         \A v \in Workers \ {w} : step'[v] = step[v] /\ job'[v] = job[v],
         step'[w] \notin InTransaction \cup {"recording", "skipping"},
         \A m \in Messages : holder'[m] # holder[m] => holder[m] = w,
         UNCHANGED <<receipts, work, outbox>>
  PROVE  TransactionInv' /\ WorkOnceAndWhole'
<1>1. WorkOnceAndWhole'
  BY DEF WorkOnceAndWhole
<1>2. \A v \in Workers : step'[v] \in InTransaction \cup {"recording", "skipping"}
        => v # w /\ step'[v] = step[v] /\ Message(v)' = Message(v) /\ Message(v) \in Messages
  BY MessageType DEF InTransaction, Message, Busy
<1>3. \A v \in Workers : (Inbox /\ step'[v] \in InTransaction) => holder'[Message(v)'] = v
  BY <1>2 DEF TransactionInv
<1>4. \A m \in Messages : holder'[m] # "none" => m \notin receipts'
  <2>1. w # "none"
    BY CopiesAssumption
  <2>2. QED
    BY <2>1 DEF TransactionInv
<1>5. QED
  BY <1>1, <1>2, <1>3, <1>4 DEF TransactionInv, InTransaction

\* Letting go of the receipt touches no one else's.
LEMMA DropOutside ==
  ASSUME TypeOK, NEW w \in Workers, DropTransaction(w)
  PROVE  \A m \in Messages : holder'[m] # holder[m] => holder[m] = w
BY DEF DropTransaction, TypeOK

\* A worker that stays in its transaction disturbs nothing.
LEMMA Inside ==
  ASSUME TypeOK, JobInv, TransactionInv, WorkOnceAndWhole, NEW w \in Workers, Inbox,
         step[w] \in InTransaction, NEW next \in InTransaction, Goes(w, next),
         UNCHANGED <<job, holder, receipts, work, outbox>>
  PROVE  TransactionInv' /\ WorkOnceAndWhole'
BY DEF TypeOK, TransactionInv, WorkOnceAndWhole, InTransaction, Goes, Message

\* The commit of a receipt that is held, by a worker that then leaves its
\* transaction, or by the database.
LEMMA CommitKeeps ==
  ASSUME TypeOK, JobInv, TransactionInv, WorkOnceAndWhole, NEW m \in Messages,
         CommitAll(m), Inbox, holder[m] # "none", UNCHANGED job,
         \A v \in Workers : step'[v] \in InTransaction \cup {"recording", "skipping"}
           => step'[v] = step[v],
         \A v \in Workers : holder[m] = v => step'[v] \notin InTransaction
  PROVE  TransactionInv' /\ WorkOnceAndWhole'
<1>1. m \notin receipts /\ work[m] = 0
  BY DEF TransactionInv, WorkOnceAndWhole
<1>2. /\ receipts' = receipts \cup {m}
      /\ work' = [work EXCEPT ![m] = 1]
      /\ outbox' = IF Outbox THEN outbox \cup {m} ELSE outbox
      /\ holder' = [holder EXCEPT ![m] = "none"]
  BY <1>1 DEF CommitAll, Count, TypeOK
<1>3. WorkOnceAndWhole'
  BY <1>1, <1>2 DEF WorkOnceAndWhole, TypeOK
<1>4. \A v \in Workers : step'[v] \in InTransaction \cup {"recording", "skipping"}
        => step'[v] = step[v] /\ Message(v)' = Message(v) /\ Message(v) \in Messages
  BY MessageType DEF InTransaction, Message, Busy
<1>5. \A v \in Workers : step'[v] \in InTransaction => holder'[Message(v)'] = v
  BY <1>2, <1>4 DEF TransactionInv, TypeOK
<1>6. \A n \in Messages : holder'[n] # "none" => n \notin receipts'
  BY <1>2 DEF TransactionInv, TypeOK
<1>7. QED
  BY <1>2, <1>3, <1>4, <1>5, <1>6 DEF TransactionInv, InTransaction

\* The receipt, the work and the outbox rows stay together, and in one
\* transaction at a time.
LEMMA TransactionPreserved ==
  ASSUME TypeOK, JobInv, TransactionInv, WorkOnceAndWhole, [Next]_vars
  PROVE  TransactionInv' /\ WorkOnceAndWhole'
<1>1. ASSUME NEW w \in Workers, NEW c \in Copies, Receive(w, c)
      PROVE  TransactionInv' /\ WorkOnceAndWhole'
  BY <1>1, Outside DEF Receive, Goes, TypeOK, InTransaction
<1>2. ASSUME NEW w \in Workers, Process(w) PROVE TransactionInv' /\ WorkOnceAndWhole'
  <2>1. CASE NoHandler(w) \/ BeginFails(w) \/ Skip(w)
    BY <2>1, Outside DEF NoHandler, BeginFails, Skip, AfterFailure, Goes, TypeOK, InTransaction
  <2>2. CASE Start(w)
    <3>1. CASE Inbox
      BY <2>2, <3>1 DEF Start, Goes, TypeOK, InTransaction, Message, TransactionInv,
                        WorkOnceAndWhole
    <3>2. CASE ~Inbox
      BY <2>2, <3>2 DEF Start, Goes, TypeOK, InTransaction, Message, TransactionInv,
                        WorkOnceAndWhole
    <3>3. QED
      BY <3>1, <3>2
  <2>3. CASE Record(w)
    <3>1. Inbox /\ Message(w) \in Messages /\ holder[Message(w)] = "none"
      BY <2>3, MessageType DEF Record, TransactionInv, Busy
    <3>2. CASE Message(w) \in receipts
      BY <2>3, <3>1, <3>2 DEF Record, Goes, TypeOK, InTransaction, Message, TransactionInv,
                              WorkOnceAndWhole
    <3>3. CASE Message(w) \notin receipts
      <4>1. /\ holder' = [holder EXCEPT ![Message(w)] = w]
            /\ step' = [step EXCEPT ![w] = "calling"]
            /\ UNCHANGED <<job, receipts, work, outbox>>
        BY <2>3, <3>3 DEF Record, Goes
      <4>2. WorkOnceAndWhole'
        BY <4>1 DEF WorkOnceAndWhole
      <4>3. \A v \in Workers : step'[v] \in InTransaction => holder'[Message(v)'] = v
        <5>1. \A v \in Workers \ {w} : step'[v] \in InTransaction
                => holder[Message(v)] = v /\ v # "none" /\ Message(v)' = Message(v)
          BY <3>1, <4>1, CopiesAssumption DEF TransactionInv, TypeOK, Message
        <5>2. QED
          BY <3>1, <4>1, <5>1 DEF TypeOK, Message
      <4>4. QED
        BY <3>1, <3>3, <4>1, <4>2, <4>3 DEF TransactionInv, TypeOK, InTransaction, Message
    <3>4. QED
      BY <3>2, <3>3
  <2>4. CASE CallOk(w)
    <3>1. CASE Inbox
      BY <2>4, <3>1, Inside DEF CallOk, InTransaction
    <3>2. CASE ~Inbox
      BY <2>4, <3>2 DEF CallOk, Goes, TypeOK, InTransaction, Message, TransactionInv,
                        WorkOnceAndWhole
    <3>3. QED
      BY <3>1, <3>2
  <2>5. CASE CallFails(w) \/ WriteFails(w)
    <3>1. CASE CallFails(w)
      BY <3>1, Outside, DropOutside DEF CallFails, AfterFailure, Goes, TypeOK, InTransaction
    <3>2. CASE WriteFails(w)
      BY <3>2, Outside, DropOutside DEF WriteFails, AfterFailure, Goes, TypeOK, InTransaction
    <3>3. QED
      BY <2>5, <3>1, <3>2
  <2>6. CASE Write(w)
    BY <2>6, Inside DEF Write, InTransaction, TransactionInv
  <2>7. CASE Commit(w)
    <3>1. Inbox /\ Message(w) \in Messages /\ holder[Message(w)] = w /\ w # "none"
      BY <2>7, MessageType, CopiesAssumption DEF Commit, TransactionInv, Busy, InTransaction
    <3>2. QED
      BY <2>7, <3>1, CommitKeeps DEF Commit, Goes, TypeOK, InTransaction
  <2>8. CASE CommitFails(w)
    <3>1. Inbox /\ Message(w) \in Messages /\ holder[Message(w)] = w
      BY <2>8, MessageType DEF CommitFails, TransactionInv, Busy, InTransaction
    <3>2. \A m \in Messages : holder'[m] # holder[m] => holder[m] = w
      BY <2>8, <3>1, DropOutside DEF CommitFails, TypeOK
    <3>3. QED
      BY <2>8, <3>2, Outside DEF CommitFails, AfterFailure, Goes, TypeOK, InTransaction
  <2>9. CASE Send(w)
    BY <2>9, Outside DEF Send, InTransaction
  <2>10. CASE SendFails(w)
    BY <2>10, Outside DEF SendFails, AfterFailure, Goes, TypeOK, InTransaction
  <2>11. CASE Ack(w) \/ Reject(w) \/ Retry(w) \/ SettleFails(w)
    BY <2>11, Outside DEF Ack, Reject, Rest, Retry, SettleFails, Goes, TypeOK, InTransaction
  <2>12. CASE GiveUp(w) \/ GiveUpFails(w)
    BY <2>12, Outside DEF GiveUp, GiveUpFails, Goes, TypeOK, InTransaction
  <2>13. QED
    BY <1>2, <2>1, <2>2, <2>3, <2>4, <2>5, <2>6, <2>7, <2>8, <2>9, <2>10, <2>11, <2>12 DEF Process
<1>3. ASSUME NEW w \in Workers, RecordFails(w) PROVE TransactionInv' /\ WorkOnceAndWhole'
  <2>1. CASE UNCHANGED holder
    BY <1>3, <2>1, Outside DEF RecordFails, AfterFailure, Goes, TypeOK, InTransaction
  <2>2. CASE /\ holder[Message(w)] = "none"
             /\ Message(w) \notin receipts
             /\ holder' = [holder EXCEPT ![Message(w)] = "dropped"]
    <3>1. /\ UNCHANGED <<job, receipts, work, outbox>>
          /\ \A v \in Workers : step'[v] \in InTransaction \cup {"recording", "skipping"}
               => step'[v] = step[v] /\ Message(v)' = Message(v)
      BY <1>3 DEF RecordFails, AfterFailure, Goes, TypeOK, InTransaction, Message
    <3>2. \A v \in Workers : (Inbox /\ step[v] \in InTransaction)
            => holder[Message(v)] = v /\ v # "none"
      BY CopiesAssumption DEF TransactionInv
    <3>3. \A v \in Workers : (Inbox /\ step'[v] \in InTransaction) => holder'[Message(v)'] = v
      BY <2>2, <3>1, <3>2 DEF TypeOK
    <3>4. QED
      BY <2>2, <3>1, <3>3 DEF TransactionInv, WorkOnceAndWhole, TypeOK, InTransaction
  <2>3. QED
    BY <1>3, <2>1, <2>2 DEF RecordFails
<1>4. ASSUME NEW w \in Workers, LeaveLoop(w) PROVE TransactionInv' /\ WorkOnceAndWhole'
  BY <1>4, Outside DEF LeaveLoop, Goes, TypeOK, InTransaction
<1>5. ASSUME NEW w \in Workers, Crash(w) PROVE TransactionInv' /\ WorkOnceAndWhole'
  BY <1>5, Outside, DropOutside DEF Crash, Rest, Goes, TypeOK, InTransaction
<1>6. ASSUME NEW c \in Copies, AckExpires(c) PROVE TransactionInv' /\ WorkOnceAndWhole'
  BY <1>6 DEF AckExpires, TransactionInv, WorkOnceAndWhole, Message, InTransaction
<1>7. ASSUME NEW m \in Messages, Resolve(m) PROVE TransactionInv' /\ WorkOnceAndWhole'
  <2>1. holder[m] \in {"dropped", "unsure"} /\ holder[m] \notin Workers
    BY <1>7, CopiesAssumption DEF Resolve
  <2>2. UNCHANGED <<step, job>>
    BY <1>7 DEF Resolve
  <2>3. CASE holder' = [holder EXCEPT ![m] = "none"] /\ UNCHANGED <<receipts, work, outbox>>
    <3>1. \A v \in Workers : (Inbox /\ step'[v] \in InTransaction)
            => holder[Message(v)] = v /\ Message(v)' = Message(v)
      BY <2>2 DEF TransactionInv, Message
    <3>2. QED
      BY <2>1, <2>2, <2>3, <3>1 DEF TransactionInv, WorkOnceAndWhole, TypeOK, Message
  <2>4. CASE CommitAll(m)
    <3>1. CASE Inbox
      BY <2>1, <2>2, <2>4, <3>1, CommitKeeps DEF InTransaction
    <3>2. CASE ~Inbox
      BY <2>1, <2>2, <2>4, <3>2 DEF TransactionInv, WorkOnceAndWhole, TypeOK, Message, CommitAll, Count, InTransaction
    <3>3. QED
      BY <3>1, <3>2
  <2>5. QED
    BY <1>7, <2>3, <2>4 DEF Resolve
<1>8. CASE UNCHANGED vars
  BY <1>8 DEF vars, TransactionInv, WorkOnceAndWhole, Message, InTransaction
<1>9. QED
  BY <1>1, <1>2, <1>3, <1>4, <1>5, <1>6, <1>7, <1>8 DEF Next

-------------------------------------------------------------------------------
(* Settling *)

\* What was done is never undone.
Grows ==
  /\ \A m \in Messages : /\ work[m] > 0 => work'[m] > 0
                         /\ sent'[m] >= sent[m]
  /\ outbox \subseteq outbox'
  /\ errors \subseteq errors'

\* What was done is never undone, by any step.
LEMMA NothingUndone == ASSUME TypeOK, JobInv, [Next]_vars PROVE Grows
<1>1. \A m \in Messages : sent[m] \in Nat /\ work[m] \in Nat
  BY OptionsAssumption DEF TypeOK
<1>2. ASSUME NEW m \in Messages, Count(m) PROVE \A n \in Messages : work[n] > 0 => work'[n] > 0
  BY <1>1, <1>2 DEF Count, TypeOK
<1>3. ASSUME NEW w \in Workers, Busy(w), NextPublish(w)
      PROVE  \A n \in Messages : sent'[n] >= sent[n]
  <2>1. Publishes - held[w] + 1 \in Nat
    <3>1. Publishes \in Nat /\ held[w] \in 0..Publishes
      BY OptionsAssumption DEF TypeOK
    <3>2. QED
      BY <3>1
  <2>2. QED
    BY <1>1, <1>3, <2>1, MessageType DEF NextPublish, TypeOK
<1>4. ASSUME UNCHANGED <<sent, work, outbox>>, errors \subseteq errors' PROVE Grows
  BY <1>1, <1>4 DEF Grows
<1>5. ASSUME NEW w \in Workers, Process(w) PROVE Grows
  <2>1. CASE \/ NoHandler(w) \/ Start(w) \/ BeginFails(w) \/ Record(w) \/ Skip(w)
             \/ CallFails(w) \/ Write(w) \/ WriteFails(w) \/ CommitFails(w)
    BY <2>1, <1>4 DEF NoHandler, Start, BeginFails, Record, Skip, CallFails, Write, WriteFails,
                      CommitFails
  <2>2. CASE Ack(w) \/ Retry(w) \/ Reject(w) \/ SettleFails(w) \/ GiveUp(w) \/ GiveUpFails(w)
    BY <2>2, <1>4 DEF Ack, Retry, Reject, SettleFails, GiveUp, GiveUpFails
  <2>3. CASE CallOk(w)
    BY <2>3, <1>1, <1>2, MessageType DEF CallOk, Grows, Busy
  <2>4. CASE Commit(w)
    BY <2>4, <1>1, <1>2, MessageType DEF Commit, CommitAll, Grows, Busy
  <2>5. CASE Send(w) \/ SendFails(w)
    BY <2>5, <1>1, <1>3 DEF Send, SendFails, Grows, Busy
  <2>6. QED
    BY <1>5, <2>1, <2>2, <2>3, <2>4, <2>5 DEF Process
<1>6. ASSUME NEW w \in Workers, RecordFails(w) \/ LeaveLoop(w) \/ Crash(w) PROVE Grows
  BY <1>4, <1>6 DEF RecordFails, LeaveLoop, Crash
<1>7. ASSUME NEW w \in Workers, NEW c \in Copies, Receive(w, c) \/ AckExpires(c) PROVE Grows
  BY <1>4, <1>7 DEF Receive, AckExpires
<1>8. ASSUME NEW c \in Copies, AckExpires(c) PROVE Grows
  BY <1>4, <1>8 DEF AckExpires
<1>9. ASSUME NEW m \in Messages, Resolve(m) PROVE Grows
  BY <1>1, <1>2, <1>9 DEF Resolve, CommitAll, Grows
<1>10. CASE UNCHANGED vars
  BY <1>4, <1>10 DEF vars
<1>11. QED
  BY <1>5, <1>6, <1>7, <1>8, <1>9, <1>10 DEF Next

\* Done(m, n): the work of m was done, and of its publishes all but n are in the
\* outbox or the broker.
Done(m, n) == work[m] > 0 /\ ((Inbox => Outbox) => (m \in outbox \/ sent[m] + n >= Publishes))

\* What was done stays done.
LEMMA DoneStays ==
  ASSUME TypeOK, TypeOK', Grows, NEW m \in Messages, NEW n \in Nat, Done(m, n)
  PROVE  work'[m] > 0 /\ ((Inbox => Outbox) => (m \in outbox' \/ sent'[m] + n >= Publishes))
<1>1. sent[m] \in Nat /\ sent'[m] \in Nat /\ sent'[m] >= sent[m] /\ Publishes \in Nat
  BY OptionsAssumption DEF Grows, TypeOK
<1>2. QED
  BY <1>1 DEF Grows, Done

\* A worker that didn't send or reject before, and does not now, leaves the
\* promises of the others as they were.
LEMMA SendingStays ==
  ASSUME TypeOK, TypeOK', JobInv, SendingInv, RejectingInv, Grows,
         \A v \in Workers : step'[v] \in {"sending", "rejecting"}
           => step'[v] = step[v] /\ job'[v] = job[v] /\ held'[v] = held[v]
  PROVE  SendingInv' /\ RejectingInv'
<1>1. \A v \in Workers : step'[v] = "sending"
        => /\ Done(Message(v), held[v])
           /\ Message(v) \in Messages /\ held[v] \in Nat
           /\ Message(v)' = Message(v) /\ held'[v] = held[v]
  BY MessageType, OptionsAssumption DEF SendingInv, Done, Message, Busy, TypeOK
<1>2. SendingInv'
  BY <1>1, DoneStays DEF SendingInv
<1>3. RejectingInv'
  BY DEF RejectingInv, Grows
<1>4. QED
  BY <1>2, <1>3

\* The other workers' steps, deliveries and held publishes stay as they were.
Elsewhere(w) ==
  \A v \in Workers \ {w} : step'[v] = step[v] /\ job'[v] = job[v] /\ held'[v] = held[v]

Away(w) == Elsewhere(w) /\ step'[w] \notin {"sending", "rejecting"}

\* The steps by which a worker goes to neither.
LEMMA GoesAway ==
  ASSUME TypeOK, NEW w \in Workers,
         \/ NoHandler(w) \/ Start(w) \/ BeginFails(w) \/ Record(w) \/ CallFails(w)
         \/ Write(w) \/ WriteFails(w) \/ CommitFails(w) \/ SendFails(w) \/ GiveUpFails(w)
         \/ RecordFails(w) \/ LeaveLoop(w) \/ Crash(w)
  PROVE  Away(w)
<1> USE DEF TypeOK, Away, Elsewhere, Goes, AfterFailure
<1>1. CASE NoHandler(w) \/ Start(w) \/ BeginFails(w) \/ Record(w) \/ RecordFails(w)
  BY <1>1 DEF NoHandler, Start, BeginFails, Record, RecordFails
<1>2. CASE CallFails(w) \/ Write(w) \/ WriteFails(w) \/ CommitFails(w)
  BY <1>2 DEF CallFails, Write, WriteFails, CommitFails
<1>3. CASE SendFails(w) \/ GiveUpFails(w)
  BY <1>3 DEF SendFails, GiveUpFails
<1>4. CASE LeaveLoop(w) \/ Crash(w)
  BY <1>4 DEF LeaveLoop, Crash, Rest
<1>5. QED
  BY <1>1, <1>2, <1>3, <1>4

\* Every worker that sends or rejects has reason to.
LEMMA SendingPreserved ==
  ASSUME TypeOK, TypeOK', JobInv, TransactionInv, WorkOnceAndWhole, SendingInv, RejectingInv,
         [Next]_vars
  PROVE  SendingInv' /\ RejectingInv'
<1>1. Grows
  BY NothingUndone
<1>2. ASSUME NEW w \in Workers, Elsewhere(w),
             step'[w] = "sending" => Busy(w) /\ job'[w] = job[w] /\ Done(Message(w), held[w])',
             step'[w] # "rejecting"
      PROVE  SendingInv' /\ RejectingInv'
  <2>1. \A v \in Workers \ {w} : step'[v] = "sending"
          => /\ Done(Message(v), held[v])
             /\ Message(v) \in Messages /\ held[v] \in Nat
             /\ Message(v)' = Message(v) /\ held'[v] = held[v]
    BY <1>2, MessageType, OptionsAssumption DEF SendingInv, Elsewhere, Done, Message, Busy, TypeOK
  <2>2. SendingInv'
    BY <1>1, <1>2, <2>1, DoneStays DEF SendingInv, Done, Elsewhere
  <2>3. RejectingInv'
    BY <1>1, <1>2 DEF RejectingInv, Grows, Elsewhere
  <2>4. QED
    BY <2>2, <2>3
<1>3. ASSUME NEW w \in Workers, Process(w) PROVE SendingInv' /\ RejectingInv'
  <2>1. CASE \/ NoHandler(w) \/ Start(w) \/ BeginFails(w) \/ Record(w) \/ CallFails(w)
             \/ Write(w) \/ WriteFails(w) \/ CommitFails(w) \/ SendFails(w) \/ GiveUpFails(w)
    BY <1>2, <2>1, GoesAway DEF Away
  <2>2. CASE Ack(w) \/ Retry(w) \/ Reject(w) \/ SettleFails(w)
    BY <1>1, <2>2, SendingStays DEF Ack, Retry, Reject, SettleFails, Rest, Goes, TypeOK
  <2>3. CASE Skip(w)
    <3>1. CASE Goes(w, AfterFailure(w))
      BY <1>1, <2>3, <3>1, SendingStays DEF Skip, AfterFailure, Goes, TypeOK
    <3>2. CASE Goes(w, "sending")
      <4>1. Inbox /\ Busy(w) /\ Message(w) \in Messages /\ Message(w) \in receipts
        BY <2>3, MessageType DEF Skip, TransactionInv, Busy
      <4>2. work[Message(w)] = 1 /\ (Outbox => Message(w) \in outbox)
        BY <4>1 DEF WorkOnceAndWhole
      <4>3. Message(w)' = Message(w) /\ UNCHANGED <<work, outbox, job, held>>
        BY <2>3 DEF Skip, Message
      <4>4. Done(Message(w), held[w])'
        BY <4>1, <4>2, <4>3 DEF Done
      <4>5. QED
        BY <1>2, <3>2, <4>1, <4>3, <4>4 DEF Goes, TypeOK, Elsewhere
    <3>3. QED
      BY <2>3, <3>1, <3>2 DEF Skip
  <2>4. CASE CallOk(w)
    <3>1. CASE Inbox
      BY <1>1, <2>4, <3>1, SendingStays DEF CallOk, Goes, TypeOK
    <3>2. CASE ~Inbox
      <4>1. Busy(w) /\ Message(w) \in Messages /\ Message(w)' = Message(w)
        BY <2>4, MessageType DEF CallOk, Busy, Message
      <4>2. work'[Message(w)] > 0 /\ held'[w] = Publishes
        BY <2>4, <3>2, <4>1 DEF CallOk, Count, TypeOK
      <4>3. sent'[Message(w)] \in Nat
        BY <4>1, OptionsAssumption DEF TypeOK
      <4>4. Done(Message(w), held[w])'
        BY <4>1, <4>2, <4>3, OptionsAssumption DEF Done
      <4>5. QED
        BY <1>2, <2>4, <3>2, <4>1, <4>4 DEF CallOk, Goes, TypeOK, Elsewhere
    <3>3. QED
      BY <3>1, <3>2
  <2>5. CASE Commit(w)
    <3>1. Inbox /\ Busy(w) /\ Message(w) \in Messages /\ Message(w)' = Message(w)
      BY <2>5, MessageType DEF Commit, Busy, Message, TransactionInv
    <3>2. work'[Message(w)] > 0 /\ (Outbox => Message(w) \in outbox')
      BY <2>5, <3>1 DEF Commit, CommitAll, Count, TypeOK
    <3>3. Done(Message(w), held[w])'
      BY <3>1, <3>2 DEF Done
    <3>4. QED
      BY <1>2, <2>5, <3>1, <3>3 DEF Commit, Goes, TypeOK, Elsewhere
  <2>6. CASE Send(w)
    <3>1. Busy(w) /\ Message(w) \in Messages /\ Message(w)' = Message(w)
      BY <2>6, MessageType DEF Send, Busy, Message
    <3>2. /\ held[w] \in Nat /\ held'[w] = held[w] - 1 /\ held[w] > 0
          /\ sent[Message(w)] \in Nat /\ Publishes \in Nat
      BY <2>6, <3>1, OptionsAssumption DEF Send, TypeOK
    <3>3. sent'[Message(w)] + held'[w] >= Publishes
      BY <2>6, <3>1, <3>2 DEF Send, NextPublish, TypeOK
    <3>4. work'[Message(w)] > 0
      BY <2>6, <3>1 DEF Send, SendingInv
    <3>5. Done(Message(w), held[w])'
      BY <3>1, <3>3, <3>4 DEF Done
    <3>6. QED
      BY <1>2, <2>6, <3>1, <3>5 DEF Send, TypeOK, Elsewhere
  <2>7. CASE GiveUp(w)
    <3>1. SendingInv'
      <4>1. \A v \in Workers : step'[v] = "sending"
              => /\ Done(Message(v), held[v])
                 /\ Message(v) \in Messages /\ held[v] \in Nat
                 /\ Message(v)' = Message(v) /\ held'[v] = held[v]
        <5>1. \A v \in Workers : step'[v] = "sending"
                => step[v] = "sending" /\ UNCHANGED <<job, held>>
          BY <2>7 DEF GiveUp, Goes, TypeOK
        <5>2. QED
          BY <5>1, MessageType, OptionsAssumption DEF SendingInv, Done, Message, Busy, TypeOK
      <4>2. QED
        BY <1>1, <4>1, DoneStays DEF SendingInv
    <3>2. RejectingInv'
      BY <2>7 DEF GiveUp, Goes, RejectingInv, TypeOK
    <3>3. QED
      BY <3>1, <3>2
  <2>8. QED
    BY <1>3, <2>1, <2>2, <2>3, <2>4, <2>5, <2>6, <2>7 DEF Process
<1>4. ASSUME NEW w \in Workers, RecordFails(w) \/ LeaveLoop(w) \/ Crash(w)
      PROVE  SendingInv' /\ RejectingInv'
  BY <1>2, <1>4, GoesAway DEF Away
<1>5. ASSUME NEW w \in Workers, NEW c \in Copies, Receive(w, c)
      PROVE  SendingInv' /\ RejectingInv'
  BY <1>1, <1>5, SendingStays DEF Receive, Goes, TypeOK
<1>6. ASSUME NEW c \in Copies, AckExpires(c) PROVE SendingInv' /\ RejectingInv'
  BY <1>1, <1>6, SendingStays DEF AckExpires
<1>7. ASSUME NEW m \in Messages, Resolve(m) PROVE SendingInv' /\ RejectingInv'
  BY <1>1, <1>7, SendingStays DEF Resolve
<1>8. CASE UNCHANGED vars
  BY <1>1, <1>8, SendingStays DEF vars
<1>9. QED
  BY <1>3, <1>4, <1>5, <1>6, <1>7, <1>8 DEF Next

\* Every settled copy had reason to be.
LEMMA SettledPreserved ==
  ASSUME TypeOK, TypeOK', JobInv, SendingInv, RejectingInv, SettledInv, [Next]_vars
  PROVE  SettledInv'
<1>1. Grows
  BY NothingUndone
<1>2. \A m \in Messages : sent[m] \in Nat /\ sent[m] <= Publishes /\ sent'[m] <= Publishes
        /\ sent'[m] \in Nat /\ Publishes \in Nat
  BY OptionsAssumption DEF TypeOK
<1>3. ASSUME \A c \in Copies :
               /\ copy'[c] = "rejected" => copy[c] = "rejected" \/ c \in errors
               /\ copy'[c] = "acked" => copy[c] = "acked" \/ Done(MessageOf[c], 0)
      PROVE  SettledInv'
  <2>1. \A c \in Copies : copy'[c] = "rejected" => c \in errors'
    BY <1>1, <1>3 DEF SettledInv, Grows
  <2>2. ASSUME NEW c \in Copies, copy'[c] = "acked"
        PROVE  /\ work'[MessageOf[c]] > 0
               /\ (Inbox => Outbox)
                    => (MessageOf[c] \in outbox' \/ sent'[MessageOf[c]] = Publishes)
    <3>1. MessageOf[c] \in Messages
      BY CopiesAssumption
    <3>2. Done(MessageOf[c], 0)
      BY <1>2, <1>3, <2>2, <3>1 DEF SettledInv, Done
    <3>3. /\ work'[MessageOf[c]] > 0
          /\ (Inbox => Outbox)
               => (MessageOf[c] \in outbox' \/ sent'[MessageOf[c]] + 0 >= Publishes)
      BY <1>1, <3>1, <3>2, DoneStays
    <3>4. QED
      BY <1>2, <3>1, <3>3
  <2>3. QED
    BY <2>1, <2>2 DEF SettledInv
<1>4. ASSUME NEW w \in Workers, Process(w) PROVE SettledInv'
  <2>1. CASE \/ NoHandler(w) \/ Start(w) \/ BeginFails(w) \/ Record(w) \/ Skip(w)
             \/ CallOk(w) \/ CallFails(w) \/ Write(w) \/ WriteFails(w)
             \/ Commit(w) \/ CommitFails(w) \/ Send(w) \/ SendFails(w)
             \/ SettleFails(w) \/ GiveUp(w) \/ GiveUpFails(w)
    <3>1. UNCHANGED copy
      BY <2>1 DEF NoHandler, Start, BeginFails, Record, Skip, CallOk, CallFails, Write,
                  WriteFails, Commit, CommitFails, Send, SendFails, SettleFails, GiveUp,
                  GiveUpFails
    <3>2. QED
      BY <1>3, <3>1
  <2>2. CASE Ack(w)
    <3>1. job[w] \in Copies /\ Message(w) \in Messages /\ Busy(w)
      BY <2>2, MessageType DEF Ack, Busy
    <3>2. Done(MessageOf[job[w]], 0)
      BY <2>2, <3>1 DEF Ack, SendingInv, Done, Message
    <3>3. QED
      BY <1>3, <2>2, <3>1, <3>2 DEF Ack, Settle, TypeOK
  <2>3. CASE Reject(w)
    <3>1. job[w] \in Copies /\ job[w] \in errors
      BY <2>3 DEF Reject, RejectingInv, TypeOK
    <3>2. QED
      BY <1>3, <2>3, <3>1 DEF Reject, Settle, TypeOK
  <2>4. CASE Retry(w)
    <3>1. job[w] \in Copies
      BY <2>4, MessageType DEF Retry, Busy
    <3>2. QED
      BY <1>3, <2>4, <3>1 DEF Retry, TypeOK
  <2>5. QED
    BY <1>4, <2>1, <2>2, <2>3, <2>4 DEF Process
<1>5. ASSUME NEW w \in Workers, RecordFails(w) \/ LeaveLoop(w) \/ Crash(w) PROVE SettledInv'
  BY <1>3, <1>5 DEF RecordFails, LeaveLoop, Crash
<1>6. ASSUME NEW w \in Workers, NEW c \in Copies, Receive(w, c) PROVE SettledInv'
  BY <1>3, <1>6 DEF Receive, TypeOK
<1>7. ASSUME NEW c \in Copies, AckExpires(c) PROVE SettledInv'
  BY <1>3, <1>7 DEF AckExpires, TypeOK
<1>8. ASSUME NEW m \in Messages, Resolve(m) PROVE SettledInv'
  BY <1>3, <1>8 DEF Resolve
<1>9. CASE UNCHANGED vars
  BY <1>3, <1>9 DEF vars
<1>10. QED
  BY <1>4, <1>5, <1>6, <1>7, <1>8, <1>9 DEF Next

-------------------------------------------------------------------------------
(* What the runs check of safety *)

\* The parts of the invariant hold from the start, and every step keeps them.
THEOREM Inductive == Spec => []IInv
<1>1. Init => IInv
  <2>1. Init => TypeOK /\ JobInv
    BY OptionsAssumption, LastAttemptType DEF Init, TypeOK, JobInv, Busy, Steps
  <2>2. Init => TransactionInv /\ WorkOnceAndWhole /\ SendingInv /\ RejectingInv /\ SettledInv
    BY CopiesAssumption
       DEF Init, TransactionInv, WorkOnceAndWhole, SendingInv, RejectingInv, SettledInv,
           InTransaction
  <2>3. QED
    BY <2>1, <2>2 DEF IInv
<1>2. IInv /\ [Next]_vars => IInv'
  BY TypePreserved, TransactionPreserved, SendingPreserved, SettledPreserved DEF IInv
<1>3. QED
  BY <1>1, <1>2, PTL DEF Spec

\* With an inbox the work of a message is committed at most once, and with its
\* receipt and its outbox rows, through any redelivery, crash or lost commit.
THEOREM WorkIsOnceAndWhole == Spec => []WorkOnceAndWhole
<1>1. IInv => WorkOnceAndWhole
  BY DEF IInv
<1>2. QED
  BY <1>1, Inductive, PTL

\* With an inbox at most one worker runs the handler of a message, and none once
\* the work is committed.
THEOREM HandlersRunAlone == Spec => []HandlerAlone
<1>1. IInv => HandlerAlone
  <2>1. SUFFICES ASSUME IInv, Inbox, NEW w \in Workers, step[w] \in InTransaction
                 PROVE  /\ Message(w) \notin receipts
                        /\ \A v \in Workers \ {w} :
                             step[v] \in InTransaction => Message(v) # Message(w)
    BY DEF HandlerAlone
  <2>2. Message(w) \in Messages /\ holder[Message(w)] = w /\ w # "none"
    BY <2>1, MessageType, CopiesAssumption DEF IInv, TransactionInv, Busy, InTransaction
  <2>3. \A v \in Workers : step[v] \in InTransaction => holder[Message(v)] = v
    BY <2>1 DEF IInv, TransactionInv
  <2>4. QED
    BY <2>1, <2>2, <2>3 DEF IInv, TransactionInv
<1>2. QED
  BY <1>1, Inductive, PTL

\* Nothing is rejected that the error destination has no copy of.
THEOREM RejectedIsKept == Spec => []RejectedHasCopy
<1>1. IInv => RejectedHasCopy
  BY DEF IInv, SettledInv, RejectedHasCopy
<1>2. QED
  BY <1>1, Inductive, PTL

\* Nothing is acked whose work is not done and whose publishes are not kept,
\* unless the endpoint has an inbox and its bus no outbox: then a commit whose
\* answer is lost keeps the publishes from ever being sent.
THEOREM AckedIsKept == ASSUME Inbox => Outbox PROVE Spec => []AckedIsDone
<1>1. IInv => AckedIsDone
  BY DEF IInv, SettledInv, AckedIsDone
<1>2. QED
  BY <1>1, Inductive, PTL

-------------------------------------------------------------------------------
(* The endpoint keeps its promise *)

\* A step that settles nothing, does no work and gives nothing up is none of the
\* promise's.
LEMMA NoPromise ==
  ASSUME UNCHANGED <<work, errors>>,
         \A c \in Copies : /\ copy'[c] \in {"acked", "rejected"} <=> copy[c] \in {"acked", "rejected"}
                           /\ copy[c] \in {"acked", "rejected"} => copy'[c] = copy[c]
  PROVE  UNCHANGED Promise!vars
BY DEF Promise!vars, fate

\* Settling closes a copy that is owed, or changes nothing of it.
LEMMA SettleCloses ==
  ASSUME TypeOK, NEW c \in Copies, NEW end \in {"acked", "rejected"}, Settle(c, end),
         UNCHANGED <<work, errors>>,
         end = "acked" => work[MessageOf[c]] > 0,
         end = "rejected" => c \in errors
  PROVE  Promise!Close(c, end) \/ UNCHANGED Promise!vars
<1>1. CASE copy[c] \in {"waiting", "out"}
  <2>1. fate[c] = "owed" /\ fate' = [fate EXCEPT ![c] = end]
    BY <1>1 DEF Settle, fate, TypeOK
  <2>2. QED
    BY <2>1 DEF Promise!Close
<1>2. CASE copy[c] \notin {"waiting", "out"}
  BY <1>2, NoPromise DEF Settle
<1>3. QED
  BY <1>1, <1>2

\* Redelivery, competing workers, unanswered commits and crashes are steps of
\* the endpoint's promise or change nothing of it.
THEOREM Implements == Spec => KeepsPromise
<1>1. Init => Promise!Init
  BY DEF Init, Promise!Init, fate
<1>2. IInv /\ [Next]_vars => [Promise!Next]_(Promise!vars)
  <2> SUFFICES ASSUME IInv, [Next]_vars PROVE Promise!Next \/ UNCHANGED Promise!vars
    OBVIOUS
  <2> USE DEF IInv
  <2>1. ASSUME NEW m \in Messages, Count(m), Inbox => work[m] = 0, UNCHANGED <<copy, errors>>
        PROVE  Promise!Next
    <3>1. Promise!Handle(m)
      BY <2>1 DEF Promise!Handle, Count, fate
    <3>2. QED
      BY <3>1 DEF Promise!Next
  <2>2. ASSUME NEW m \in Messages, CommitAll(m), holder[m] # "none", UNCHANGED <<copy, errors>>
        PROVE  Promise!Next
    BY <2>1, <2>2 DEF CommitAll, TransactionInv, WorkOnceAndWhole
  <2>3. ASSUME NEW c \in Copies, errors' = errors \cup {c} \/ UNCHANGED errors,
               UNCHANGED <<work, copy>>
        PROVE  Promise!Next \/ UNCHANGED Promise!vars
    BY <2>3 DEF Promise!Next, Promise!Bury, Promise!vars, fate
  <2>4. ASSUME NEW w \in Workers, Process(w) PROVE Promise!Next \/ UNCHANGED Promise!vars
    <3>1. CASE \/ NoHandler(w) \/ Start(w) \/ BeginFails(w) \/ Record(w) \/ Skip(w)
               \/ CallFails(w) \/ Write(w) \/ WriteFails(w) \/ CommitFails(w)
               \/ Send(w) \/ SendFails(w) \/ SettleFails(w)
      <4>1. UNCHANGED <<copy, work, errors>>
        BY <3>1 DEF NoHandler, Start, BeginFails, Record, Skip, CallFails, Write, WriteFails,
                    CommitFails, Send, SendFails, SettleFails
      <4>2. QED
        BY <4>1, NoPromise
    <3>2. CASE CallOk(w)
      <4>1. CASE Inbox
        BY <3>2, <4>1, NoPromise DEF CallOk
      <4>2. CASE ~Inbox
        <5>1. Message(w) \in Messages
          BY <3>2, MessageType DEF CallOk, Busy
        <5>2. QED
          BY <2>1, <3>2, <4>2, <5>1 DEF CallOk
      <4>3. QED
        BY <4>1, <4>2
    <3>3. CASE Commit(w)
      <4>1. Message(w) \in Messages /\ holder[Message(w)] # "none"
        BY <3>3, MessageType, CopiesAssumption DEF Commit, Busy, TransactionInv, InTransaction
      <4>2. QED
        BY <2>2, <3>3, <4>1 DEF Commit
    <3>4. CASE Ack(w)
      <4>1. job[w] \in Copies /\ work[MessageOf[job[w]]] > 0
        BY <3>4, MessageType DEF Ack, Busy, SendingInv, Message
      <4>2. Promise!Close(job[w], "acked") \/ UNCHANGED Promise!vars
        BY <3>4, <4>1, SettleCloses DEF Ack
      <4>3. QED
        BY <4>1, <4>2 DEF Promise!Next
    <3>5. CASE Reject(w)
      <4>1. job[w] \in Copies /\ job[w] \in errors
        BY <3>5, MessageType DEF Reject, Busy, RejectingInv
      <4>2. Promise!Close(job[w], "rejected") \/ UNCHANGED Promise!vars
        BY <3>5, <4>1, SettleCloses DEF Reject
      <4>3. QED
        BY <4>1, <4>2 DEF Promise!Next
    <3>6. CASE Retry(w)
      <4>1. job[w] \in Copies
        BY <3>6, MessageType DEF Retry, Busy
      <4>2. QED
        BY <3>6, <4>1, NoPromise DEF Retry, TypeOK
    <3>7. CASE GiveUp(w) \/ GiveUpFails(w)
      <4>1. job[w] \in Copies
        BY <3>7, MessageType DEF GiveUp, GiveUpFails, Busy
      <4>2. QED
        BY <2>3, <3>7, <4>1 DEF GiveUp, GiveUpFails
    <3>8. QED
      BY <2>4, <3>1, <3>2, <3>3, <3>4, <3>5, <3>6, <3>7 DEF Process
  <2>5. ASSUME NEW w \in Workers, RecordFails(w) \/ LeaveLoop(w) \/ Crash(w)
        PROVE  UNCHANGED Promise!vars
    BY <2>5, NoPromise DEF RecordFails, LeaveLoop, Crash
  <2>6. ASSUME NEW w \in Workers, NEW c \in Copies, Receive(w, c)
        PROVE  UNCHANGED Promise!vars
    BY <2>6, NoPromise DEF Receive, TypeOK
  <2>7. ASSUME NEW c \in Copies, AckExpires(c) PROVE UNCHANGED Promise!vars
    BY <2>7, NoPromise DEF AckExpires, TypeOK
  <2>8. ASSUME NEW m \in Messages, Resolve(m) PROVE Promise!Next \/ UNCHANGED Promise!vars
    <3>1. CASE CommitAll(m)
      BY <2>2, <2>8, <3>1 DEF Resolve
    <3>2. CASE ~CommitAll(m)
      BY <2>8, <3>2, NoPromise DEF Resolve
    <3>3. QED
      BY <3>1, <3>2
  <2>9. CASE UNCHANGED vars
    BY <2>9, NoPromise DEF vars
  <2>10. QED
    BY <2>4, <2>5, <2>6, <2>7, <2>8, <2>9 DEF Next
<1>3. QED
  BY <1>1, <1>2, Inductive, PTL DEF Spec, KeepsPromise, Promise!Spec

===============================================================================
