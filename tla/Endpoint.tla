------------------------------- MODULE Endpoint -------------------------------
(***************************************************************************)
(* One endpoint: the receive loops of its instances, each handling one     *)
(* delivery at a time (runtime endpoint.rs), the pipeline around the       *)
(* handler with the inbox's transaction (runtime inbox.rs over postgres    *)
(* inbox.rs), and the broker and the database as these use them.           *)
(***************************************************************************)
EXTENDS Naturals

CONSTANTS
  Messages,    \* message ids
  Copies,      \* what the broker holds for the endpoint
  MessageOf,   \* the message of each copy: a publish may be stored twice
  Workers,     \* one receive loop per instance of the service
  Stoppable,   \* the loops that may end
  Handles,     \* the messages each instance has a handler for
  Undecodable, \* the messages whose data no handler can read
  Inbox,       \* whether the endpoint has an inbox
  Outbox,      \* whether the bus has an outbox
  Publishes,   \* how many messages a handler publishes
  Attempts,    \* RetryPolicy::attempts
  None         \* no copy

ASSUME CopiesAssumption == /\ MessageOf \in [Copies -> Messages]
                           /\ Handles \in [Workers -> SUBSET Messages]
                           /\ Undecodable \subseteq Messages
                           /\ Stoppable \subseteq Workers
                           /\ None \notin Copies
                           /\ Workers \cap {"none", "dropped", "unsure"} = {}

ASSUME OptionsAssumption == /\ Inbox \in BOOLEAN
                            /\ Outbox \in BOOLEAN
                            /\ Publishes \in Nat
                            /\ Attempts \in Nat

VARIABLES
  copy,       \* where each copy is with the broker
  deliveries, \* how often it was delivered, up to the last attempt
  errors,     \* the copies in the error destination
  sent,       \* how many of a message's publishes the broker has
  receipts,   \* the messages with a committed receipt
  holder,     \* whose open transaction holds the message's receipt
  work,       \* how often the handler's work was done: not, once, or more
  outbox,     \* the messages whose publishes are in the outbox
  step,       \* where each worker is
  job,        \* the copy it handles
  attempt,    \* Delivery::attempt
  broken,     \* whether a failed statement left its transaction aborted
  held        \* how many publishes it still has to send

brokerVars == <<copy, deliveries, errors, sent>>
dbVars == <<receipts, holder, work, outbox>>
workerVars == <<step, job, attempt, broken, held>>
vars == <<brokerVars, dbVars, workerVars>>

\* InTransaction: the steps with a receipt in the open transaction.
InTransaction == {"calling", "writing", "committing"}
Steps == InTransaction \cup {"idle", "stopped", "starting", "recording", "skipping", "sending",
                             "retrying", "giving up", "rejecting"}

LastAttempt == IF Attempts = 0 THEN 1 ELSE Attempts

Message(w) == MessageOf[job[w]]

Init ==
  /\ copy = [c \in Copies |-> "waiting"]
  /\ deliveries = [c \in Copies |-> 0]
  /\ errors = {}
  /\ sent = [m \in Messages |-> 0]
  /\ receipts = {}
  /\ holder = [m \in Messages |-> "none"]
  /\ work = [m \in Messages |-> 0]
  /\ outbox = {}
  /\ step = [w \in Workers |-> "idle"]
  /\ job = [w \in Workers |-> None]
  /\ attempt = [w \in Workers |-> 0]
  /\ broken = [w \in Workers |-> FALSE]
  /\ held = [w \in Workers |-> 0]

Goes(w, next) == step' = [step EXCEPT ![w] = next]

\* The worker lets go of its delivery and receives the next.
Rest(w) ==
  /\ Goes(w, "idle")
  /\ job' = [job EXCEPT ![w] = None]
  /\ attempt' = [attempt EXCEPT ![w] = 0]
  /\ broken' = [broken EXCEPT ![w] = FALSE]
  /\ held' = [held EXCEPT ![w] = 0]

\* is_last: Failure::Handler on the last attempt is given up, else retried.
AfterFailure(w) == IF attempt[w] >= Attempts THEN "giving up" ELSE "retrying"

-------------------------------------------------------------------------------
(* The broker *)

\* Each copy goes to one worker at a time, with the next attempt number.
Receive(w, c) ==
  LET n == IF deliveries[c] < LastAttempt THEN deliveries[c] + 1 ELSE LastAttempt
  IN /\ step[w] = "idle"
     /\ copy[c] = "waiting"
     /\ copy' = [copy EXCEPT ![c] = "out"]
     /\ deliveries' = [deliveries EXCEPT ![c] = n]
     /\ Goes(w, "starting")
     /\ job' = [job EXCEPT ![w] = c]
     /\ attempt' = [attempt EXCEPT ![w] = n]
     /\ UNCHANGED <<errors, sent, dbVars, broken, held>>

\* The acknowledgement timeout, whether or not a worker still handles the copy.
AckExpires(c) ==
  /\ copy[c] = "out"
  /\ copy' = [copy EXCEPT ![c] = "waiting"]
  /\ UNCHANGED <<deliveries, errors, sent, dbVars, workerVars>>

-------------------------------------------------------------------------------
(* The database *)

\* Slip: a handling that fails leaves its transaction open.
KeepTransaction(w) == UNCHANGED holder

\* The transaction a worker drops is rolled back, though not at once.
DropTransaction(w) ==
  holder' = IF holder[Message(w)] = w THEN [holder EXCEPT ![Message(w)] = "dropped"] ELSE holder

\* Handled once, or once more.
Count(m) == work' = [work EXCEPT ![m] = IF @ = 0 THEN 1 ELSE 2]

\* The receipt, the handler's work and its outbox rows commit together.
CommitAll(m) ==
  /\ receipts' = receipts \cup {m}
  /\ holder' = [holder EXCEPT ![m] = "none"]
  /\ Count(m)
  /\ outbox' = IF Outbox THEN outbox \cup {m} ELSE outbox

\* A dropped transaction is rolled back; one whose COMMIT was sent and not
\* answered ends either way.
Resolve(m) ==
  /\ \/ /\ holder[m] \in {"dropped", "unsure"}
        /\ holder' = [holder EXCEPT ![m] = "none"]
        /\ UNCHANGED <<receipts, work, outbox>>
     \/ holder[m] = "unsure" /\ CommitAll(m)
  /\ UNCHANGED <<brokerVars, workerVars>>

-------------------------------------------------------------------------------
(* Handling a delivery *)

NoHandler(w) ==
  /\ step[w] = "starting"
  /\ Message(w) \notin Handles[w]
  /\ Goes(w, "giving up")
  /\ UNCHANGED <<brokerVars, dbVars, job, attempt, broken, held>>

\* Plain::run
Start(w) ==
  /\ step[w] = "starting"
  /\ Message(w) \in Handles[w]
  /\ Goes(w, IF Inbox THEN "recording" ELSE "calling")
  /\ UNCHANGED <<brokerVars, dbVars, job, attempt, broken, held>>

BeginFails(w) ==
  /\ step[w] = "starting"
  /\ Message(w) \in Handles[w]
  /\ Inbox
  /\ Goes(w, AfterFailure(w))
  /\ UNCHANGED <<brokerVars, dbVars, job, attempt, broken, held>>

\* Slip: the receipt is looked up and not waited for.
RecordUnlocked(w) ==
  /\ step[w] = "recording"
  /\ holder' = [holder EXCEPT ![Message(w)] = w]
  /\ Goes(w, IF Message(w) \in receipts THEN "skipping" ELSE "calling")
  /\ UNCHANGED <<brokerVars, receipts, work, outbox, job, attempt, broken, held>>

\* Slip: a receipt that another transaction holds counts as recorded.
RecordUncommitted(w) ==
  /\ step[w] = "recording"
  /\ IF Message(w) \in receipts \/ holder[Message(w)] # "none"
     THEN Goes(w, "skipping") /\ UNCHANGED holder
     ELSE Goes(w, "calling") /\ holder' = [holder EXCEPT ![Message(w)] = w]
  /\ UNCHANGED <<brokerVars, receipts, work, outbox, job, attempt, broken, held>>

\* The insert waits while another transaction holds the same receipt.
Record(w) ==
  /\ step[w] = "recording"
  /\ holder[Message(w)] = "none"
  /\ IF Message(w) \in receipts
     THEN Goes(w, "skipping") /\ UNCHANGED holder
     ELSE Goes(w, "calling") /\ holder' = [holder EXCEPT ![Message(w)] = w]
  /\ UNCHANGED <<brokerVars, receipts, work, outbox, job, attempt, broken, held>>

\* The statement is answered with an error, before or after it took effect.
RecordFails(w) ==
  /\ step[w] = "recording"
  /\ \/ UNCHANGED holder
     \/ /\ holder[Message(w)] = "none"
        /\ Message(w) \notin receipts
        /\ holder' = [holder EXCEPT ![Message(w)] = "dropped"]
  /\ Goes(w, AfterFailure(w))
  /\ UNCHANGED <<brokerVars, receipts, work, outbox, job, attempt, broken, held>>

\* Recorded before: the empty transaction commits, and the delivery is acked.
Skip(w) ==
  /\ step[w] = "skipping"
  /\ Goes(w, "sending") \/ Goes(w, AfterFailure(w))
  /\ UNCHANGED <<brokerVars, dbVars, job, attempt, broken, held>>

\* The handler returned Ok with its publishes held; a statement of its that
\* failed may have left the transaction aborted.
CallOk(w) ==
  /\ step[w] = "calling"
  /\ Message(w) \notin Undecodable
  /\ held' = [held EXCEPT ![w] = Publishes]
  /\ IF Inbox
     THEN /\ Goes(w, "writing")
          /\ \E b \in BOOLEAN : broken' = [broken EXCEPT ![w] = b]
          /\ UNCHANGED work
     ELSE Goes(w, "sending") /\ Count(Message(w)) /\ UNCHANGED broken
  /\ UNCHANGED <<brokerVars, receipts, holder, outbox, job, attempt>>

\* An error, a panic, or data that doesn't decode: the transaction is dropped.
CallFails(w) ==
  /\ step[w] = "calling"
  /\ DropTransaction(w)
  /\ Goes(w, IF Message(w) \in Undecodable THEN "giving up" ELSE AfterFailure(w))
  /\ UNCHANGED <<brokerVars, receipts, work, outbox, job, attempt, broken, held>>

\* Slip: the rows are written on a connection of the store's own.
WriteOutside(w) ==
  /\ step[w] = "writing"
  /\ Goes(w, "committing")
  /\ held' = [held EXCEPT ![w] = IF Outbox THEN 0 ELSE @]
  /\ outbox' = IF Outbox THEN outbox \cup {Message(w)} ELSE outbox
  /\ UNCHANGED <<brokerVars, receipts, holder, work, job, attempt, broken>>

\* HandlerOutbox::write; an aborted transaction takes no rows.
Write(w) ==
  /\ step[w] = "writing"
  /\ (Outbox /\ held[w] > 0) => ~broken[w]
  /\ Goes(w, "committing")
  /\ held' = [held EXCEPT ![w] = IF Outbox THEN 0 ELSE @]
  /\ UNCHANGED <<brokerVars, dbVars, job, attempt, broken>>

WriteFails(w) ==
  /\ step[w] = "writing"
  /\ Outbox /\ held[w] > 0
  /\ DropTransaction(w)
  /\ Goes(w, AfterFailure(w))
  /\ UNCHANGED <<brokerVars, receipts, work, outbox, job, attempt, broken, held>>

\* Slip: COMMIT alone, which an aborted transaction answers without an error.
CommitUnchecked(w) ==
  /\ step[w] = "committing"
  /\ IF broken[w]
     THEN holder' = [holder EXCEPT ![Message(w)] = "none"] /\ UNCHANGED <<receipts, work, outbox>>
     ELSE CommitAll(Message(w))
  /\ Goes(w, "sending")
  /\ UNCHANGED <<brokerVars, job, attempt, broken, held>>

\* A statement before the COMMIT fails on an aborted transaction.
Commit(w) ==
  /\ step[w] = "committing"
  /\ ~broken[w]
  /\ CommitAll(Message(w))
  /\ Goes(w, "sending")
  /\ UNCHANGED <<brokerVars, job, attempt, broken, held>>

\* The statement before the COMMIT failed, or the COMMIT was not answered.
CommitFails(w) ==
  /\ step[w] = "committing"
  /\ \/ DropTransaction(w)
     \/ ~broken[w] /\ holder' = [holder EXCEPT ![Message(w)] = "unsure"]
  /\ Goes(w, AfterFailure(w))
  /\ UNCHANGED <<brokerVars, receipts, work, outbox, job, attempt, broken, held>>

-------------------------------------------------------------------------------
(* Settling a delivery *)

\* The next held publish is with the broker.
NextPublish(w) ==
  LET n == Publishes - held[w] + 1
  IN sent' = [sent EXCEPT ![Message(w)] = IF n > @ THEN n ELSE @]

Send(w) ==
  /\ step[w] = "sending"
  /\ held[w] > 0
  /\ NextPublish(w)
  /\ held' = [held EXCEPT ![w] = @ - 1]
  /\ UNCHANGED <<copy, deliveries, errors, dbVars, step, job, attempt, broken>>

\* An error means the publish may or may not be stored.
SendFails(w) ==
  /\ step[w] = "sending"
  /\ held[w] > 0
  /\ NextPublish(w) \/ UNCHANGED sent
  /\ Goes(w, AfterFailure(w))
  /\ UNCHANGED <<copy, deliveries, errors, dbVars, job, attempt, broken, held>>

\* A settled copy stays so; a late answer settles one that waits again.
Settle(c, end) ==
  copy' = IF copy[c] \in {"waiting", "out"} THEN [copy EXCEPT ![c] = end] ELSE copy

\* Slip: the delivery is acked before its publishes are sent.
AckEarly(w) ==
  /\ step[w] = "sending"
  /\ Settle(job[w], "acked")
  /\ Rest(w)
  /\ UNCHANGED <<deliveries, errors, sent, dbVars>>

Ack(w) ==
  /\ step[w] = "sending"
  /\ held[w] = 0
  /\ Settle(job[w], "acked")
  /\ Rest(w)
  /\ UNCHANGED <<deliveries, errors, sent, dbVars>>

Retry(w) ==
  /\ step[w] = "retrying"
  /\ copy' = IF copy[job[w]] = "out" THEN [copy EXCEPT ![job[w]] = "waiting"] ELSE copy
  /\ Rest(w)
  /\ UNCHANGED <<deliveries, errors, sent, dbVars>>

Reject(w) ==
  /\ step[w] = "rejecting"
  /\ Settle(job[w], "rejected")
  /\ Rest(w)
  /\ UNCHANGED <<deliveries, errors, sent, dbVars>>

\* The broker doesn't take the settlement, which is only logged.
SettleFails(w) ==
  /\ step[w] \in {"sending", "retrying", "rejecting"}
  /\ step[w] = "sending" => held[w] = 0
  /\ Rest(w)
  /\ UNCHANGED <<brokerVars, dbVars>>

\* publish_error
GiveUp(w) ==
  /\ step[w] = "giving up"
  /\ errors' = errors \cup {job[w]}
  /\ Goes(w, "rejecting")
  /\ UNCHANGED <<copy, deliveries, sent, dbVars, job, attempt, broken, held>>

\* Slip: the delivery is rejected whether or not the error destination has it.
GiveUpFailsAndRejects(w) ==
  /\ step[w] = "giving up"
  /\ UNCHANGED errors
  /\ Goes(w, "rejecting")
  /\ UNCHANGED <<copy, deliveries, sent, dbVars, job, attempt, broken, held>>

GiveUpFails(w) ==
  /\ step[w] = "giving up"
  /\ errors' = errors \cup {job[w]} \/ UNCHANGED errors
  /\ Goes(w, "retrying")
  /\ UNCHANGED <<copy, deliveries, sent, dbVars, job, attempt, broken, held>>

-------------------------------------------------------------------------------

\* The loop ends, on a stop or because its stream of deliveries did.
LeaveLoop(w) ==
  /\ w \in Stoppable
  /\ step[w] = "idle"
  /\ Goes(w, "stopped")
  /\ UNCHANGED <<brokerVars, dbVars, job, attempt, broken, held>>

\* The process dies and another starts in its place. A request it had sent and
\* that still takes effect is one that failed before the crash.
Crash(w) ==
  /\ step[w] \notin {"idle", "stopped"}
  /\ DropTransaction(w)
  /\ Rest(w)
  /\ UNCHANGED <<brokerVars, receipts, work, outbox>>

\* All a worker does with a delivery, but for the failures of a statement that
\* may be waiting for a lock: nothing makes it fail.
Process(w) ==
  \/ NoHandler(w) \/ Start(w) \/ BeginFails(w)
  \/ Record(w) \/ Skip(w)
  \/ CallOk(w) \/ CallFails(w)
  \/ Write(w) \/ WriteFails(w)
  \/ Commit(w) \/ CommitFails(w)
  \/ Send(w) \/ SendFails(w)
  \/ Ack(w) \/ Retry(w) \/ Reject(w) \/ SettleFails(w)
  \/ GiveUp(w) \/ GiveUpFails(w)

Next ==
  \/ \E w \in Workers : Process(w) \/ RecordFails(w) \/ LeaveLoop(w) \/ Crash(w)
  \/ \E w \in Workers, c \in Copies : Receive(w, c)
  \/ \E c \in Copies : AckExpires(c)
  \/ \E m \in Messages : Resolve(m)

Spec == Init /\ [][Next]_vars

-------------------------------------------------------------------------------
(* Safety *)

TypeOK ==
  /\ copy \in [Copies -> {"waiting", "out", "acked", "rejected"}]
  /\ deliveries \in [Copies -> 0..LastAttempt]
  /\ errors \in SUBSET Copies
  /\ sent \in [Messages -> 0..Publishes]
  /\ receipts \in SUBSET Messages
  /\ holder \in [Messages -> Workers \cup {"none", "dropped", "unsure"}]
  /\ work \in [Messages -> 0..2]
  /\ outbox \in SUBSET Messages
  /\ step \in [Workers -> Steps]
  /\ job \in [Workers -> Copies \cup {None}]
  /\ attempt \in [Workers -> 0..LastAttempt]
  /\ broken \in [Workers -> BOOLEAN]
  /\ held \in [Workers -> 0..Publishes]

\* With an inbox the handler's transaction commits at most once per message,
\* and never without its receipt and, on a bus with an outbox, its publishes,
\* whatever copies, late answers, lost commits and crashes there were
\* (runtime inbox.rs run).
WorkOnceAndWhole ==
  Inbox => \A m \in Messages :
    /\ work[m] = IF m \in receipts THEN 1 ELSE 0
    /\ Outbox => (m \in outbox <=> m \in receipts)

\* With an inbox a handler runs for a message only while no other worker's
\* does, and never again after its work was committed (postgres inbox.rs
\* record): a second delivery waits for the receipt of the first.
HandlerAlone ==
  Inbox => \A w \in Workers : step[w] \in InTransaction =>
    /\ Message(w) \notin receipts
    /\ \A v \in Workers \ {w} :
         step[v] \in InTransaction => Message(v) # Message(w)

\* A delivery is acked only once its handler returned Ok, its transaction
\* committed, and the handler's publishes are in the outbox or the broker
\* (endpoint.rs process).
AckedIsDone ==
  \A c \in Copies : copy[c] = "acked" =>
    LET m == MessageOf[c]
    IN work[m] > 0 /\ (m \in outbox \/ sent[m] = Publishes)

\* A message is never dropped without a copy in the error destination
\* (endpoint.rs process: publish_error before reject).
RejectedHasCopy == \A c \in Copies : copy[c] = "rejected" => c \in errors

-------------------------------------------------------------------------------
(* Why it is safe: the parts of the inductive invariant *)

Busy(w) == step[w] \notin {"idle", "stopped"}

JobInv == \A w \in Workers : Busy(w) => job[w] \in Copies

\* Who works in a transaction holds the message's receipt, and a receipt that is
\* held is not a committed one.
TransactionInv ==
  /\ \A w \in Workers : step[w] \in {"recording", "skipping", "writing", "committing"} => Inbox
  /\ \A w \in Workers : (Inbox /\ step[w] \in InTransaction) => holder[Message(w)] = w
  /\ \A w \in Workers : step[w] = "skipping" => Message(w) \in receipts
  /\ \A m \in Messages : holder[m] # "none" => m \notin receipts

\* Whoever sends has had the work of its message done, and all but the held
\* publishes are in the outbox or the broker.
SendingInv ==
  \A w \in Workers : step[w] = "sending" =>
    LET m == Message(w)
    IN /\ work[m] > 0
       /\ (Inbox => Outbox) => (m \in outbox \/ sent[m] + held[w] >= Publishes)

\* Whoever rejects has put its copy in the error destination.
RejectingInv == \A w \in Workers : step[w] = "rejecting" => job[w] \in errors

SettledInv ==
  \A c \in Copies :
    /\ copy[c] = "rejected" => c \in errors
    /\ copy[c] = "acked" => LET m == MessageOf[c]
                            IN /\ work[m] > 0
                               /\ (Inbox => Outbox) => (m \in outbox \/ sent[m] = Publishes)

IInv == /\ TypeOK /\ JobInv /\ TransactionInv /\ WorkOnceAndWhole
        /\ SendingInv /\ RejectingInv /\ SettledInv

-------------------------------------------------------------------------------
(* What the endpoint promises *)

fate == [c \in Copies |-> IF copy[c] \in {"acked", "rejected"} THEN copy[c] ELSE "owed"]

Promise == INSTANCE EndpointPromise
             WITH Once <- Inbox, handled <- work, buried <- errors

\* Redelivery, competing workers, unanswered commits and crashes are steps of
\* the endpoint's promise or change nothing of it.
KeepsPromise == Promise!Spec

-------------------------------------------------------------------------------
(* Liveness *)

\* The broker delivers, the acknowledgement timeout runs, the database ends
\* every transaction and the workers run on; from some time on there are no
\* more crashes; and what the broker is asked again and again it does at last.
Fairness ==
  /\ \A c \in Copies : WF_vars(AckExpires(c)) /\ SF_vars(\E w \in Workers : Receive(w, c))
  /\ \A m \in Messages : WF_vars(Resolve(m))
  /\ \A w \in Workers : WF_vars(Process(w)) /\ <>[][~Crash(w)]_vars
  /\ \A w \in Workers, c \in Copies :
       /\ SF_vars(job[w] = c /\ Ack(w))
       /\ SF_vars(job[w] = c /\ GiveUp(w))
       /\ SF_vars(job[w] = c /\ Reject(w))

FairSpec == Spec /\ Fairness

\* Every message the broker has is in the end acked, or rejected with a copy in
\* the error destination, whatever its handler does (endpoint.rs process).
EverySettled == \A c \in Copies : <>(copy[c] \in {"acked", "rejected"})

===============================================================================
