----------------------------- MODULE NatsTransport -----------------------------
(***************************************************************************)
(* The NATS transport: the stream its publishes go to, with the duplicate  *)
(* window, and the durable consumer that the instances of one endpoint     *)
(* create, widen and pull from (nats subscribe.rs, transport.rs). What the *)
(* runtime does between a delivery and its settlement is Endpoint's.       *)
(***************************************************************************)
EXTENDS Naturals, Sequences, FiniteSets

CONSTANTS
  Types,      \* message types, each with its subject
  ErrorType,  \* stands for the endpoint's error subject
  Messages,   \* message ids
  TypeOf,     \* the type of each message
  Unreadable, \* the messages whose headers don't make an envelope
  Instances,  \* instances of the endpoint
  TypesOf,    \* the message types each instance handles
  OneStarts,  \* whether the instances start one after the other
  MaxStored   \* bound: how many messages are stored, error copies not counted

ASSUME TypesAssumption == /\ ErrorType \notin Types
                          /\ TypeOf \in [Messages -> Types]
                          /\ Unreadable \subseteq Messages
                          /\ TypesOf \in [Instances -> SUBSET Types]

ASSUME StreamAssumption == /\ OneStarts \in BOOLEAN
                           /\ MaxStored \in Nat

VARIABLES
  stream,     \* the stored messages; "of" is where the message lies that one is an error copy of
  window,     \* the ids the stream remembers
  durable,    \* whether the endpoint's consumer exists
  filter,     \* the subjects it takes; none means all
  place,      \* where each stored message is with the consumer
  phase,      \* what each instance does
  subjects,   \* the filter it is about to write
  job,        \* the message it was delivered
  subscribed, \* the types of the instances that have subscribed
  owed        \* the messages stored after an instance had subscribed to their type

streamVars == <<stream, window>>
consumerVars == <<durable, filter>>
instanceVars == <<phase, subjects, job>>
ghostVars == <<subscribed, owed>>
vars == <<streamVars, consumerVars, place, instanceVars, ghostVars>>

\* Messages are named by their places in the stream, from 1 on.
NoMessage == 0

Subjects == Types \cup {ErrorType}
Settled == {"acked", "terminated"}
Places == {"ahead", "passed", "waiting", "out"} \cup Settled
Phases == {"down", "creating", "pulling", "handling", "retrying", "copying", "terminating"}

Init ==
  /\ stream = <<>>
  /\ window = {}
  /\ durable = FALSE
  /\ filter = {}
  /\ place = <<>>
  /\ phase = [w \in Instances |-> "down"]
  /\ subjects = [w \in Instances |-> {}]
  /\ job = [w \in Instances |-> NoMessage]
  /\ subscribed = {}
  /\ owed = {}

Goes(w, next) == phase' = [phase EXCEPT ![w] = next]

\* Slip: an instance goes on with what it had in hand.
DropsNothing(w, next) == Goes(w, next) /\ UNCHANGED job

\* The instance lets go of what it was delivered.
Drops(w, next) == Goes(w, next) /\ job' = [job EXCEPT ![w] = NoMessage]

-------------------------------------------------------------------------------
(* The stream *)

Originals == {i \in DOMAIN stream : stream[i].of = NoMessage}
CopiesOf(i) == {j \in DOMAIN stream : stream[j].of = i}

\* A new consumer starts after what is stored already.
Store(subject, m, of) ==
  /\ stream' = Append(stream, [subject |-> subject, message |-> m, of |-> of])
  /\ place' = Append(place, IF durable THEN "ahead" ELSE "passed")

\* publish: the stream acks a message whose id it remembers and doesn't store it.
Publish(m) ==
  /\ m \notin window
  /\ Cardinality(Originals) < MaxStored
  /\ Store(TypeOf[m], m, NoMessage)
  /\ window' = window \cup {m}
  /\ owed' = IF TypeOf[m] \in subscribed THEN owed \cup {Len(stream) + 1} ELSE owed
  /\ UNCHANGED <<consumerVars, instanceVars, subscribed>>

\* The duplicate window of a message ends.
Forget(m) ==
  /\ m \in window
  /\ window' = window \ {m}
  /\ UNCHANGED <<stream, consumerVars, place, instanceVars, ghostVars>>

\* Slip: the copy carries the id of its message, so that the stream may drop it.
StoreCopyWithId(i) ==
  IF stream[i].message \in window
  THEN UNCHANGED <<stream, place>>
  ELSE Store(ErrorType, stream[i].message, i)

\* The copy goes to the error subject without Nats-Msg-Id. A second copy of one
\* message is not told apart from the first.
StoreCopy(i) ==
  IF CopiesOf(i) = {} THEN Store(ErrorType, stream[i].message, i) ELSE UNCHANGED <<stream, place>>

-------------------------------------------------------------------------------
(* Subscribing *)

\* The rest of a deploy may wait for the instance that is starting, and for what
\* is still on its way of one that failed to.
MayStart == OneStarts => \A w \in Instances : phase[w] # "creating"

\* Slip: the filter is the instance's own types.
ReadConsumerOwnTypes(w) ==
  /\ phase[w] = "down"
  /\ TypesOf[w] # {}
  /\ MayStart
  /\ subjects' = [subjects EXCEPT ![w] = TypesOf[w]]
  /\ Goes(w, "creating")
  /\ UNCHANGED <<streamVars, consumerVars, place, job, ghostVars>>

\* subscribe up to its look at the consumer: the subjects are the instance's own
\* and the ones the consumer has.
ReadConsumer(w) ==
  /\ phase[w] = "down"
  /\ TypesOf[w] # {}
  /\ MayStart
  /\ subjects' = [subjects EXCEPT ![w] = TypesOf[w] \cup (IF durable THEN filter ELSE {})]
  /\ Goes(w, "creating")
  /\ UNCHANGED <<streamVars, consumerVars, place, job, ghostVars>>

\* create_consumer makes the consumer, or gives the existing one this filter.
WriteConsumer(w) == durable' = TRUE /\ filter' = subjects[w]

CreateConsumer(w) ==
  /\ phase[w] = "creating"
  /\ WriteConsumer(w)
  /\ subscribed' = subscribed \cup TypesOf[w]
  /\ subjects' = [subjects EXCEPT ![w] = {}]
  /\ Goes(w, "pulling")
  /\ UNCHANGED <<streamVars, place, job, owed>>

\* subscribe fails, before or after the server wrote the consumer.
CreateFails(w) ==
  /\ phase[w] = "creating"
  /\ WriteConsumer(w) \/ UNCHANGED consumerVars
  /\ subjects' = [subjects EXCEPT ![w] = {}]
  /\ Goes(w, "down")
  /\ UNCHANGED <<streamVars, place, job, ghostVars>>

-------------------------------------------------------------------------------
(* The consumer *)

Taken(i) == filter = {} \/ stream[i].subject \in filter

\* The first message the consumer has not come to.
Upcoming(i) == place[i] = "ahead" /\ \A j \in 1..(i - 1) : place[j] # "ahead"

\* The consumer goes past a message its filter doesn't take, for good.
Pass(i) ==
  /\ Upcoming(i)
  /\ ~Taken(i)
  /\ place' = [place EXCEPT ![i] = "passed"]
  /\ UNCHANGED <<streamVars, consumerVars, instanceVars, ghostVars>>

\* read: an envelope goes to the runtime, anything else is set aside.
Deliver(w, i) ==
  /\ phase[w] = "pulling"
  /\ place[i] = "waiting" \/ (Upcoming(i) /\ Taken(i))
  /\ place' = [place EXCEPT ![i] = "out"]
  /\ job' = [job EXCEPT ![w] = i]
  /\ Goes(w, IF stream[i].message \in Unreadable THEN "copying" ELSE "handling")
  /\ UNCHANGED <<streamVars, consumerVars, subjects, ghostVars>>

\* The ack wait, whether or not an instance still has the message.
AckWaitEnds(i) ==
  /\ place[i] = "out"
  /\ place' = [place EXCEPT ![i] = "waiting"]
  /\ UNCHANGED <<streamVars, consumerVars, instanceVars, ghostVars>>

\* settle: the server confirms it. A message settled for good stays so.
Settle(w, end) ==
  /\ place' = IF place[job[w]] \in Settled THEN place ELSE [place EXCEPT ![job[w]] = end]
  /\ Drops(w, "pulling")
  /\ UNCHANGED <<streamVars, consumerVars, subjects, ghostVars>>

Ack(w) == phase[w] = "handling" /\ Settle(w, "acked")
Retry(w) == phase[w] \in {"handling", "retrying"} /\ Settle(w, "waiting")
Reject(w) == phase[w] = "terminating" /\ Settle(w, "terminated")

\* The server's confirmation does not come.
SettleFails(w) ==
  /\ phase[w] \in {"handling", "retrying", "terminating"}
  /\ Drops(w, "pulling")
  /\ UNCHANGED <<streamVars, consumerVars, place, subjects, ghostVars>>

\* publish_error, and set_aside of what is no envelope: the copy comes first.
CopyAside(w) ==
  /\ phase[w] \in {"handling", "copying"}
  /\ StoreCopy(job[w])
  /\ Goes(w, "terminating")
  /\ UNCHANGED <<window, consumerVars, subjects, job, ghostVars>>

\* The copy is not confirmed, stored or not. The runtime retries its delivery;
\* what is no envelope comes again after the ack wait.
CopyAsideFails(w) ==
  /\ phase[w] \in {"handling", "copying"}
  /\ StoreCopy(job[w]) \/ UNCHANGED <<stream, place>>
  /\ IF phase[w] = "handling" THEN Goes(w, "retrying") /\ UNCHANGED job ELSE Drops(w, "pulling")
  /\ UNCHANGED <<window, consumerVars, subjects, ghostVars>>

\* The process dies, or its loop ends; another may start in its place. A request
\* that still takes effect is one that failed before the crash.
Crash(w) ==
  /\ phase[w] # "down"
  /\ Drops(w, "down")
  /\ subjects' = [subjects EXCEPT ![w] = {}]
  /\ UNCHANGED <<streamVars, consumerVars, place, ghostVars>>

-------------------------------------------------------------------------------

Subscribe(w) == ReadConsumer(w) \/ CreateConsumer(w) \/ CreateFails(w)

Handle(w) == \/ Ack(w) \/ Retry(w) \/ Reject(w) \/ SettleFails(w)
             \/ CopyAside(w) \/ CopyAsideFails(w)

Next ==
  \/ \E m \in Messages : Publish(m) \/ Forget(m)
  \/ \E w \in Instances : Subscribe(w) \/ Handle(w) \/ Crash(w)
  \/ \E w \in Instances, i \in DOMAIN stream : Deliver(w, i)
  \/ \E i \in DOMAIN stream : Pass(i) \/ AckWaitEnds(i)

Spec == Init /\ [][Next]_vars

-------------------------------------------------------------------------------
(* Safety *)

TypeOK ==
  /\ stream \in Seq([subject : Subjects, message : Messages, of : Nat])
  /\ \A i \in DOMAIN stream : stream[i].of < i
  /\ place \in Seq(Places) /\ Len(place) = Len(stream)
  /\ window \in SUBSET Messages
  /\ durable \in BOOLEAN
  /\ filter \in SUBSET Types
  /\ phase \in [Instances -> Phases]
  /\ subjects \in [Instances -> SUBSET Types]
  /\ job \in [Instances -> {NoMessage} \cup DOMAIN stream]
  /\ \A w \in Instances : phase[w] \in {"handling", "retrying", "copying", "terminating"}
                            <=> job[w] # NoMessage
  /\ subscribed \in SUBSET Types
  /\ owed \in SUBSET DOMAIN stream

\* What is published after an instance has subscribed to its type is never
\* passed over, whichever instances with other types start, fail to and crash
\* later (subscribe: the filter keeps the subjects it has).
OwedIsNotPassed == \A i \in owed : place[i] # "passed"

\* No message is terminated without a copy on the error subject, though the
\* stream remembers the id of the one it is copied from (set_aside, publish_error).
TerminatedHasCopy == \A i \in DOMAIN place : place[i] = "terminated" => CopiesOf(i) # {}

\* An error copy is never delivered to the endpoint it was set aside from
\* (subscribe: an empty filter would take the error subjects too).
CopiesStayAside == \A i \in DOMAIN place : stream[i].of # NoMessage => place[i] \in {"ahead", "passed"}

\* An endpoint takes everything it subscribed to and nothing that it set aside.
TakesItsOwn == OwedIsNotPassed /\ CopiesStayAside

\* The comments say of the consumer's filter that it keeps the subjects it has,
\* and only widens. It is not so when two instances start at once.
FilterOnlyWidens == [][durable => filter \subseteq filter']_filter

-------------------------------------------------------------------------------
(* Liveness *)

\* The server delivers and the ack wait runs; instances start, handle what they
\* have, and from some time on crash no more; and what is tried again and again
\* is done at last.
Fairness ==
  /\ \A i \in 1..(2 * MaxStored) :
       /\ WF_vars(i \in DOMAIN stream /\ Pass(i))
       /\ WF_vars(i \in DOMAIN stream /\ AckWaitEnds(i))
       /\ SF_vars(\E w \in Instances : i \in DOMAIN stream /\ Deliver(w, i))
       /\ \A w \in Instances :
            /\ SF_vars(job[w] = i /\ (Ack(w) \/ CopyAside(w)))
            /\ SF_vars(job[w] = i /\ Reject(w))
  /\ \A w \in Instances : /\ WF_vars(Subscribe(w)) /\ SF_vars(CreateConsumer(w))
                          /\ WF_vars(Handle(w))
                          /\ <>[][~Crash(w)]_vars

FairSpec == Spec /\ Fairness

\* Every message an instance has subscribed to is in the end acked, or
\* terminated with its copy set aside, also one that is no envelope.
EveryOwedIsSettled ==
  \A i \in 1..(2 * MaxStored) : i \in owed ~> i \in DOMAIN place /\ place[i] \in Settled

===============================================================================
