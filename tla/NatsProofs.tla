------------------------------- MODULE NatsProofs -------------------------------
(***************************************************************************)
(* What holds of NatsTransport for any types, messages, instances and      *)
(* number of messages stored.                                              *)
(***************************************************************************)
EXTENDS NatsTransport, TLAPS

USE DEF streamVars, consumerVars, instanceVars, ghostVars

-------------------------------------------------------------------------------
(* The inductive invariant, by its parts *)

\* An instance that is about to write the consumer has types of its own in its
\* filter: it never writes the empty filter, which takes everything.
WritersInv ==
  \A w \in Instances : phase[w] = "creating" => TypesOf[w] # {} /\ TypesOf[w] \subseteq subjects[w]

\* The consumer has a filter, and nothing lay ahead of it before it was there.
ConsumerInv ==
  /\ durable => filter # {}
  /\ ~durable => \A i \in DOMAIN place : place[i] = "passed"

\* An error copy is on the error subject, where the consumer only goes past it.
CopiesInv ==
  \A i \in DOMAIN stream : stream[i].of # NoMessage =>
    stream[i].subject = ErrorType /\ place[i] \in {"ahead", "passed"}

\* What an instance has, the consumer came to and took.
JobsInv == \A w \in Instances : job[w] # NoMessage => place[job[w]] \notin {"ahead", "passed"}

\* The copy of what an instance is about to terminate is stored.
TerminatingInv == \A w \in Instances : phase[w] = "terminating" => CopiesOf(job[w]) # {}

\* All this is so however the instances start.
IInv == TypeOK /\ WritersInv /\ ConsumerInv /\ CopiesInv /\ JobsInv /\ TerminatingInv
        /\ TerminatedHasCopy

\* When one starts after the other, the one that is about to write the consumer
\* has seen the filter that is there; and the filter has every type subscribed.
OneWriterInv ==
  /\ \A v, w \in Instances : phase[v] = "creating" /\ phase[w] = "creating" => v = w
  /\ \A w \in Instances : phase[w] = "creating" /\ durable => filter \subseteq subjects[w]

SubscribedInv == subscribed \subseteq filter /\ (subscribed # {} => durable)

OwedInv == \A i \in owed : place[i] # "passed" /\ stream[i].subject \in subscribed

OneInv == OneWriterInv /\ SubscribedInv /\ OwedInv

-------------------------------------------------------------------------------
(* What the actions' parts do to the stored messages *)

\* Storing a message leaves the ones before it, and where they are, as they were.
LEMMA StoreAppends ==
  ASSUME TypeOK, NEW subject \in Subjects, NEW m \in Messages, NEW of \in 0..Len(stream),
         Store(subject, m, of)
  PROVE  /\ stream' \in Seq([subject : Subjects, message : Messages, of : Nat])
         /\ place' \in Seq(Places)
         /\ Len(stream') = Len(stream) + 1 /\ Len(place') = Len(stream')
         /\ \A i : i \in DOMAIN stream' <=> i \in DOMAIN stream \/ i = Len(stream) + 1
         /\ DOMAIN stream = 1..Len(stream) /\ DOMAIN place = DOMAIN stream
         /\ DOMAIN place' = DOMAIN stream'
         /\ \A i \in DOMAIN stream : stream'[i] = stream[i] /\ place'[i] = place[i]
         /\ stream'[Len(stream) + 1].subject = subject /\ stream'[Len(stream) + 1].of = of
         /\ place'[Len(stream) + 1] = IF durable THEN "ahead" ELSE "passed"
<1> DEFINE stored == [subject |-> subject, message |-> m, of |-> of]
           at == IF durable THEN "ahead" ELSE "passed"
<1>1. stored \in [subject : Subjects, message : Messages, of : Nat] /\ at \in Places
  BY DEF Places
<1>2. stream' = Append(stream, stored) /\ place' = Append(place, at)
  BY DEF Store
<1> HIDE DEF stored, at
<1>3. stream' \in Seq([subject : Subjects, message : Messages, of : Nat]) /\ place' \in Seq(Places)
  BY <1>1, <1>2 DEF TypeOK
<1>4. /\ Len(stream') = Len(stream) + 1 /\ Len(place') = Len(stream')
      /\ DOMAIN stream = 1..Len(stream) /\ DOMAIN place = DOMAIN stream
      /\ DOMAIN stream' = 1..(Len(stream) + 1) /\ DOMAIN place' = DOMAIN stream'
      /\ Len(stream) \in Nat
  BY <1>1, <1>2 DEF TypeOK
<1>5. /\ \A i \in DOMAIN stream : stream'[i] = stream[i] /\ place'[i] = place[i]
      /\ stream'[Len(stream) + 1] = stored
      /\ place'[Len(stream) + 1] = at
  BY <1>1, <1>2 DEF TypeOK
<1>6. QED
  BY <1>3, <1>4, <1>5 DEF stored, at

\* Where one message is changes; the others stay where they are.
LEMMA PlaceChanges ==
  ASSUME TypeOK, NEW i \in DOMAIN stream, NEW p \in Places, place' = [place EXCEPT ![i] = p]
  PROVE  /\ place' \in Seq(Places) /\ Len(place') = Len(place)
         /\ DOMAIN place' = DOMAIN place /\ DOMAIN place = DOMAIN stream
         /\ place'[i] = p
         /\ \A j \in DOMAIN stream \ {i} : place'[j] = place[j]
BY DEF TypeOK

\* Every stored message has its fields and its place.
LEMMA StoredTypes ==
  ASSUME TypeOK
  PROVE  /\ Len(stream) \in Nat /\ DOMAIN stream = 1..Len(stream) /\ DOMAIN place = DOMAIN stream
         /\ \A i \in DOMAIN stream : /\ stream[i].subject \in Subjects
                                     /\ stream[i].message \in Messages
                                     /\ stream[i].of \in Nat /\ stream[i].of < i
                                     /\ place[i] \in Places
<1>1. Len(stream) \in Nat /\ DOMAIN stream = 1..Len(stream) /\ DOMAIN place = DOMAIN stream
  BY DEF TypeOK
<1>2. ASSUME NEW i \in DOMAIN stream
      PROVE  /\ stream[i].subject \in Subjects /\ stream[i].message \in Messages
             /\ stream[i].of \in Nat /\ stream[i].of < i /\ place[i] \in Places
  <2> DEFINE Stored == [subject : Subjects, message : Messages, of : Nat]
  <2>1. stream \in Seq(Stored) /\ place \in Seq(Places)
    BY DEF TypeOK
  <2> HIDE DEF Stored
  <2>2. stream[i] \in Stored /\ place[i] \in Places
    BY <2>1, <1>1
  <2>3. QED
    BY <2>2 DEF TypeOK, Stored
<1>3. QED
  BY <1>1, <1>2

-------------------------------------------------------------------------------
(* Type correctness *)

\* What TypeOK says of the stored messages, and of the rest.
StreamType ==
  /\ stream \in Seq([subject : Subjects, message : Messages, of : Nat])
  /\ \A i \in DOMAIN stream : stream[i].of < i
  /\ place \in Seq(Places) /\ Len(place) = Len(stream)

RestType ==
  /\ window \in SUBSET Messages
  /\ durable \in BOOLEAN
  /\ filter \in SUBSET Types
  /\ phase \in [Instances -> Phases]
  /\ subjects \in [Instances -> SUBSET Types]
  /\ job \in [Instances -> {NoMessage} \cup DOMAIN stream]
  /\ \A w \in Instances : phase[w] \in {"handling", "retrying", "copying", "terminating"}
                            <=> job[w] # NoMessage
  /\ subscribed \in SUBSET Types
  /\ owed \in SUBSET DOMAIN stream

\* The stored messages keep their type in each of the ways that they change.
LEMMA StreamTypeKept ==
  ASSUME TypeOK
  PROVE  /\ \A subject \in Subjects, m \in Messages, of \in 0..Len(stream) :
              Store(subject, m, of) => StreamType' /\ DOMAIN stream \subseteq DOMAIN stream'
                                       /\ Len(stream) + 1 \in DOMAIN stream'
         /\ \A i \in DOMAIN stream, p \in Places :
              UNCHANGED stream /\ place' = [place EXCEPT ![i] = p] => StreamType'
         /\ UNCHANGED <<stream, place>> => StreamType'
<1>1. ASSUME NEW subject \in Subjects, NEW m \in Messages, NEW of \in 0..Len(stream),
             Store(subject, m, of)
      PROVE  StreamType' /\ DOMAIN stream \subseteq DOMAIN stream' /\ Len(stream) + 1 \in DOMAIN stream'
  <2>1. ASSUME NEW i \in DOMAIN stream' PROVE stream'[i].of < i
    <3>1. CASE i \in DOMAIN stream
      BY <1>1, <3>1, StoreAppends, StoredTypes
    <3>2. CASE i = Len(stream) + 1
      <4>1. stream'[i].of = of
        BY <1>1, <3>2, StoreAppends
      <4>2. QED
        BY <3>2, <4>1, StoredTypes
    <3>3. QED
      BY <1>1, <3>1, <3>2, StoreAppends
  <2>2. QED
    BY <1>1, <2>1, StoreAppends DEF StreamType
<1>2. ASSUME NEW i \in DOMAIN stream, NEW p \in Places,
             UNCHANGED stream, place' = [place EXCEPT ![i] = p]
      PROVE  StreamType'
  BY <1>2, PlaceChanges DEF TypeOK, StreamType
<1>3. UNCHANGED <<stream, place>> => StreamType'
  BY DEF TypeOK, StreamType
<1>4. QED
  BY <1>1, <1>2, <1>3

\* An error copy may be stored, or not.
LEMMA CopyKeepsType ==
  ASSUME TypeOK, NEW i \in DOMAIN stream, StoreCopy(i) \/ UNCHANGED <<stream, place>>
  PROVE  StreamType' /\ DOMAIN stream \subseteq DOMAIN stream'
<1>1. stream[i].message \in Messages /\ i \in 0..Len(stream) /\ ErrorType \in Subjects
  BY StoredTypes DEF Subjects
<1>2. CASE Store(ErrorType, stream[i].message, i)
  BY <1>1, <1>2, StreamTypeKept
<1>3. CASE UNCHANGED <<stream, place>>
  BY <1>3, StreamTypeKept
<1>4. QED
  BY <1>2, <1>3 DEF StoreCopy

\* Every variable keeps its type.
LEMMA TypePreserved == TypeOK /\ [Next]_vars => TypeOK'
<1> SUFFICES ASSUME TypeOK, [Next]_vars PROVE TypeOK'
  OBVIOUS
<1>1. RestType /\ (StreamType' /\ RestType' => TypeOK')
  BY DEF TypeOK, StreamType, RestType
<1> USE DEF NoMessage, RestType, Phases, Goes
<1>2. ASSUME NEW w \in Instances, Subscribe(w) PROVE TypeOK'
  <2>1. StreamType'
    BY <1>2, StreamTypeKept DEF Subscribe, ReadConsumer, CreateConsumer, CreateFails
  <2>2. CASE ReadConsumer(w)
    BY <2>2, <2>1, <1>1, TypesAssumption DEF ReadConsumer
  <2>3. CASE CreateConsumer(w)
    BY <2>3, <2>1, <1>1, TypesAssumption DEF CreateConsumer, WriteConsumer
  <2>4. CASE CreateFails(w)
    BY <2>4, <2>1, <1>1 DEF CreateFails, WriteConsumer
  <2>5. QED
    BY <1>2, <2>2, <2>3, <2>4 DEF Subscribe
<1>3. ASSUME NEW m \in Messages, Publish(m) \/ Forget(m) PROVE TypeOK'
  <2>1. CASE Publish(m)
    <3>1. Store(TypeOf[m], m, NoMessage) /\ TypeOf[m] \in Subjects
      BY <2>1, TypesAssumption DEF Publish, Subjects
    <3>2. /\ StreamType' /\ DOMAIN stream \subseteq DOMAIN stream'
          /\ Len(stream) + 1 \in DOMAIN stream'
      BY <3>1, StreamTypeKept, StoredTypes
    <3>3. QED
      BY <2>1, <3>2, <1>1 DEF Publish
  <2>2. CASE Forget(m)
    BY <2>2, <1>1, StreamTypeKept DEF Forget
  <2>3. QED
    BY <1>3, <2>1, <2>2
<1>4. ASSUME NEW w \in Instances, NEW i \in DOMAIN stream, Deliver(w, i) PROVE TypeOK'
  <2>1. StreamType'
    BY <1>4, StreamTypeKept DEF Deliver, Places
  <2>2. 0 \notin DOMAIN stream
    BY StoredTypes
  <2>3. QED
    BY <1>4, <2>1, <2>2, <1>1 DEF Deliver
<1>5. ASSUME NEW i \in DOMAIN stream, Pass(i) \/ AckWaitEnds(i) PROVE TypeOK'
  <2>1. StreamType'
    BY <1>5, StreamTypeKept DEF Pass, AckWaitEnds, Places
  <2>2. QED
    BY <1>5, <2>1, <1>1 DEF Pass, AckWaitEnds
<1>6. ASSUME NEW w \in Instances, Handle(w) PROVE TypeOK'
  <2>1. CASE Ack(w) \/ Retry(w) \/ Reject(w)
    <3>1. job[w] \in DOMAIN stream
      BY <2>1, <1>1 DEF Ack, Retry, Reject
    <3>2. StreamType'
      BY <2>1, <3>1, StreamTypeKept DEF Ack, Retry, Reject, Settle, Places, Settled
    <3>3. QED
      BY <2>1, <3>2, <1>1 DEF Ack, Retry, Reject, Settle, Drops
  <2>2. CASE SettleFails(w)
    BY <2>2, <1>1, StreamTypeKept DEF SettleFails, Drops
  <2>3. CASE CopyAside(w)
    <3>1. job[w] \in DOMAIN stream
      BY <2>3, <1>1 DEF CopyAside
    <3>2. StreamType' /\ DOMAIN stream \subseteq DOMAIN stream'
      BY <2>3, <3>1, CopyKeepsType DEF CopyAside
    <3>3. QED
      BY <2>3, <3>2, <1>1 DEF CopyAside
  <2>4. CASE CopyAsideFails(w)
    <3>1. job[w] \in DOMAIN stream
      BY <2>4, <1>1 DEF CopyAsideFails
    <3>2. StreamType' /\ DOMAIN stream \subseteq DOMAIN stream'
      BY <2>4, <3>1, CopyKeepsType DEF CopyAsideFails
    <3>3. QED
      BY <2>4, <3>2, <1>1 DEF CopyAsideFails, Drops
  <2>5. QED
    BY <1>6, <2>1, <2>2, <2>3, <2>4 DEF Handle
<1>7. ASSUME NEW w \in Instances, Crash(w) PROVE TypeOK'
  BY <1>7, <1>1, StreamTypeKept DEF Crash, Drops
<1>8. CASE UNCHANGED vars
  BY <1>8 DEF vars, TypeOK
<1>9. QED
  BY <1>2, <1>3, <1>4, <1>5, <1>6, <1>7, <1>8 DEF Next

\* Whatever is published, delivered and set aside, every variable keeps its type:
\* the places are those of the stored messages, and an instance has a message
\* exactly while it handles one.
THEOREM TypeCorrect == Spec => []TypeOK
<1>1. ASSUME Init PROVE TypeOK
  <2>1. StreamType
    BY <1>1 DEF Init, StreamType
  <2>2. RestType
    BY <1>1 DEF Init, RestType, Phases, NoMessage
  <2>3. QED
    BY <2>1, <2>2 DEF TypeOK, StreamType, RestType
<1>2. QED
  BY <1>1, TypePreserved, PTL DEF Spec

-------------------------------------------------------------------------------
(* However the instances start *)

StoreInv == ConsumerInv /\ CopiesInv /\ TerminatedHasCopy

\* What holds of the stored messages still does when one is stored, an original
\* or an error copy; and no copy of a message is lost.
LEMMA StoreKeeps ==
  ASSUME IInv, NEW subject \in Subjects, NEW m \in Messages, NEW of \in 0..Len(stream),
         of # NoMessage => subject = ErrorType, Store(subject, m, of), UNCHANGED consumerVars
  PROVE  /\ StoreInv'
         /\ \A i \in DOMAIN stream : place'[i] = place[i] /\ CopiesOf(i) \subseteq CopiesOf(i)'
<1> USE DEF IInv
<1>1. \A i \in DOMAIN stream : place'[i] = place[i] /\ CopiesOf(i) \subseteq CopiesOf(i)'
  BY StoreAppends DEF CopiesOf
<1>2. ConsumerInv'
  BY StoreAppends DEF ConsumerInv
<1>3. CopiesInv'
  <2>1. ASSUME NEW i \in DOMAIN stream', stream'[i].of # NoMessage
        PROVE  stream'[i].subject = ErrorType /\ place'[i] \in {"ahead", "passed"}
    <3>1. CASE i \in DOMAIN stream
      BY <2>1, <3>1, StoreAppends DEF CopiesInv
    <3>2. CASE i = Len(stream) + 1
      BY <2>1, <3>2, StoreAppends
    <3>3. QED
      BY <3>1, <3>2, StoreAppends
  <2>2. QED
    BY <2>1 DEF CopiesInv
<1>4. TerminatedHasCopy'
  BY <1>1, StoreAppends DEF TerminatedHasCopy
<1>5. QED
  BY <1>1, <1>2, <1>3, <1>4 DEF StoreInv

\* It does when the place of an original changes, if what is terminated has a copy.
LEMMA PlaceKeeps ==
  ASSUME IInv, NEW i \in DOMAIN stream, NEW p \in Places \ {"ahead", "passed"},
         place' = [place EXCEPT ![i] = p], UNCHANGED <<stream, consumerVars>>,
         stream[i].of = NoMessage, durable, p = "terminated" => CopiesOf(i) # {}
  PROVE  StoreInv' /\ \A j \in DOMAIN stream : CopiesOf(j)' = CopiesOf(j)
<1> USE PlaceChanges DEF IInv
<1>1. \A j \in DOMAIN stream : CopiesOf(j)' = CopiesOf(j)
  BY DEF CopiesOf
<1>2. ConsumerInv'
  BY DEF ConsumerInv
<1>3. CopiesInv'
  BY DEF CopiesInv
<1>4. TerminatedHasCopy'
  <2>1. ASSUME NEW j \in DOMAIN stream, place'[j] = "terminated" PROVE CopiesOf(j)' # {}
    <3>1. CopiesOf(j) # {}
      <4>1. CASE j = i
        BY <2>1, <4>1
      <4>2. CASE j # i
        BY <2>1, <4>2 DEF TerminatedHasCopy
      <4>3. QED
        BY <4>1, <4>2
    <3>2. QED
      BY <3>1, <1>1
  <2>2. QED
    BY <2>1 DEF TerminatedHasCopy
<1>5. QED
  BY <1>1, <1>2, <1>3, <1>4 DEF StoreInv

\* It does when nothing is stored and nothing changes place.
LEMMA NothingMoves ==
  ASSUME IInv, UNCHANGED <<stream, place, consumerVars>>
  PROVE  StoreInv' /\ \A j \in DOMAIN stream : CopiesOf(j)' = CopiesOf(j)
BY DEF IInv, StoreInv, ConsumerInv, CopiesInv, TerminatedHasCopy, CopiesOf

\* What the consumer takes is an original, as no filter has the error subject.
LEMMA TakenIsOriginal ==
  ASSUME IInv, NEW i \in DOMAIN stream, place[i] = "waiting" \/ (Upcoming(i) /\ Taken(i))
  PROVE  stream[i].of = NoMessage /\ durable
<1>1. filter \subseteq Types /\ ErrorType \notin Types /\ DOMAIN place = DOMAIN stream
  BY StoredTypes, TypesAssumption DEF IInv, TypeOK
<1>2. durable
  BY <1>1 DEF IInv, ConsumerInv, Upcoming
<1>3. QED
  BY <1>1, <1>2 DEF IInv, ConsumerInv, CopiesInv, Upcoming, Taken

\* So is what an instance has in hand.
LEMMA JobIsOriginal ==
  ASSUME IInv, NEW w \in Instances, job[w] # NoMessage
  PROVE  job[w] \in DOMAIN stream /\ stream[job[w]].of = NoMessage /\ durable
BY StoredTypes DEF IInv, TypeOK, JobsInv, CopiesInv, ConsumerInv

\* An error copy is stored, or nothing is: either way the stored messages keep
\* what holds of them, and in the first case the message has its copy.
LEMMA CopyKeeps ==
  ASSUME IInv, NEW i \in DOMAIN stream, UNCHANGED consumerVars,
         StoreCopy(i) \/ UNCHANGED <<stream, place>>
  PROVE  /\ StoreInv'
         /\ \A j \in DOMAIN stream : place'[j] = place[j] /\ CopiesOf(j) \subseteq CopiesOf(j)'
         /\ StoreCopy(i) => CopiesOf(i)' # {}
<1>1. stream[i].message \in Messages /\ i \in 0..Len(stream) /\ ErrorType \in Subjects
  BY StoredTypes DEF IInv, Subjects
<1>2. CASE Store(ErrorType, stream[i].message, i)
  <2>1. CopiesOf(i)' # {}
    <3>1. Len(stream) + 1 \in DOMAIN stream' /\ stream'[Len(stream) + 1].of = i
      BY <1>1, <1>2, StoreAppends DEF IInv
    <3>2. QED
      BY <3>1 DEF CopiesOf
  <2>2. QED
    BY <1>1, <1>2, <2>1, StoreKeeps
<1>3. CASE UNCHANGED <<stream, place>> /\ (StoreCopy(i) => CopiesOf(i) # {})
  BY <1>3, NothingMoves
<1>4. CASE UNCHANGED <<stream, place>> /\ StoreCopy(i) /\ CopiesOf(i) = {}
  BY <1>2, <1>4 DEF StoreCopy
<1>5. QED
  BY <1>2, <1>3, <1>4 DEF StoreCopy

\* What holds of the instances, by what each may do: a writer keeps its own types,
\* a place only leaves what was come to, and copies are not lost.
WorkersInv == WritersInv /\ JobsInv /\ TerminatingInv

LEMMA WorkersKeep ==
  ASSUME IInv,
         \A w \in Instances : phase'[w] = "creating" =>
           TypesOf[w] # {} /\ TypesOf[w] \subseteq subjects'[w],
         \A w \in Instances : job'[w] # NoMessage =>
           \/ job'[w] = job[w]
           \/ job'[w] \in DOMAIN stream /\ place'[job'[w]] \notin {"ahead", "passed"},
         \A w \in Instances : phase'[w] = "terminating" =>
           job'[w] = job[w] /\ job[w] # NoMessage
             /\ (phase[w] = "terminating" \/ CopiesOf(job[w])' # {}),
         \A i \in DOMAIN stream : /\ place[i] \notin {"ahead", "passed"} => place'[i] \notin {"ahead", "passed"}
                                 /\ CopiesOf(i) \subseteq CopiesOf(i)'
  PROVE  WorkersInv'
<1>1. \A w \in Instances : job[w] # NoMessage => job[w] \in DOMAIN stream
  BY JobIsOriginal
<1>2. JobsInv'
  BY <1>1 DEF IInv, JobsInv
<1>3. TerminatingInv'
  <2>1. ASSUME NEW w \in Instances, phase'[w] = "terminating" PROVE CopiesOf(job[w])' # {}
    BY <1>1, <2>1 DEF IInv, TerminatingInv, CopiesOf
  <2>2. QED
    BY <2>1 DEF TerminatingInv
<1>4. QED
  BY <1>2, <1>3 DEF WorkersInv, WritersInv

LEMMA IInvPreserved == IInv /\ [Next]_vars => IInv'
<1> SUFFICES ASSUME IInv, [Next]_vars PROVE IInv'
  OBVIOUS
<1>1. TypeOK /\ TypeOK' /\ (StoreInv' /\ WorkersInv' => IInv')
  BY TypePreserved DEF IInv, StoreInv, WorkersInv
<1>2. phase \in [Instances -> Phases] /\ subjects \in [Instances -> SUBSET Types]
      /\ job \in [Instances -> {NoMessage} \cup DOMAIN stream]
      /\ DOMAIN place = DOMAIN stream /\ NoMessage \notin DOMAIN stream
      /\ \A w \in Instances : phase[w] \in {"handling", "retrying", "copying", "terminating"}
                               <=> job[w] # NoMessage
  BY <1>1, StoredTypes DEF TypeOK, NoMessage
<1>3. \A w \in Instances : phase[w] = "creating" => TypesOf[w] # {} /\ TypesOf[w] \subseteq subjects[w]
  BY DEF IInv, WritersInv
<1> HIDE DEF NoMessage
<1> USE DEF Goes
<1>4. ASSUME NEW w \in Instances, Subscribe(w) PROVE IInv'
  <2>1. UNCHANGED <<stream, place, job>>
    BY <1>4 DEF Subscribe, ReadConsumer, CreateConsumer, CreateFails
  <2>2. \A i \in DOMAIN stream : CopiesOf(i)' = CopiesOf(i)
    BY <2>1 DEF CopiesOf
  <2>3. WorkersInv'
    <3>1. CASE ReadConsumer(w)
      BY <3>1, <2>1, <2>2, <1>2, <1>3, WorkersKeep DEF ReadConsumer
    <3>2. CASE CreateConsumer(w)
      BY <3>2, <2>1, <2>2, <1>2, <1>3, WorkersKeep DEF CreateConsumer
    <3>3. CASE CreateFails(w)
      BY <3>3, <2>1, <2>2, <1>2, <1>3, WorkersKeep DEF CreateFails
    <3>4. QED
      BY <1>4, <3>1, <3>2, <3>3 DEF Subscribe
  <2>4. StoreInv'
    <3>1. CASE WriteConsumer(w) /\ phase[w] = "creating"
      <4>1. ConsumerInv'
        BY <3>1, <1>3 DEF WriteConsumer, ConsumerInv
      <4>2. CopiesInv' /\ TerminatedHasCopy'
        BY <2>1 DEF IInv, CopiesInv, TerminatedHasCopy, CopiesOf
      <4>3. QED
        BY <4>1, <4>2 DEF StoreInv
    <3>2. CASE UNCHANGED consumerVars
      BY <3>2, <2>1, NothingMoves
    <3>3. QED
      BY <1>4, <3>1, <3>2 DEF Subscribe, ReadConsumer, CreateConsumer, CreateFails
  <2>5. QED
    BY <1>1, <2>3, <2>4
<1>5. ASSUME NEW m \in Messages, Publish(m) \/ Forget(m) PROVE IInv'
  <2>1. CASE Publish(m)
    <3>1. /\ Store(TypeOf[m], m, NoMessage) /\ TypeOf[m] \in Subjects /\ NoMessage \in 0..Len(stream)
          /\ UNCHANGED <<consumerVars, instanceVars>>
      BY <2>1, <1>1, TypesAssumption, StoredTypes DEF Publish, Subjects, NoMessage
    <3>2. StoreInv' /\ \A i \in DOMAIN stream : place'[i] = place[i] /\ CopiesOf(i) \subseteq CopiesOf(i)'
      BY <3>1, StoreKeeps
    <3>3. QED
      BY <3>1, <3>2, <1>1, <1>2, <1>3, WorkersKeep
  <2>2. CASE Forget(m)
    BY <2>2, <1>1, <1>2, <1>3, NothingMoves, WorkersKeep DEF Forget
  <2>3. QED
    BY <1>5, <2>1, <2>2
<1>6. ASSUME NEW w \in Instances, NEW i \in DOMAIN stream, Deliver(w, i) PROVE IInv'
  <2>1. stream[i].of = NoMessage /\ durable
    BY <1>6, TakenIsOriginal DEF Deliver
  <2>2. StoreInv' /\ \A j \in DOMAIN stream : CopiesOf(j)' = CopiesOf(j)
    BY <1>6, <2>1, PlaceKeeps DEF Deliver, Places
  <2>3. QED
    BY <1>6, <2>2, <1>1, <1>2, <1>3, WorkersKeep DEF Deliver
<1>7. ASSUME NEW i \in DOMAIN stream, Pass(i) PROVE IInv'
  <2>1. \A j \in DOMAIN stream : CopiesOf(j)' = CopiesOf(j)
    BY <1>7 DEF Pass, CopiesOf
  <2>2. StoreInv'
    BY <1>7, <2>1, <1>2 DEF Pass, Upcoming, IInv, StoreInv, ConsumerInv, CopiesInv, TerminatedHasCopy
  <2>3. QED
    BY <1>7, <2>1, <2>2, <1>1, <1>2, <1>3, WorkersKeep DEF Pass, Upcoming
<1>8. ASSUME NEW i \in DOMAIN stream, AckWaitEnds(i) PROVE IInv'
  <2>1. stream[i].of = NoMessage /\ durable
    BY <1>8, <1>2 DEF AckWaitEnds, IInv, CopiesInv, ConsumerInv
  <2>2. StoreInv' /\ \A j \in DOMAIN stream : CopiesOf(j)' = CopiesOf(j)
    BY <1>8, <2>1, PlaceKeeps DEF AckWaitEnds, Places
  <2>3. QED
    BY <1>8, <2>2, <1>1, <1>2, <1>3, WorkersKeep DEF AckWaitEnds
<1>9. ASSUME NEW w \in Instances, Ack(w) \/ Retry(w) \/ Reject(w) PROVE IInv'
  <2> DEFINE i == job[w]
  <2>1. i \in DOMAIN stream /\ stream[i].of = NoMessage /\ durable
    BY <1>9, <1>2, JobIsOriginal DEF Ack, Retry, Reject
  <2>2. PICK end \in {"acked", "waiting", "terminated"} :
          Settle(w, end) /\ (end = "terminated" => phase[w] = "terminating")
    BY <1>9 DEF Ack, Retry, Reject
  <2>3. end = "terminated" => CopiesOf(i) # {}
    BY <2>2 DEF IInv, TerminatingInv
  <2>4. StoreInv' /\ \A j \in DOMAIN stream : CopiesOf(j)' = CopiesOf(j)
    <3>1. CASE place' = place
      BY <3>1, <2>2, NothingMoves DEF Settle
    <3>2. CASE place' = [place EXCEPT ![i] = end]
      BY <3>2, <2>1, <2>2, <2>3, PlaceKeeps DEF Settle, Places, Settled
    <3>3. QED
      BY <3>1, <3>2, <2>2 DEF Settle
  <2>5. QED
    BY <2>1, <2>2, <2>4, <1>1, <1>2, <1>3, WorkersKeep DEF Settle, Drops
<1>10. ASSUME NEW w \in Instances, SettleFails(w) \/ Crash(w) PROVE IInv'
  BY <1>10, <1>1, <1>2, <1>3, NothingMoves, WorkersKeep DEF SettleFails, Crash, Drops
<1>11. ASSUME NEW w \in Instances, CopyAside(w) \/ CopyAsideFails(w) PROVE IInv'
  <2>1. job[w] \in DOMAIN stream /\ job[w] # NoMessage
    BY <1>11, <1>2 DEF CopyAside, CopyAsideFails
  <2>2. /\ StoreInv'
        /\ \A j \in DOMAIN stream : place'[j] = place[j] /\ CopiesOf(j) \subseteq CopiesOf(j)'
        /\ CopyAside(w) => CopiesOf(job[w])' # {}
    BY <1>11, <2>1, CopyKeeps DEF CopyAside, CopyAsideFails
  <2>3. WorkersInv'
    BY <1>11, <2>1, <2>2, <1>2, <1>3, WorkersKeep DEF CopyAside, CopyAsideFails, Drops
  <2>4. QED
    BY <2>2, <2>3, <1>1
<1>12. CASE UNCHANGED vars
  BY <1>12, <1>1, <1>2, <1>3, NothingMoves, WorkersKeep DEF vars
<1>13. QED
  BY <1>4, <1>5, <1>6, <1>7, <1>8, <1>9, <1>10, <1>11, <1>12 DEF Next, Handle

\* However the instances start, write the filter, crash and come back.
THEOREM Inductive == Spec => []IInv
<1>1. ASSUME Init PROVE IInv
  <2>1. TypeOK
    <3>1. StreamType
      BY <1>1 DEF Init, StreamType
    <3>2. RestType
      BY <1>1 DEF Init, RestType, Phases, NoMessage
    <3>3. QED
      BY <3>1, <3>2 DEF TypeOK, StreamType, RestType
  <2>2. QED
    BY <1>1, <2>1 DEF Init, IInv, WritersInv, ConsumerInv, CopiesInv, JobsInv, TerminatingInv,
                      TerminatedHasCopy
<1>2. QED
  BY <1>1, IInvPreserved, PTL DEF Spec

\* No message is terminated without a copy on the error subject, though instances
\* crash between the two, lose confirmations and are delivered it again after the
\* ack wait (set_aside, publish_error: the copy is stored before the Term).
THEOREM TerminatedIsCopied == Spec => []TerminatedHasCopy
<1>1. IInv => TerminatedHasCopy
  BY DEF IInv
<1>2. QED
  BY <1>1, Inductive, PTL

\* The endpoint is never delivered its own error copies, however its instances
\* start: no filter is ever empty, and none has the error subject (subscribe).
THEOREM CopiesAreAside == Spec => []CopiesStayAside
<1>1. IInv => CopiesStayAside
  BY StoredTypes DEF IInv, CopiesInv, CopiesStayAside
<1>2. QED
  BY <1>1, Inductive, PTL

-------------------------------------------------------------------------------
(* When one instance starts after the other *)

\* The filter is only written by the one that starts, after a look at it.
LEMMA OneInvPreserved == OneStarts /\ IInv /\ OneInv /\ [Next]_vars => OneInv'
<1> SUFFICES ASSUME OneStarts, IInv, OneInv, [Next]_vars PROVE OneInv'
  OBVIOUS
<1>1. /\ phase \in [Instances -> Phases] /\ subjects \in [Instances -> SUBSET Types]
      /\ DOMAIN place = DOMAIN stream /\ owed \subseteq DOMAIN stream
      /\ \A w \in Instances : job[w] # NoMessage => job[w] \in DOMAIN stream
      /\ \A w \in Instances : phase[w] \in {"handling", "retrying", "copying", "terminating"}
                               <=> job[w] # NoMessage
  BY StoredTypes DEF IInv, TypeOK
<1>2. ASSUME UNCHANGED ghostVars, \A i \in DOMAIN stream : stream'[i] = stream[i]
               /\ (place[i] # "passed" => place'[i] # "passed")
      PROVE  OwedInv'
  BY <1>1, <1>2 DEF OneInv, OwedInv
<1>3. ASSUME UNCHANGED <<consumerVars, subscribed>>, \A w \in Instances : phase'[w] = "creating" =>
               phase[w] = "creating" /\ subjects'[w] = subjects[w]
      PROVE  OneWriterInv' /\ SubscribedInv'
  BY <1>3 DEF OneInv, OneWriterInv, SubscribedInv
<1> USE DEF Goes
<1>4. ASSUME NEW w \in Instances, ReadConsumer(w) PROVE OneInv'
  <2>1. OneWriterInv'
    BY <1>4, <1>1, TypesAssumption DEF ReadConsumer, MayStart, OneWriterInv, OneInv
  <2>2. OwedInv' /\ SubscribedInv'
    BY <1>4, <1>2 DEF ReadConsumer, OneInv, SubscribedInv
  <2>3. QED
    BY <2>1, <2>2 DEF OneInv
<1>5. ASSUME NEW w \in Instances, CreateConsumer(w) \/ CreateFails(w) PROVE OneInv'
  <2>1. \A v \in Instances : phase'[v] # "creating"
    BY <1>5, <1>1 DEF CreateConsumer, CreateFails, OneInv, OneWriterInv
  <2>2. TypesOf[w] \subseteq subjects[w] /\ (durable => filter \subseteq subjects[w])
    BY <1>5 DEF CreateConsumer, CreateFails, OneInv, OneWriterInv, IInv, WritersInv
  <2>3. SubscribedInv'
    BY <1>5, <2>2 DEF CreateConsumer, CreateFails, WriteConsumer, OneInv, SubscribedInv
  <2>4. OwedInv'
    BY <1>5 DEF CreateConsumer, CreateFails, OneInv, OwedInv
  <2>5. QED
    BY <2>1, <2>3, <2>4 DEF OneInv, OneWriterInv
<1>6. ASSUME NEW m \in Messages, Publish(m) PROVE OneInv'
  <2>1. Store(TypeOf[m], m, NoMessage) /\ TypeOf[m] \in Subjects /\ NoMessage \in 0..Len(stream)
    BY <1>6, TypesAssumption, StoredTypes DEF Publish, Subjects, NoMessage, IInv
  <2>2. OwedInv'
    <3>1. \A i \in owed : i \in DOMAIN stream /\ place[i] # "passed" /\ stream[i].subject \in subscribed
      BY <1>1 DEF OneInv, OwedInv
    <3>2. \A i \in DOMAIN stream : stream'[i] = stream[i] /\ place'[i] = place[i]
      BY <2>1, StoreAppends DEF IInv
    <3>3. TypeOf[m] \in subscribed => stream'[Len(stream) + 1].subject = TypeOf[m]
                                      /\ place'[Len(stream) + 1] = "ahead"
      BY <2>1, StoreAppends DEF IInv, OneInv, SubscribedInv
    <3>4. QED
      BY <1>6, <3>1, <3>2, <3>3 DEF Publish, OwedInv
  <2>3. QED
    BY <1>6, <2>2, <1>3 DEF Publish, OneInv
<1>7. ASSUME NEW w \in Instances, NEW i \in DOMAIN stream, Deliver(w, i) PROVE OneInv'
  BY <1>7, <1>1, <1>2, <1>3, PlaceChanges DEF Deliver, OneInv, IInv, Places
<1>8. ASSUME NEW i \in DOMAIN stream, Pass(i) PROVE OneInv'
  <2>1. i \notin owed
    BY <1>8 DEF Pass, Taken, OneInv, OwedInv, SubscribedInv
  <2>2. OwedInv'
    BY <1>8, <2>1, <1>1 DEF Pass, OneInv, OwedInv
  <2>3. QED
    BY <1>8, <2>2, <1>3 DEF Pass, OneInv
<1>9. ASSUME NEW i \in DOMAIN stream, AckWaitEnds(i) PROVE OneInv'
  BY <1>9, <1>2, <1>3, <1>1 DEF AckWaitEnds, OneInv
<1>10. ASSUME NEW w \in Instances, Ack(w) \/ Retry(w) \/ Reject(w) \/ SettleFails(w) PROVE OneInv'
  BY <1>10, <1>1, <1>2, <1>3 DEF Ack, Retry, Reject, Settle, SettleFails, Drops, OneInv
<1>11. ASSUME NEW w \in Instances, CopyAside(w) \/ CopyAsideFails(w) PROVE OneInv'
  <2>1. job[w] \in DOMAIN stream
    BY <1>11, <1>1 DEF CopyAside, CopyAsideFails
  <2>2. \A j \in DOMAIN stream : stream'[j] = stream[j] /\ place'[j] = place[j]
    <3>1. stream[job[w]].message \in Messages /\ job[w] \in 0..Len(stream) /\ ErrorType \in Subjects
      BY <2>1, StoredTypes DEF IInv, Subjects
    <3>2. CASE Store(ErrorType, stream[job[w]].message, job[w])
      BY <3>1, <3>2, StoreAppends DEF IInv
    <3>3. QED
      BY <1>11, <3>2 DEF CopyAside, CopyAsideFails, StoreCopy
  <2>3. QED
    BY <1>11, <2>2, <1>1, <1>2, <1>3 DEF CopyAside, CopyAsideFails, Drops, OneInv
<1>12. ASSUME \/ \E w \in Instances : Crash(w)
              \/ \E m \in Messages : Forget(m)
       PROVE  OneInv'
  BY <1>12, <1>1, <1>2, <1>3 DEF Crash, Forget, Drops, OneInv
<1>13. CASE UNCHANGED vars
  BY <1>13, <1>2, <1>3 DEF vars, OneInv
<1>14. QED
  BY <1>4, <1>5, <1>6, <1>7, <1>8, <1>9, <1>10, <1>11, <1>12, <1>13 DEF Next, Subscribe, Handle

\* While one instance starts after the other, what is published after one has
\* subscribed to its type is never passed over, whichever with other types start,
\* fail to and crash later; and what was set aside never comes back.
THEOREM EndpointTakesItsOwn == OneStarts /\ Spec => []TakesItsOwn
<1>1. Init => OneInv
  BY DEF Init, OneInv, OneWriterInv, SubscribedInv, OwedInv
<1>2. IInv /\ OneInv => TakesItsOwn
  BY StoredTypes DEF IInv, CopiesInv, CopiesStayAside, OneInv, OwedInv, OwedIsNotPassed, TakesItsOwn
<1>3. SUFFICES ASSUME OneStarts PROVE Spec => []TakesItsOwn
  OBVIOUS
<1>4. QED
  BY <1>1, <1>2, <1>3, Inductive, OneInvPreserved, PTL DEF Spec

\* Then the filter only widens, as the comments in subscribe say: no instance
\* takes away the subjects another waits for.
THEOREM FilterWidens == OneStarts /\ Spec => FilterOnlyWidens
<1>1. SUFFICES ASSUME OneStarts PROVE Spec => FilterOnlyWidens
  OBVIOUS
<1>2. Init => OneInv
  BY DEF Init, OneInv, OneWriterInv, SubscribedInv, OwedInv
<1>3. OneInv /\ [Next]_vars => [durable => filter \subseteq filter']_filter
  <2> SUFFICES ASSUME OneInv, [Next]_vars, durable, filter' # filter PROVE filter \subseteq filter'
    OBVIOUS
  <2>1. PICK w \in Instances : phase[w] = "creating" /\ WriteConsumer(w)
    BY DEF Next, vars, Publish, Forget, Subscribe, ReadConsumer, CreateConsumer, CreateFails, Handle,
           Ack, Retry, Reject, Settle, SettleFails, CopyAside, CopyAsideFails, Crash, Deliver, Pass,
           AckWaitEnds
  <2>2. QED
    BY <2>1 DEF OneInv, OneWriterInv, WriteConsumer
<1>4. QED
  BY <1>1, <1>2, <1>3, Inductive, OneInvPreserved, PTL DEF Spec, FilterOnlyWidens

===============================================================================
